----------------------------- MODULE Ratchet_proofs -----------------------------
(***************************************************************************)
(* What the operators of Ratchet do to a session, for every session and    *)
(* every envelope: the lemmas that the proofs about Conversation and about *)
(* ClientState share.                                                      *)
(*                                                                         *)
(* The first part is an induction over the loop of Decrypt that keeps the  *)
(* keys of a gap.  tlapm cannot instantiate the induction theorems of its  *)
(* library, which take the formula to prove as an operator; what it can    *)
(* use is that every nonempty set of naturals has a least element, here    *)
(* the first turn of the loop at which the claim would fail.  The second   *)
(* part follows one message key: once it is used, no session derives it    *)
(* again (Dead).  The third part follows positions: what is kept for late  *)
(* envelopes is numbered like its keys, and nothing is dropped as long as  *)
(* the store has room.                                                     *)
(***************************************************************************)
EXTENDS Ratchet, Functions, FiniteSetTheorems, WellFoundedInduction, TLAPS

LessThan == {ss \in Nat \X Nat : ss[1] < ss[2]}

LEMMA LessThanWellFounded == IsWellFoundedOn(LessThan, Nat)
  <1>1. OpToRel(<, Nat) = LessThan
    BY DEF OpToRel, LessThan
  <1> QED BY <1>1, NatLessThanWellFounded

LEMMA Least ==
    ASSUME NEW T, T \subseteq Nat, T # {}
    PROVE  \E x \in T : \A y \in T : x <= y
  <1>1. PICK x \in T : \A y \in T : ~(<<y, x>> \in LessThan)
    BY LessThanWellFounded, WFMin
  <1>2. \A y \in T : ~(y < x)
    BY <1>1 DEF LessThan
  <1> QED BY <1>2

\* The skipped keys after one more.
Another(s, i, X) == UNION {StoreSkippedKey(st, SkippedAt(s, i - 1)) : st \in X}

Stores(s, n, f) ==
    f = [i \in s.recv.index .. n |->
            IF i = s.recv.index THEN {s.skipped} ELSE Another(s, i, f[i - 1])]

LEMMA StoresExist ==
    ASSUME NEW s, s.recv.index \in Nat, NEW n \in Nat, s.recv.index <= n
    PROVE  \E f : Stores(s, n, f)
  <1> DEFINE a == s.recv.index
             T == {m \in Nat : a <= m /\ ~ \E f : Stores(s, m, f)}
  <1>1. SUFFICES T = {}
    OBVIOUS
  <1>2. SUFFICES ASSUME T # {} PROVE FALSE
    OBVIOUS
  <1>3. PICK m \in T : \A y \in T : m <= y
    BY <1>2, Least
  <1>4. m \in Nat /\ a <= m /\ ~ \E f : Stores(s, m, f)
    OBVIOUS
  <1>5. CASE m = a
    <2> DEFINE f == [i \in a .. a |-> {s.skipped}]
    <2>1. \A i \in a .. a : i = a
      OBVIOUS
    <2>2. f = [i \in a .. a |-> IF i = a THEN {s.skipped} ELSE Another(s, i, f[i - 1])]
      BY <2>1
    <2>3. Stores(s, a, f)
      BY <2>2 DEF Stores
    <2> QED BY <1>4, <1>5, <2>3
  <1>6. CASE m # a
    <2>1. m - 1 \in Nat /\ a <= m - 1 /\ m - 1 \notin T
      BY <1>3, <1>4, <1>6
    <2>2. PICK g : Stores(s, m - 1, g)
      BY <2>1
    <2> DEFINE f == [i \in a .. m |-> IF i = m THEN Another(s, m, g[m - 1]) ELSE g[i]]
    <2>3. ASSUME NEW i \in a .. m
          PROVE  f[i] = IF i = a THEN {s.skipped} ELSE Another(s, i, f[i - 1])
      <3>1. CASE i = m
        <4>1. f[i - 1] = g[m - 1] /\ f[i] = Another(s, m, g[m - 1])
          BY <1>4, <1>6, <3>1
        <4> QED BY <4>1, <1>6, <3>1
      <3>2. CASE i # m
        <4>1. i \in a .. m - 1 /\ f[i] = g[i]
          BY <3>2, <1>4
        <4>2. g[i] = IF i = a THEN {s.skipped} ELSE Another(s, i, g[i - 1])
          BY <2>2, <4>1 DEF Stores
        <4>3. i # a => f[i - 1] = g[i - 1]
          BY <4>1, <1>4
        <4> QED BY <4>1, <4>2, <4>3
      <3> QED BY <3>1, <3>2
    <2>4. DOMAIN f = a .. m
      OBVIOUS
    <2>5. f = [i \in a .. m |-> f[i]]
      OBVIOUS
    <2> HIDE DEF f
    <2>6. Stores(s, m, f)
      BY <2>3, <2>5 DEF Stores
    <2> QED BY <2>6, <1>4
  <1> QED BY <1>5, <1>6

LEMMA StoresAre ==
    ASSUME NEW s, s.recv.index \in Nat, NEW n \in Nat, s.recv.index <= n
    PROVE  \E f : Stores(s, n, f) /\ StoresUpTo(s, n) = f[n]
  <1> DEFINE F == CHOOSE f : Stores(s, n, f)
  <1>1. Stores(s, n, F)
    BY StoresExist
  <1>2. StoresUpTo(s, n) = F[n]
    BY Zenon DEF Stores, StoresUpTo, Another
  <1> QED BY <1>1, <1>2

-----------------------------------------------------------------------------
(* The store of skipped keys.                                              *)

Few(store) == IsFiniteSet(store) /\ Cardinality(store) <= MaxSkipped

\* storeSkippedKey adds one entry, and never goes above the maximum.
LEMMA StoresOne ==
    ASSUME NEW store, Few(store), NEW e, NEW st \in StoreSkippedKey(store, e)
    PROVE  Few(st) /\ st \subseteq store \cup {e} /\ e \in st
  <1> DEFINE roomy == IF Cardinality(store) >= MaxSkipped
                      THEN {store \ {x} : x \in store} ELSE {store}
  <1>1. PICK base \in roomy : st = {x \in base : ~SameSlot(x, e)} \cup {e}
    BY DEF StoreSkippedKey
  <1>2. /\ base \subseteq store /\ IsFiniteSet(base)
        /\ Cardinality(base) \in Nat /\ Cardinality(base) + 1 <= MaxSkipped
    <2>1. Cardinality(store) \in Nat /\ MaxSkipped \in Nat
      BY FS_CardinalityType, MaxSkippedAssumption DEF Few
    <2>2. CASE Cardinality(store) >= MaxSkipped
      <3>1. PICK x \in store : base = store \ {x}
        BY <2>2
      <3>2. IsFiniteSet(base) /\ Cardinality(base) = Cardinality(store) - 1
        BY <3>1, FS_RemoveElement DEF Few
      <3>3. Cardinality(base) \in Nat
        BY <3>2, FS_CardinalityType
      <3> QED BY <2>1, <3>1, <3>2, <3>3 DEF Few
    <2>3. CASE ~(Cardinality(store) >= MaxSkipped)
      <3>1. base = store
        BY <2>3
      <3> QED BY <2>1, <2>3, <3>1 DEF Few
    <2> QED BY <2>2, <2>3
  <1> DEFINE rest == {x \in base : ~SameSlot(x, e)}
  <1>3. rest \in SUBSET base
    OBVIOUS
  <1> HIDE DEF roomy, rest
  <1>4. IsFiniteSet(rest) /\ Cardinality(rest) <= Cardinality(base)
    BY <1>2, <1>3, FS_Subset
  <1>5. Cardinality(rest) \in Nat /\ MaxSkipped \in Nat
    BY <1>4, FS_CardinalityType, MaxSkippedAssumption
  <1>6. IsFiniteSet(st) /\ Cardinality(st) <= Cardinality(rest) + 1
    BY <1>1, <1>4, <1>5, FS_AddElement, SMTT(30) DEF rest
  <1>7. Cardinality(st) \in Nat
    BY <1>6, FS_CardinalityType
  <1>8. Few(st)
    BY <1>2, <1>4, <1>5, <1>6, <1>7 DEF Few
  <1> QED BY <1>1, <1>2, <1>3, <1>8 DEF rest

\* A store that the loop may leave once the chain stands at index n.
Filled(s, st, n) ==
    /\ Few(st)
    /\ \A e \in st : \/ e \in s.skipped
                     \/ \E i \in s.recv.index .. n - 1 : e = SkippedAt(s, i)

\* The loop of Decrypt keeps keys of the gap only, and never more than the
\* maximum.
LEMMA StoresWithin ==
    ASSUME NEW s, s.recv.index \in Nat, Few(s.skipped), NEW n \in Nat, s.recv.index <= n,
           NEW st \in StoresUpTo(s, n)
    PROVE  Filled(s, st, n)
  <1> DEFINE a == s.recv.index
  <1>1. PICK f : Stores(s, n, f) /\ StoresUpTo(s, n) = f[n]
    BY StoresAre
  <1> DEFINE T == {m \in Nat : m \in a .. n /\ \E x \in f[m] : ~Filled(s, x, m)}
  <1>2. ASSUME T # {} PROVE FALSE
    <2>1. PICK m \in T : \A y \in T : m <= y
      BY <1>2, Least
    <2>2. m \in Nat /\ m \in a .. n
      OBVIOUS
    <2>3. PICK x \in f[m] : ~Filled(s, x, m)
      OBVIOUS
    <2>4. f[m] = IF m = a THEN {s.skipped} ELSE Another(s, m, f[m - 1])
      BY <1>1, <2>2 DEF Stores
    <2>5. CASE m = a
      BY <2>3, <2>4, <2>5 DEF Filled
    <2>6. CASE m # a
      <3>1. m - 1 \in Nat /\ m - 1 \in a .. n /\ m - 1 \notin T
        BY <2>1, <2>2, <2>6
      <3>2. PICK y \in f[m - 1] : x \in StoreSkippedKey(y, SkippedAt(s, m - 1))
        BY <2>3, <2>4, <2>6 DEF Another
      <3>3. Filled(s, y, m - 1)
        BY <3>1, <3>2
      <3>4. Few(x) /\ x \subseteq y \cup {SkippedAt(s, m - 1)}
        BY <3>2, <3>3, StoresOne DEF Filled
      <3>5. a .. (m - 1) - 1 \subseteq a .. m - 1 /\ m - 1 \in a .. m - 1
        BY <2>2, <3>1
      <3>6. Filled(s, x, m)
        BY <3>3, <3>4, <3>5 DEF Filled
      <3> QED BY <3>6, <2>3
    <2> QED BY <2>5, <2>6
  <1>3. n \in a .. n
    OBVIOUS
  <1> QED BY <1>1, <1>2, <1>3

-----------------------------------------------------------------------------
(* One message key, followed through the sessions of a device.             *)

\* No root that is split from this one is the root of k: roots only get longer,
\* and keep the secret that they begin with.
Behind(k, root) == Len(k.root) <= Len(root) \/ Head(k.root) # Head(root)

\* The chain of k is not ahead of s: it ended, or went past k.
Passed(s, k) ==
    /\ Behind(k, s.root)
    /\ s.recv.key.root = k.root => k.step < s.recv.key.step

\* No later session of s can be made to open an envelope sealed with k.
Dead(s, k) == Passed(s, k) /\ \A e \in s.skipped : e.key # k

\* A session in which what is kept for late envelopes is in order.
Tidy(s) ==
    /\ s \in Session
    /\ Few(s.skipped)
    /\ s.root # <<>> /\ Behind(s.recv.key, s.root)
    /\ \A e \in s.skipped : Passed(s, e.key)
    /\ \A e, f \in s.skipped : e.key = f.key => e = f

LEMMA ChainOf ==
    ASSUME NEW root \in RootKey
    PROVE  /\ [key |-> FirstChainKey(root), index |-> 0] \in ChainState
           /\ [key |-> ZeroKey, index |-> 0] \in ChainState
           /\ FirstChainKey(root).root = root /\ ZeroKey.root = <<>>
  BY DEF FirstChainKey, ZeroKey, ChainState, ChainKey, RootKey

LEMMA FirstTidy ==
    ASSUME NEW x \in Nat, NEW y \in Nat
    PROVE  Tidy(InitSession(x, y)) /\ Tidy(AcceptSession(x, y))
  <1>1. <<DH(x, y)>> \in RootKey /\ <<DH(y, x)>> \in RootKey
        /\ Len(<<DH(x, y)>>) = 1 /\ Len(<<DH(y, x)>>) = 1
    BY DEF DH, RootKey, Secret, KeyPair
  <1>2. Few({}) /\ {} \subseteq SkippedEntry
    BY FS_EmptySet, MaxSkippedAssumption DEF Few
  <1>3. Len(<<>>) = 0
    OBVIOUS
  <1>4. InitSession(x, y) \in Session /\ AcceptSession(x, y) \in Session
    BY <1>1, <1>2, ChainOf DEF InitSession, AcceptSession, Session, KeyPair
  <1>5. ASSUME NEW s \in Session, s.skipped = {}, Len(s.root) = 1,
               Len(s.recv.key.root) <= Len(s.root)
        PROVE  Tidy(s)
    <2>1. s.root # <<>> /\ Behind(s.recv.key, s.root)
      BY <1>3, <1>5 DEF Behind
    <2> QED BY <2>1, <1>2, <1>5 DEF Tidy
  <1>6. /\ InitSession(x, y).skipped = {} /\ AcceptSession(x, y).skipped = {}
        /\ InitSession(x, y).root = <<DH(x, y)>>
        /\ InitSession(x, y).recv.key.root = <<>>
        /\ AcceptSession(x, y).recv.key.root = AcceptSession(x, y).root
        /\ AcceptSession(x, y).root = <<DH(y, x)>>
    BY <1>1, ChainOf DEF InitSession, AcceptSession
  <1>7. /\ Len(InitSession(x, y).root) = 1 /\ Len(AcceptSession(x, y).root) = 1
        /\ Len(InitSession(x, y).recv.key.root) <= Len(InitSession(x, y).root)
        /\ Len(AcceptSession(x, y).recv.key.root) <= Len(AcceptSession(x, y).root)
    BY <1>1, <1>3, <1>6
  <1> QED BY <1>4, <1>5, <1>6, <1>7

LEMMA AdvanceChain ==
    ASSUME NEW c \in ChainState
    PROVE  /\ Advance(c) \in ChainState /\ Advance(c).key.root = c.key.root
           /\ Advance(c).key.step = c.key.step + 1
  <1>1. c.key \in ChainKey /\ c.index \in Nat
    BY DEF ChainState
  <1>2. /\ NextChainKey(c.key) \in ChainKey /\ NextChainKey(c.key).root = c.key.root
        /\ NextChainKey(c.key).step = c.key.step + 1
    BY <1>1 DEF NextChainKey, ChainKey
  <1> QED BY <1>1, <1>2 DEF Advance, ChainState

\* A secret more makes a root longer, and leaves what was behind it behind.
LEMMA KdfLonger ==
    ASSUME NEW root \in RootKey, root # <<>>, NEW x \in Nat, NEW y \in Nat
    PROVE  LET q == KdfRoot(root, DH(x, y)) IN
           /\ q \in RootKey /\ q # <<>> /\ Head(q) = Head(root)
           /\ \A k \in ChainKey : Behind(k, root) => Behind(k, q) /\ k.root # q
  <1> DEFINE q == KdfRoot(root, DH(x, y))
  <1>1. DH(x, y) \in Secret
    BY DEF DH, Secret, KeyPair
  <1>2. /\ q \in RootKey /\ q # <<>> /\ Head(q) = Head(root)
        /\ Len(q) = Len(root) + 1 /\ Len(root) \in Nat
    BY <1>1 DEF KdfRoot, RootKey
  <1> HIDE DEF q
  <1>3. ASSUME NEW k \in ChainKey, Behind(k, root) PROVE Behind(k, q) /\ k.root # q
    <2>1. Len(k.root) \in Nat
      BY DEF ChainKey, RootKey
    <2> QED BY <1>2, <1>3, <2>1 DEF Behind
  <1> QED BY <1>2, <1>3 DEF q

\* s is replaced by t, whose root comes from that of s, without a new key.
LEMMA LongerDead ==
    ASSUME NEW s, Tidy(s), NEW t \in Session, t.recv = s.recv, t.skipped = s.skipped,
           t.root # <<>>, \A k \in ChainKey : Behind(k, s.root) => Behind(k, t.root)
    PROVE  Tidy(t) /\ \A k \in ChainKey : Dead(s, k) => Dead(t, k)
  <1>1. /\ s.recv.key \in ChainKey
        /\ \A e \in s.skipped : e.key \in ChainKey
    BY DEF Tidy, Session, ChainState, SkippedEntry
  <1>2. \A k \in ChainKey : Passed(s, k) => Passed(t, k)
    BY DEF Passed
  <1> QED BY <1>1, <1>2 DEF Tidy, Dead

LEMMA SealingDead ==
    ASSUME NEW s, Tidy(s), NEW fresh \in Nat
    PROVE  LET r == Sealing(s, fresh) IN
           Tidy(r) /\ \A k \in ChainKey : Dead(s, k) => Dead(r, k)
  <1>1. CASE ~NeedsRotation(s)
    BY <1>1 DEF Sealing
  <1>2. CASE NeedsRotation(s)
    <2> DEFINE root == KdfRoot(s.root, DH(fresh, s.remote))
               send == [key |-> FirstChainKey(root), index |-> 0]
               r == RotateRatchetOnSend(s, fresh)
    <2>1. s.root \in RootKey /\ s.root # <<>> /\ s.remote \in Nat /\ s.send.index \in Nat
      BY DEF Tidy, Session, KeyPair, ChainState
    <2>2. /\ root \in RootKey /\ root # <<>> /\ send \in ChainState
          /\ \A k \in ChainKey : Behind(k, s.root) => Behind(k, root)
      BY <2>1, KdfLonger, ChainOf
    <2>3. r = [s EXCEPT !.root = root, !.pn = s.send.index, !.send = send, !.own = fresh]
      BY DEF RotateRatchetOnSend
    <2> HIDE DEF root, send, r
    <2>4. r \in Session /\ r.recv = s.recv /\ r.skipped = s.skipped /\ r.root = root
      BY <2>1, <2>2, <2>3 DEF Tidy, Session, KeyPair
    <2>5. Tidy(r) /\ \A k \in ChainKey : Dead(s, k) => Dead(r, k)
      BY <2>2, <2>4, LongerDead
    <2> QED BY <1>2, <2>5 DEF Sealing, r
  <1> QED BY <1>1, <1>2

\* Encrypt revives nothing.
LEMMA EncryptDead ==
    ASSUME NEW s, Tidy(s), NEW fresh \in Nat
    PROVE  LET e == Encrypt(s, fresh) IN
           /\ e.header \in Header /\ e.key \in ChainKey
           /\ Tidy(e.session)
           /\ \A k \in ChainKey : Dead(s, k) => Dead(e.session, k)
  <1> DEFINE r == Sealing(s, fresh)
             t == [r EXCEPT !.send = Advance(@)]
             e == Encrypt(s, fresh)
  <1>1. Tidy(r) /\ \A k \in ChainKey : Dead(s, k) => Dead(r, k)
    BY SealingDead
  <1>2. e = [header |-> [dh |-> r.own, pn |-> r.pn, n |-> r.send.index],
             key |-> r.send.key, session |-> t]
    BY DEF Encrypt
  <1> HIDE DEF r
  <1>3. r.send \in ChainState /\ Advance(r.send) \in ChainState
    BY <1>1, AdvanceChain DEF Tidy, Session
  <1>4. t \in Session /\ t.recv = r.recv /\ t.skipped = r.skipped /\ t.root = r.root
    BY <1>1, <1>3 DEF Tidy, Session
  <1>5. t.root # <<>> /\ \A k \in ChainKey : Behind(k, r.root) => Behind(k, t.root)
    BY <1>1, <1>4 DEF Tidy
  <1>6. Tidy(t) /\ \A k \in ChainKey : Dead(r, k) => Dead(t, k)
    BY <1>1, <1>4, <1>5, LongerDead
  <1>7. [dh |-> r.own, pn |-> r.pn, n |-> r.send.index] \in Header
        /\ r.send.key \in ChainKey
    BY <1>1, <1>3 DEF Tidy, Session, Header, ChainState
  <1> HIDE DEF t, e
  <1>8. e.session = t /\ e.header \in Header /\ e.key \in ChainKey
    BY <1>2, <1>7
  <1> QED BY <1>1, <1>6, <1>8 DEF e

\* What the loop of Decrypt keeps is a key of the gap.
LEMMA GapKey ==
    ASSUME NEW s, Tidy(s), NEW n \in Nat, NEW i \in s.recv.index .. n - 1
    PROVE  LET e == SkippedAt(s, i) IN
           /\ e \in SkippedEntry /\ e.key.root = s.recv.key.root
           /\ e.key.step = s.recv.key.step + (i - s.recv.index)
  <1>1. /\ s.recv.index \in Nat /\ s.recv.key \in ChainKey /\ s.remote \in KeyPair
        /\ s.recv.key.step \in Nat
    BY DEF Tidy, Session, ChainState, ChainKey
  <1>2. i \in Nat /\ i - s.recv.index \in Nat
    BY <1>1
  <1> DEFINE key == [s.recv.key EXCEPT !.step = @ + (i - s.recv.index)]
  <1>3. /\ key \in ChainKey /\ key.root = s.recv.key.root
        /\ key.step = s.recv.key.step + (i - s.recv.index)
    BY <1>1, <1>2 DEF ChainKey
  <1>4. SkippedAt(s, i) = [dh |-> s.remote, n |-> i, mangled |-> FALSE, key |-> key]
    BY DEF SkippedAt
  <1> HIDE DEF key
  <1> QED BY <1>1, <1>2, <1>3, <1>4 DEF SkippedEntry

\* The chain after it was filled up to n and advanced.
LEMMA ChainAtStep ==
    ASSUME NEW c \in ChainState, NEW n \in Nat, c.index <= n
    PROVE  /\ ChainAt(c, n) \in ChainState
           /\ ChainAt(c, n).key.root = c.key.root
           /\ ChainAt(c, n).key.step = c.key.step + (n - c.index)
           /\ n - c.index \in Nat /\ c.key.step \in Nat
  <1>1. c.key \in ChainKey /\ c.index \in Nat /\ n - c.index \in Nat
        /\ c.key.step \in Nat
    BY DEF ChainState, ChainKey
  <1> DEFINE key == [c.key EXCEPT !.step = @ + (n - c.index)]
  <1>2. /\ key \in ChainKey /\ key.root = c.key.root
        /\ key.step = c.key.step + (n - c.index)
    BY <1>1 DEF ChainKey
  <1>3. ChainAt(c, n) = [key |-> key, index |-> n]
    BY DEF ChainAt
  <1> HIDE DEF key
  <1> QED BY <1>1, <1>2, <1>3 DEF ChainState

LEMMA FirstBehind ==
    ASSUME NEW root \in RootKey, NEW k, k.root = root
    PROVE  Behind(k, root)
  BY DEF Behind, RootKey

LEMMA RotateDead ==
    ASSUME NEW s, Tidy(s), NEW h \in Header
    PROVE  LET r == RotateRatchetOnRecv(s, h) IN
           Tidy(r) /\ \A k \in ChainKey : Dead(s, k) => Dead(r, k)
  <1>1. CASE h.dh = s.remote
    BY <1>1 DEF RotateRatchetOnRecv
  <1>2. CASE h.dh # s.remote
    <2> DEFINE root == KdfRoot(s.root, DH(s.own, h.dh))
               recv == [key |-> FirstChainKey(root), index |-> 0]
               send == [key |-> ZeroKey, index |-> 0]
               r == RotateRatchetOnRecv(s, h)
    <2>1. /\ s.root \in RootKey /\ s.root # <<>>
          /\ s.own \in Nat /\ h.dh \in Nat /\ h.pn \in Nat
      BY DEF Tidy, Session, KeyPair, Header
    <2>2. /\ root \in RootKey /\ root # <<>>
          /\ \A k \in ChainKey : Behind(k, s.root) => Behind(k, root) /\ k.root # root
          /\ recv \in ChainState /\ send \in ChainState /\ recv.key.root = root
      <3>1. /\ root \in RootKey /\ root # <<>>
            /\ \A k \in ChainKey : Behind(k, s.root) => Behind(k, root) /\ k.root # root
        BY <2>1, KdfLonger
      <3> HIDE DEF root
      <3> QED BY <3>1, ChainOf
    <2>3. r = [s EXCEPT !.root = root, !.remote = h.dh, !.recv = recv, !.send = send,
                        !.pn = h.pn]
      BY <1>2 DEF RotateRatchetOnRecv
    <2> HIDE DEF root, recv, send, r
    <2>4. /\ r \in Session /\ r.recv = recv /\ r.root = root /\ r.skipped = s.skipped
      BY <2>1, <2>2, <2>3 DEF Tidy, Session, KeyPair
    <2>5. \A e \in s.skipped : e.key \in ChainKey
      BY DEF Tidy, Session, SkippedEntry
    <2>6. \A k \in ChainKey : Passed(s, k) => Passed(r, k)
      BY <2>2, <2>4, <2>5 DEF Passed
    <2>7. Tidy(r)
      <3>1. Behind(recv.key, root)
        BY <2>2, FirstBehind
      <3> QED BY <3>1, <2>2, <2>4, <2>5, <2>6 DEF Tidy
    <2> QED BY <2>4, <2>6, <2>7 DEF Dead, r
  <1> QED BY <1>1, <1>2

\* The session once its chain was filled up to n and advanced.
Jumped(s, n, st) == [s EXCEPT !.recv = Advance(ChainAt(s.recv, n)), !.skipped = st]

\* Decrypt on the chain: the key that is used and those that are left behind.
LEMMA FillDead ==
    ASSUME NEW s, Tidy(s), NEW n \in Nat, s.recv.index <= n, NEW st \in StoresUpTo(s, n)
    PROVE  /\ Tidy(Jumped(s, n, st))
           /\ \A k \in ChainKey : Dead(s, k) => Dead(Jumped(s, n, st), k)
           /\ ChainAt(s.recv, n).key \in ChainKey /\ ~Dead(s, ChainAt(s.recv, n).key)
           /\ Dead(Jumped(s, n, st), ChainAt(s.recv, n).key)
  <1> PICK at, t : at = ChainAt(s.recv, n) /\ t = Jumped(s, n, st)
    OBVIOUS
  <1> DEFINE a == s.recv.index
             b == s.recv.key.step
  <1>1. /\ s.recv \in ChainState /\ a \in Nat /\ b \in Nat
        /\ s.root \in RootKey /\ Len(s.root) \in Nat
        /\ \A k \in ChainKey : Len(k.root) \in Nat /\ k.step \in Nat
        /\ \A e \in s.skipped : e \in SkippedEntry /\ e.key \in ChainKey
    BY DEF Tidy, Session, ChainState, ChainKey, RootKey, SkippedEntry
  <1>2. /\ at \in ChainState /\ at.key.root = s.recv.key.root
        /\ at.key.step = b + (n - a) /\ n - a \in Nat /\ at.key \in ChainKey
        /\ at.key.step \in Nat /\ b <= at.key.step
    BY <1>1, ChainAtStep, SMTT(30) DEF ChainState
  <1>3. /\ Advance(at) \in ChainState /\ Advance(at).key.root = s.recv.key.root
        /\ Advance(at).key.step = at.key.step + 1
    BY <1>2, AdvanceChain
  <1>4. Filled(s, st, n)
    BY <1>1, StoresWithin DEF Tidy
  <1>5. ASSUME NEW e \in st
        PROVE  /\ e \in SkippedEntry /\ e.key \in ChainKey /\ e.key.step \in Nat
               /\ \/ e \in s.skipped
                  \/ /\ e.key.root = s.recv.key.root
                     /\ b <= e.key.step /\ e.key.step < at.key.step
                     /\ e = SkippedAt(s, e.key.step - b + a)
    <2>1. CASE e \in s.skipped
      BY <1>1, <2>1
    <2>2. CASE \E i \in a .. n - 1 : e = SkippedAt(s, i)
      <3>1. PICK i \in a .. n - 1 : e = SkippedAt(s, i)
        BY <2>2
      <3>2. /\ e \in SkippedEntry /\ e.key.root = s.recv.key.root
            /\ e.key.step = b + (i - a)
        BY <3>1, GapKey
      <3>3. i \in Nat /\ a <= i /\ i < n
        BY <1>1
      <3>4. i = e.key.step - b + a /\ b <= e.key.step /\ e.key.step < at.key.step
        <4> HIDE DEF a, b
        <4> QED BY <1>1, <1>2, <3>2, <3>3
      <3>5. e.key \in ChainKey
        BY <3>2 DEF SkippedEntry
      <3> QED BY <1>1, <3>1, <3>2, <3>4, <3>5
    <2> QED BY <2>1, <2>2, <1>4 DEF Filled
  <1>6. /\ t \in Session /\ t.recv = Advance(at) /\ t.skipped = st /\ t.root = s.root
    <2>1. st \subseteq SkippedEntry
      BY <1>5
    <2>2. t = [s EXCEPT !.recv = Advance(at), !.skipped = st]
      BY DEF Jumped
    <2> QED BY <2>1, <2>2, <1>3 DEF Tidy, Session
  <1>7. \A k \in ChainKey : Passed(s, k) => Passed(t, k)
    BY <1>1, <1>2, <1>3, <1>6 DEF Passed
  <1>8. \A e \in st : Passed(t, e.key)
    <2> SUFFICES ASSUME NEW e \in st PROVE Passed(t, e.key)
      OBVIOUS
    <2>1. CASE e \in s.skipped
      BY <2>1, <1>5, <1>7 DEF Tidy
    <2>2. CASE /\ e.key.root = s.recv.key.root
               /\ b <= e.key.step /\ e.key.step < at.key.step
      <3>1. e.key.step < Advance(at).key.step
        BY <1>2, <1>3, <1>5, <2>2
      <3> QED BY <2>2, <3>1, <1>3, <1>6 DEF Passed, Tidy, Behind
    <2> QED BY <2>1, <2>2, <1>5
  <1>9. \A e, f \in st : e.key = f.key => e = f
    <2> SUFFICES ASSUME NEW e \in st, NEW f \in st, e.key = f.key PROVE e = f
      OBVIOUS
    <2>1. \A g \in s.skipped : g.key.root = s.recv.key.root => g.key.step < b
      BY DEF Tidy, Passed
    <2>2. CASE e \in s.skipped /\ f \in s.skipped
      BY <2>2 DEF Tidy
    <2>3. CASE e \notin s.skipped \/ f \notin s.skipped
      <3>1. /\ e.key.root = s.recv.key.root /\ b <= e.key.step /\ e.key.step < at.key.step
            /\ f.key.root = s.recv.key.root /\ b <= f.key.step /\ f.key.step < at.key.step
        BY <1>5, <2>3
      <3>2. e \notin s.skipped /\ f \notin s.skipped
        BY <1>1, <2>1, <3>1
      <3> QED BY <1>5, <3>2
    <2> QED BY <2>2, <2>3
  <1>10. Tidy(t)
    <2>1. Few(st)
      BY <1>4 DEF Filled
    <2> QED BY <2>1, <1>3, <1>6, <1>8, <1>9 DEF Tidy, Behind
  <1>11. ASSUME NEW k \in ChainKey, Dead(s, k) PROVE Dead(t, k)
    <2>1. ASSUME NEW e \in st PROVE e.key # k
      <3>1. CASE e \in s.skipped
        BY <1>11, <3>1 DEF Dead
      <3>2. CASE /\ e.key.root = s.recv.key.root
                 /\ b <= e.key.step /\ e.key.step < at.key.step
        BY <1>1, <1>11, <3>2 DEF Dead, Passed
      <3> QED BY <1>5, <3>1, <3>2
    <2> QED BY <2>1, <1>6, <1>7, <1>11 DEF Dead
  <1>12. ~Dead(s, at.key)
    BY <1>1, <1>2 DEF Dead, Passed
  <1>13. Dead(t, at.key)
    <2>1. Passed(t, at.key)
      BY <1>1, <1>2, <1>3, <1>6 DEF Passed, Tidy, Behind
    <2>2. ASSUME NEW e \in st PROVE e.key # at.key
      <3>1. CASE e \in s.skipped
        <4>1. e.key.root = s.recv.key.root => e.key.step < b
          BY <3>1 DEF Tidy, Passed
        <4> HIDE DEF b
        <4> QED BY <4>1, <1>1, <1>2, <1>5
      <3>2. CASE e.key.step < at.key.step
        BY <1>1, <1>2, <1>5, <3>2
      <3> QED BY <1>5, <3>1, <3>2
    <2> QED BY <2>1, <2>2, <1>6 DEF Dead
  <1> QED BY <1>2, <1>10, <1>11, <1>12, <1>13

\* Decrypt keeps a session in order, revives no key, and opens an envelope
\* only with a key that was alive and is dead then.
LEMMA DecryptDead ==
    ASSUME NEW s, Tidy(s), NEW m, m.header \in Header, NEW out \in Decrypt(s, m)
    PROVE  /\ Tidy(out.session)
           /\ \A k \in ChainKey : Dead(s, k) => Dead(out.session, k)
           /\ out.result = "read" => ~Dead(s, m.key) /\ Dead(out.session, m.key)
  <1>1. CASE SkippedFor(s, m.header) # {}
    <2>1. PICK e \in SkippedFor(s, m.header) :
            out = Outcome([s EXCEPT !.skipped = @ \ {e}],
                          IF Opens(e.key, m) THEN "read" ELSE "failed")
      BY <1>1 DEF Decrypt, DecryptSkipped
    <2> DEFINE st == s.skipped \ {e}
               t == [s EXCEPT !.skipped = st]
    <2>2. out.session = t /\ (out.result = "read" => e.key = m.key) /\ e \in s.skipped
      BY <2>1 DEF Outcome, Opens, SkippedFor
    <2>3. Few(st)
      <3>1. Cardinality(s.skipped) \in Nat /\ MaxSkipped \in Nat
        BY FS_CardinalityType, MaxSkippedAssumption DEF Tidy, Few
      <3>2. IsFiniteSet(s.skipped) /\ Cardinality(s.skipped) <= MaxSkipped
        BY DEF Tidy, Few
      <3>3. IsFiniteSet(st) /\ Cardinality(st) = Cardinality(s.skipped) - 1
        BY <2>2, <3>2, FS_RemoveElement
      <3> HIDE DEF st
      <3> QED BY <3>1, <3>2, <3>3 DEF Few
    <2>4. st \subseteq s.skipped /\ e \notin st
      OBVIOUS
    <2> HIDE DEF st
    <2>5. t \in Session /\ t.recv = s.recv /\ t.root = s.root /\ t.skipped = st
      BY <2>4 DEF Tidy, Session
    <2> HIDE DEF t
    <2>6. \A k : Passed(s, k) => Passed(t, k)
      BY <2>5 DEF Passed
    <2>7. Tidy(t)
      BY <2>3, <2>4, <2>5, <2>6 DEF Tidy
    <2>8. \A k : Dead(s, k) => Dead(t, k)
      BY <2>4, <2>5, <2>6 DEF Dead
    <2>9. ~Dead(s, e.key) /\ Dead(t, e.key)
      BY <2>2, <2>4, <2>5, <2>6 DEF Dead, Tidy
    <2> QED BY <2>2, <2>7, <2>8, <2>9
  <1>2. CASE SkippedFor(s, m.header) = {}
    <2> DEFINE r == RotateRatchetOnRecv(s, m.header)
               n == m.header.n
               at == ChainAt(r.recv, n)
    <2>1. Tidy(r) /\ \A k \in ChainKey : Dead(s, k) => Dead(r, k)
      BY RotateDead
    <2>2. n \in Nat /\ r.recv.index \in Nat
      BY <2>1 DEF Header, Tidy, Session, ChainState
    <2>3. CASE n < r.recv.index
      <3>1. out = Outcome(r, "duplicate")
        BY <1>2, <2>3 DEF Decrypt, DecryptOnChain
      <3> QED BY <2>1, <3>1 DEF Outcome
    <2>4. CASE ~(n < r.recv.index)
      <3>1. PICK st \in StoresUpTo(r, n) :
              out = Outcome(Jumped(r, n, st), IF Opens(at.key, m) THEN "read" ELSE "failed")
        BY <1>2, <2>4 DEF Decrypt, DecryptOnChain, Jumped
      <3>2. out.session = Jumped(r, n, st) /\ (out.result = "read" => at.key = m.key)
        BY <3>1 DEF Outcome, Opens
      <3> HIDE DEF r, n
      <3>3. /\ Tidy(Jumped(r, n, st))
            /\ \A k \in ChainKey : Dead(r, k) => Dead(Jumped(r, n, st), k)
            /\ at.key \in ChainKey /\ ~Dead(r, at.key) /\ Dead(Jumped(r, n, st), at.key)
        <4>1. Tidy(r) /\ n \in Nat /\ st \in StoresUpTo(r, n) /\ r.recv.index <= n
          BY <2>1, <2>2, <2>4
        <4> QED BY <4>1, FillDead
      <3> HIDE DEF at
      <3> QED BY <2>1, <3>2, <3>3
    <2> QED BY <2>3, <2>4
  <1> QED BY <1>1, <1>2

\* Nor does saving and loading.
LEMMA ExportDead ==
    ASSUME NEW s, Tidy(s)
    PROVE  /\ Tidy(ExportImport(s))
           /\ \A k \in ChainKey : Dead(s, k) => Dead(ExportImport(s), k)
  <1> DEFINE Mangled(e) == [e EXCEPT !.mangled = TRUE]
             st == {Mangled(e) : e \in s.skipped}
             t == ExportImport(s)
  <1>1. ASSUME NEW e \in s.skipped
        PROVE  Mangled(e) \in SkippedEntry /\ Mangled(e).key = e.key
    BY DEF Tidy, Session, SkippedEntry
  <1>2. t = [s EXCEPT !.skipped = st]
    BY DEF ExportImport
  <1>3. Few(st)
    <2>1. IsFiniteSet(st) /\ Cardinality(st) <= Cardinality(s.skipped)
      <3> DEFINE f == [e \in s.skipped |-> Mangled(e)]
      <3>1. f \in Surjection(s.skipped, st)
        BY DEF Surjection
      <3> HIDE DEF f, st
      <3> QED BY <3>1, FS_Surjection DEF Tidy, Few
    <2>2. /\ Cardinality(s.skipped) \in Nat /\ Cardinality(st) \in Nat
          /\ MaxSkipped \in Nat
      BY <2>1, FS_CardinalityType, MaxSkippedAssumption DEF Tidy, Few
    <2> QED BY <2>1, <2>2 DEF Tidy, Few
  <1>4. \A f \in st : \E e \in s.skipped : f = Mangled(e) /\ f.key = e.key
    BY <1>1
  <1>5. st \subseteq SkippedEntry
    BY <1>1
  <1> HIDE DEF st, t
  <1>6. t \in Session /\ t.recv = s.recv /\ t.root = s.root /\ t.skipped = st
    BY <1>2, <1>5 DEF Tidy, Session
  <1> HIDE DEF Mangled
  <1>7. \A k : Passed(s, k) => Passed(t, k)
    BY <1>6 DEF Passed
  <1>8. Tidy(t)
    BY <1>3, <1>4, <1>6, <1>7 DEF Tidy
  <1>9. \A k : Dead(s, k) => Dead(t, k)
    BY <1>4, <1>6, <1>7 DEF Dead
  <1> QED BY <1>8, <1>9 DEF t

-----------------------------------------------------------------------------
(* Sending chains.                                                         *)

\* The keys of its sending chain are of no use to s for receiving.
Apart(s) ==
    NeedsRotation(s) \/ \A k \in ChainKey : k.root = s.send.key.root => Dead(s, k)

\* t sends on the chain of s, or on none.
SendsAs(t, s) ==
    \/ NeedsRotation(t)
    \/ t.send = s.send /\ t.own = s.own /\ t.remote = s.remote

\* A chain split from a root that is longer than what s knew.
LEMMA NewChainApart ==
    ASSUME NEW s, Tidy(s), NEW t, t.send.key = FirstChainKey(t.root), t.recv = s.recv,
           t.skipped = s.skipped, t.root \in RootKey, t.root # <<>>,
           \A k \in ChainKey : Behind(k, s.root) => k.root # t.root
    PROVE  ~NeedsRotation(t) /\ Apart(t)
  <1>1. t.send.key.root = t.root
    BY DEF FirstChainKey
  <1>2. ~NeedsRotation(t)
    BY <1>1 DEF NeedsRotation, ZeroKey
  <1>3. ASSUME NEW k \in ChainKey, k.root = t.root PROVE Dead(t, k)
    <2>1. /\ s.recv.key \in ChainKey /\ \A e \in s.skipped : e.key \in ChainKey
      BY DEF Tidy, Session, ChainState, SkippedEntry
    <2>2. \A e \in s.skipped : e.key.root # t.root
      BY <2>1 DEF Tidy, Passed
    <2>3. s.recv.key.root # t.root
      BY <2>1 DEF Tidy
    <2>4. Behind(k, t.root)
      BY <1>3, FirstBehind
    <2> QED BY <1>3, <2>2, <2>3, <2>4 DEF Dead, Passed
  <1> QED BY <1>1, <1>2, <1>3 DEF Apart

LEMMA FirstApart ==
    ASSUME NEW x \in Nat, NEW y \in Nat
    PROVE  Apart(InitSession(x, y)) /\ ~NeedsRotation(InitSession(x, y))
           /\ Apart(AcceptSession(x, y))
  <1>1. <<DH(x, y)>> \in RootKey /\ Len(<<DH(x, y)>>) = 1
    BY DEF DH, RootKey, Secret, KeyPair
  <1> DEFINE s == InitSession(x, y)
  <1>2. /\ s.send.key = FirstChainKey(s.root) /\ s.root = <<DH(x, y)>>
        /\ s.recv.key = ZeroKey /\ s.skipped = {}
    BY DEF InitSession
  <1> HIDE DEF s
  <1>3. s.send.key.root = s.root /\ s.recv.key.root # s.root /\ s.send.key # ZeroKey
    BY <1>1, <1>2 DEF FirstChainKey, ZeroKey
  <1>4. ~NeedsRotation(s)
    BY <1>3 DEF NeedsRotation
  <1>5. ASSUME NEW k \in ChainKey, k.root = s.root PROVE Dead(s, k)
    BY <1>1, <1>2, <1>3, <1>5, FirstBehind DEF Dead, Passed
  <1>6. NeedsRotation(AcceptSession(x, y))
    BY DEF AcceptSession, NeedsRotation
  <1> QED BY <1>3, <1>4, <1>5, <1>6 DEF Apart, s

\* Encrypt takes its key from the chain of a session that can send.
LEMMA EncryptApart ==
    ASSUME NEW s, Tidy(s), Apart(s), NEW fresh \in Nat
    PROVE  LET e == Encrypt(s, fresh)
               r == Sealing(s, fresh) IN
           /\ Tidy(r) /\ ~NeedsRotation(r) /\ Apart(r)
           /\ Apart(e.session) /\ ~NeedsRotation(e.session)
           /\ Dead(e.session, e.key)
           /\ e.key = r.send.key /\ e.header.dh = r.own
           /\ e.session.send.key.root = e.key.root
           /\ e.session.send.key.step = e.key.step + 1
           /\ e.session.own = r.own /\ e.session.remote = r.remote
           /\ e.session.root = r.root
  <1> DEFINE r == Sealing(s, fresh)
             t == [r EXCEPT !.send = Advance(@)]
             e == Encrypt(s, fresh)
  <1>1. Tidy(r)
    BY SealingDead
  <1>2. ~NeedsRotation(r) /\ Apart(r)
    <2>1. CASE ~NeedsRotation(s)
      BY <2>1 DEF Sealing
    <2>2. CASE NeedsRotation(s)
      <3>1. s.root \in RootKey /\ s.root # <<>> /\ s.remote \in Nat
        BY DEF Tidy, Session, KeyPair
      <3> DEFINE root == KdfRoot(s.root, DH(fresh, s.remote))
      <3>2. /\ root \in RootKey /\ root # <<>>
            /\ \A k \in ChainKey : Behind(k, s.root) => k.root # root
        BY <3>1, KdfLonger
      <3>3. /\ r.send.key = FirstChainKey(root) /\ r.root = root
            /\ r.recv = s.recv /\ r.skipped = s.skipped
        BY <2>2 DEF Sealing, RotateRatchetOnSend, Tidy, Session
      <3> HIDE DEF root, r
      <3> QED BY <3>2, <3>3, NewChainApart
    <2> QED BY <2>1, <2>2
  <1>3. e = [header |-> [dh |-> r.own, pn |-> r.pn, n |-> r.send.index],
             key |-> r.send.key, session |-> t]
    BY DEF Encrypt
  <1> HIDE DEF r
  <1>4. /\ r.send \in ChainState /\ r.send.key \in ChainKey /\ r.send.key.step \in Nat
        /\ Advance(r.send).key.root = r.send.key.root
        /\ Advance(r.send).key.step = r.send.key.step + 1
    BY <1>1, AdvanceChain DEF Tidy, Session, ChainState, ChainKey
  <1>5. /\ t.send = Advance(r.send) /\ t.recv = r.recv /\ t.skipped = r.skipped
        /\ t.root = r.root /\ t.own = r.own /\ t.remote = r.remote
    BY <1>1 DEF Tidy, Session
  <1>6. e.session = t /\ e.key = r.send.key /\ e.header.dh = r.own
    BY <1>3
  <1> HIDE DEF t, e
  <1>7. \A k : Dead(r, k) => Dead(t, k)
    BY <1>5 DEF Dead, Passed
  <1>8. t.send.key.root = r.send.key.root /\ t.send.key.step = r.send.key.step + 1
    BY <1>4, <1>5
  <1>9. \A k \in ChainKey : k.root = r.send.key.root => Dead(t, k)
    BY <1>2, <1>7 DEF Apart
  <1>10. ~NeedsRotation(t)
    BY <1>4, <1>8 DEF NeedsRotation, ZeroKey
  <1>11. Apart(t) /\ Dead(t, r.send.key)
    BY <1>4, <1>8, <1>9 DEF Apart
  <1> QED BY <1>1, <1>2, <1>5, <1>6, <1>8, <1>10, <1>11 DEF r, e

\* Decrypt leaves the sending chain alone or drops it.
LEMMA DecryptSends ==
    ASSUME NEW s, Tidy(s), NEW m, NEW out \in Decrypt(s, m)
    PROVE  SendsAs(out.session, s)
  <1>1. CASE SkippedFor(s, m.header) # {}
    <2>1. PICK e \in SkippedFor(s, m.header) :
            out = Outcome([s EXCEPT !.skipped = @ \ {e}],
                          IF Opens(e.key, m) THEN "read" ELSE "failed")
      BY <1>1 DEF Decrypt, DecryptSkipped
    <2> DEFINE st == s.skipped \ {e}
    <2>2. out.session = [s EXCEPT !.skipped = st]
      BY <2>1 DEF Outcome
    <2> HIDE DEF st
    <2> QED BY <2>2 DEF SendsAs, Tidy, Session
  <1>2. CASE SkippedFor(s, m.header) = {}
    <2> DEFINE r == RotateRatchetOnRecv(s, m.header)
    <2>1. SendsAs(r, s)
      BY DEF RotateRatchetOnRecv, SendsAs, NeedsRotation, Tidy, Session
    <2>2. CASE m.header.n < r.recv.index
      <3>1. out = Outcome(r, "duplicate")
        BY <1>2, <2>2 DEF Decrypt, DecryptOnChain
      <3> QED BY <2>1, <3>1 DEF Outcome
    <2>3. CASE ~(m.header.n < r.recv.index)
      <3> DEFINE recv == Advance(ChainAt(r.recv, m.header.n))
      <3>1. PICK st \in StoresUpTo(r, m.header.n) :
              out = Outcome([r EXCEPT !.recv = recv, !.skipped = st],
                            IF Opens(ChainAt(r.recv, m.header.n).key, m)
                            THEN "read" ELSE "failed")
        BY <1>2, <2>3 DEF Decrypt, DecryptOnChain
      <3>2. out.session = [r EXCEPT !.recv = recv, !.skipped = st]
        BY <3>1 DEF Outcome
      <3> HIDE DEF recv
      <3>3. r.send = r.send /\ DOMAIN r = DOMAIN s
        BY DEF RotateRatchetOnRecv, Tidy, Session
      <3> HIDE DEF r
      <3>4. out.session.send = r.send /\ out.session.own = r.own
            /\ out.session.remote = r.remote
        BY <3>2, <3>3 DEF Tidy, Session
      <3> QED BY <2>1, <3>4 DEF SendsAs, NeedsRotation
    <2> QED BY <2>2, <2>3
  <1> QED BY <1>1, <1>2

\* What keeps the sending chain and revives no key keeps the chains apart.
LEMMA SendsApart ==
    ASSUME NEW s, Apart(s), NEW t, SendsAs(t, s),
           \A k \in ChainKey : Dead(s, k) => Dead(t, k)
    PROVE  Apart(t)
  BY DEF Apart, SendsAs, NeedsRotation

LEMMA ExportSends ==
    ASSUME NEW s, Tidy(s)
    PROVE  SendsAs(ExportImport(s), s) /\ ExportImport(s).send = s.send
           /\ ExportImport(s).root = s.root
  <1>1. PICK skipped : ExportImport(s) = [s EXCEPT !.skipped = skipped]
    BY DEF ExportImport
  <1> QED BY <1>1 DEF SendsAs, Tidy, Session

-----------------------------------------------------------------------------
(* Key pairs: a chain that is begun has a root unlike every other.         *)

\* Every key pair hashed into root r was generated before key pair b.
RootBelow(r, b) == \A i \in DOMAIN r : \A k \in r[i] : k < b

\* What s sends with was generated before key pair b.
Below(s, b) ==
    /\ RootBelow(s.root, b) /\ RootBelow(s.send.key.root, b)
    /\ s.own < b /\ s.remote < b
    /\ NeedsRotation(s) \/ s.send.key.root # <<>>

SessionInv(s, b) == Tidy(s) /\ Below(s, b)

\* A bound on the key pairs of a root may be raised.
LEMMA BelowMono ==
    ASSUME NEW r \in RootKey, NEW b \in Nat, NEW c \in Nat, b <= c, RootBelow(r, b)
    PROVE  RootBelow(r, c)
  <1> SUFFICES ASSUME NEW i \in DOMAIN r, NEW k \in r[i] PROVE k < c
    BY DEF RootBelow
  <1>1. r[i] \subseteq Nat
    BY DEF RootKey, Secret, KeyPair
  <1>2. k \in Nat /\ k < b
    BY <1>1 DEF RootBelow
  <1> QED BY <1>2

\* kdfRoot of a bounded root and two bounded key pairs is a bounded root.
LEMMA KdfBelow ==
    ASSUME NEW r \in RootKey, NEW b \in Nat, RootBelow(r, b),
           NEW x \in Nat, NEW y \in Nat, x < b, y < b
    PROVE  /\ KdfRoot(r, DH(x, y)) \in RootKey
           /\ KdfRoot(r, DH(x, y)) # <<>>
           /\ RootBelow(KdfRoot(r, DH(x, y)), b)
  <1> DEFINE q == KdfRoot(r, DH(x, y))
  <1>1. {x, y} \in Secret
    BY DEF Secret, KeyPair
  <1>2. q = Append(r, {x, y})
    BY DEF KdfRoot, DH
  <1>3. q \in RootKey /\ Len(q) = Len(r) + 1 /\ DOMAIN q = 1 .. Len(r) + 1
    BY <1>1, <1>2 DEF RootKey
  <1>4. ASSUME NEW i \in DOMAIN q, NEW k \in q[i] PROVE k < b
    <2>1. CASE i = Len(r) + 1
      <3>1. q[i] = {x, y}
        BY <2>1, <1>1, <1>2 DEF RootKey
      <3> QED BY <3>1, <1>4
    <2>2. CASE i # Len(r) + 1
      <3>1. i \in DOMAIN r /\ q[i] = r[i]
        BY <2>2, <1>1, <1>2, <1>3, <1>4 DEF RootKey
      <3> QED BY <3>1, <1>4 DEF RootBelow
    <2> QED BY <2>1, <2>2
  <1>5. q # <<>>
    BY <1>3 DEF RootKey
  <1> QED BY <1>3, <1>4, <1>5 DEF RootBelow

\* A root into which key pair b was hashed is not bounded by b.
LEMMA KdfFresh ==
    ASSUME NEW r \in RootKey, NEW b \in Nat, NEW y \in Nat
    PROVE  ~RootBelow(KdfRoot(r, DH(b, y)), b)
  <1> DEFINE q == KdfRoot(r, DH(b, y))
  <1>1. {b, y} \in Secret
    BY DEF Secret, KeyPair
  <1>2. q = Append(r, {b, y})
    BY DEF KdfRoot, DH
  <1>3. Len(r) + 1 \in DOMAIN q /\ q[Len(r) + 1] = {b, y}
    BY <1>1, <1>2 DEF RootKey
  <1> QED BY <1>3 DEF RootBelow

\* The first root, hashed from key pairs x and y alone.
LEMMA FirstRoot ==
    ASSUME NEW x \in Nat, NEW y \in Nat, NEW b \in Nat, x < b, y < b
    PROVE  /\ <<DH(x, y)>> \in RootKey
           /\ <<DH(x, y)>> # <<>>
           /\ RootBelow(<<DH(x, y)>>, b)
           /\ ~RootBelow(<<DH(x, y)>>, x)
  BY DEF DH, RootKey, Secret, KeyPair, RootBelow

LEMMA SessionMono ==
    ASSUME NEW s, NEW b \in Nat, NEW c \in Nat, b <= c, SessionInv(s, b)
    PROVE  SessionInv(s, c)
  <1>1. /\ s.root \in RootKey /\ s.send.key.root \in RootKey
        /\ s.own \in Nat /\ s.remote \in Nat
    BY DEF SessionInv, Tidy, Session, ChainState, ChainKey, KeyPair
  <1> QED BY <1>1, BelowMono DEF SessionInv, Below

\* Both X3DH ends, and what they can send on.
LEMMA InitSessionInv ==
    ASSUME NEW x \in Nat, NEW y \in Nat, NEW b \in Nat, x < b, y < b
    PROVE  LET s == InitSession(x, y) IN
           /\ SessionInv(s, b) /\ ~NeedsRotation(s)
           /\ s.own = x
           /\ ~RootBelow(s.send.key.root, x)
  <1> DEFINE s == InitSession(x, y)
  <1>1. Tidy(s) /\ ~NeedsRotation(s)
    BY FirstTidy, FirstApart
  <1>2. s.root = <<DH(x, y)>> /\ s.send.key.root = <<DH(x, y)>> /\ s.own = x /\ s.remote = y
    BY DEF InitSession, FirstChainKey
  <1> HIDE DEF s
  <1> QED BY <1>1, <1>2, FirstRoot DEF SessionInv, Below, s

LEMMA AcceptSessionInv ==
    ASSUME NEW x \in Nat, NEW y \in Nat, NEW b \in Nat, x < b, y < b
    PROVE  SessionInv(AcceptSession(x, y), b) /\ NeedsRotation(AcceptSession(x, y))
  <1> DEFINE s == AcceptSession(x, y)
  <1>1. Tidy(s)
    BY FirstTidy
  <1>2. s.root = <<DH(y, x)>> /\ s.send.key = ZeroKey /\ s.own = x /\ s.remote = y
    BY DEF AcceptSession
  <1>3. RootBelow(ZeroKey.root, b)
    BY DEF ZeroKey, RootBelow
  <1> HIDE DEF s
  <1> QED BY <1>1, <1>2, <1>3, FirstRoot DEF SessionInv, Below, NeedsRotation, s

\* Rotating with key pair b gives a chain whose root is bounded by b + 1 only.
LEMMA RotateOnSendInv ==
    ASSUME NEW s, NEW b \in Nat, SessionInv(s, b), NeedsRotation(s)
    PROVE  LET r == Sealing(s, b) IN
           /\ SessionInv(r, b + 1) /\ ~NeedsRotation(r)
           /\ r.own = b /\ ~RootBelow(r.send.key.root, b)
  <1> DEFINE q == KdfRoot(s.root, DH(b, s.remote))
             r == Sealing(s, b)
  <1>1. s.root \in RootKey /\ s.remote \in Nat /\ s.remote < b + 1 /\ b < b + 1
        /\ RootBelow(s.root, b + 1)
    BY BelowMono DEF SessionInv, Tidy, Below, Session, KeyPair
  <1>2. q \in RootKey /\ q # <<>> /\ RootBelow(q, b + 1) /\ ~RootBelow(q, b)
    BY <1>1, KdfBelow, KdfFresh
  <1>3. r.root = q /\ r.send.key.root = q /\ r.own = b /\ r.remote = s.remote
    BY DEF Sealing, RotateRatchetOnSend, FirstChainKey, SessionInv, Tidy, Session
  <1>4. Tidy(r)
    BY SealingDead DEF SessionInv
  <1> HIDE DEF q, r
  <1>5. ~NeedsRotation(r)
    BY <1>2, <1>3 DEF NeedsRotation, ZeroKey
  <1> QED BY <1>1, <1>2, <1>3, <1>4, <1>5 DEF SessionInv, Below, r

\* Taking a key from the sending chain.
LEMMA SealInv ==
    ASSUME NEW r, NEW b \in Nat, SessionInv(r, b), ~NeedsRotation(r)
    PROVE  LET t == [r EXCEPT !.send = Advance(@)] IN
           /\ SessionInv(t, b) /\ ~NeedsRotation(t)
           /\ t.own = r.own /\ t.remote = r.remote
           /\ t.send.key.root = r.send.key.root
           /\ t.send.key.step = r.send.key.step + 1
  <1> DEFINE t == [r EXCEPT !.send = Advance(@)]
  <1>1. r.send \in ChainState /\ r.root # <<>> /\ r.send.key.root # <<>>
    BY DEF SessionInv, Tidy, Below, Session
  <1>2. /\ t \in Session /\ t.send = Advance(r.send) /\ t.own = r.own
        /\ t.remote = r.remote /\ t.root = r.root
        /\ t.recv = r.recv /\ t.skipped = r.skipped
    BY <1>1, AdvanceChain DEF SessionInv, Tidy, Session
  <1> HIDE DEF t
  <1>3. /\ t.send.key.root = r.send.key.root /\ t.send.key.step = r.send.key.step + 1
    BY <1>1, <1>2, AdvanceChain
  <1>4. ~NeedsRotation(t)
    BY <1>1, <1>3 DEF NeedsRotation, ZeroKey
  <1>5. Tidy(t)
    BY <1>2, LongerDead DEF SessionInv, Tidy
  <1> QED BY <1>1, <1>2, <1>3, <1>4, <1>5 DEF SessionInv, Below, t

\* Decrypt mixes in no key pair but its own and the one of the header.
LEMMA DecryptInv ==
    ASSUME NEW s, NEW b \in Nat, SessionInv(s, b), NEW m, m.header \in Header,
           m.header.dh < b, NEW out \in Decrypt(s, m)
    PROVE  /\ SessionInv(out.session, b) /\ SendsAs(out.session, s)
           /\ out.result \in {"read", "failed", "duplicate"}
  <1>1. Tidy(out.session) /\ SendsAs(out.session, s)
    BY DecryptDead, DecryptSends DEF SessionInv
  <1> DEFINE r == RotateRatchetOnRecv(s, m.header)
             Bounds(t) == RootBelow(t.root, b) /\ t.own < b /\ t.remote < b
  <1>2. Bounds(s) /\ Bounds(r)
    <2>1. Bounds(s)
      BY DEF SessionInv, Below
    <2>2. CASE m.header.dh = s.remote
      BY <2>1, <2>2 DEF RotateRatchetOnRecv
    <2>3. CASE m.header.dh # s.remote
      <3> DEFINE q == KdfRoot(s.root, DH(s.own, m.header.dh))
      <3>1. s.root \in RootKey /\ s.own \in Nat /\ m.header.dh \in Nat
        BY DEF SessionInv, Tidy, Session, KeyPair, Header
      <3>2. RootBelow(q, b)
        BY <2>1, <3>1, KdfBelow
      <3>3. r.root = q /\ r.own = s.own /\ r.remote = m.header.dh
        BY <2>3 DEF RotateRatchetOnRecv, SessionInv, Tidy, Session
      <3> HIDE DEF q, r
      <3> QED BY <2>1, <3>2, <3>3
    <2> QED BY <2>1, <2>2, <2>3
  <1>3. /\ out.result \in {"read", "failed", "duplicate"}
        /\ \/ /\ out.session.root = s.root /\ out.session.own = s.own
              /\ out.session.remote = s.remote
           \/ /\ out.session.root = r.root /\ out.session.own = r.own
              /\ out.session.remote = r.remote
    <2>1. CASE SkippedFor(s, m.header) # {}
      <3>1. PICK e \in SkippedFor(s, m.header) :
              out = Outcome([s EXCEPT !.skipped = @ \ {e}],
                            IF Opens(e.key, m) THEN "read" ELSE "failed")
        BY <2>1 DEF Decrypt, DecryptSkipped
      <3> QED BY <3>1 DEF Outcome, SessionInv, Tidy, Session
    <2>2. CASE SkippedFor(s, m.header) = {} /\ m.header.n < r.recv.index
      <3>1. out = Outcome(r, "duplicate")
        BY <2>2 DEF Decrypt, DecryptOnChain
      <3> QED BY <3>1 DEF Outcome
    <2>3. CASE SkippedFor(s, m.header) = {} /\ ~(m.header.n < r.recv.index)
      <3> DEFINE at == ChainAt(r.recv, m.header.n)
      <3>1. PICK st \in StoresUpTo(r, m.header.n) :
              out = Outcome([r EXCEPT !.recv = Advance(at), !.skipped = st],
                            IF Opens(at.key, m) THEN "read" ELSE "failed")
        BY <2>3 DEF Decrypt, DecryptOnChain
      <3>2. Tidy(r)
        BY RotateDead DEF SessionInv
      <3> HIDE DEF r, at
      <3> QED BY <3>1, <3>2 DEF Outcome, Tidy, Session
    <2> QED BY <2>1, <2>2, <2>3
  <1>4. Bounds(out.session)
    BY <1>2, <1>3
  <1>5. /\ RootBelow(out.session.send.key.root, b)
        /\ NeedsRotation(out.session) \/ out.session.send.key.root # <<>>
    <2>1. CASE NeedsRotation(out.session)
      BY <2>1 DEF NeedsRotation, ZeroKey, RootBelow
    <2>2. CASE out.session.send = s.send
      BY <2>2 DEF SessionInv, Below, NeedsRotation
    <2> QED BY <1>1, <2>1, <2>2 DEF SendsAs
  <1> QED BY <1>1, <1>3, <1>4, <1>5 DEF SessionInv, Below

LEMMA ExportInv ==
    ASSUME NEW s, NEW b, SessionInv(s, b)
    PROVE  SessionInv(ExportImport(s), b)
  <1>1. PICK skipped : ExportImport(s) = [s EXCEPT !.skipped = skipped]
    BY DEF ExportImport
  <1>2. Tidy(ExportImport(s))
    BY ExportDead DEF SessionInv
  <1> QED BY <1>1, <1>2 DEF SessionInv, Below, Tidy, Session, NeedsRotation

-----------------------------------------------------------------------------
(* Positions: chains and what is kept are numbered like their keys.        *)

Numbered(s) ==
    /\ s.send.index = s.send.key.step /\ s.recv.index = s.recv.key.step
    /\ \A e \in s.skipped : e.n = e.key.step

\* A fresh session is numbered, on either side.
LEMMA FirstNumbered ==
    ASSUME NEW x, NEW y
    PROVE  Numbered(InitSession(x, y)) /\ Numbered(AcceptSession(x, y))
  BY DEF Numbered, InitSession, AcceptSession, FirstChainKey, ZeroKey

\* A chain and its key advance together.
LEMMA AdvanceNumbered ==
    ASSUME NEW c \in ChainState, c.index = c.key.step
    PROVE  Advance(c).index = Advance(c).key.step /\ Advance(c).index = c.index + 1
  <1>1. Advance(c).index = c.index + 1
    BY DEF Advance
  <1> QED BY <1>1, AdvanceChain

\* Encrypt writes the position of the key it used into the header.
LEMMA EncryptNumbered ==
    ASSUME NEW s, Tidy(s), Numbered(s), NEW fresh \in Nat
    PROVE  LET e == Encrypt(s, fresh) IN
           Numbered(e.session) /\ e.header.n = e.key.step
  <1> DEFINE r == Sealing(s, fresh)
             t == [r EXCEPT !.send = Advance(@)]
  <1>1. Tidy(r)
    BY SealingDead
  <1>2. Numbered(r)
    BY DEF Sealing, RotateRatchetOnSend, Numbered, FirstChainKey, Tidy, Session
  <1>3. Encrypt(s, fresh) = [header |-> [dh |-> r.own, pn |-> r.pn, n |-> r.send.index],
                             key |-> r.send.key, session |-> t]
    BY DEF Encrypt
  <1> HIDE DEF r
  <1>4. t.send = Advance(r.send) /\ t.recv = r.recv /\ t.skipped = r.skipped
        /\ r.send \in ChainState
    BY <1>1 DEF Tidy, Session
  <1> HIDE DEF t
  <1>5. Numbered(t)
    BY <1>2, <1>4, AdvanceNumbered DEF Numbered
  <1> QED BY <1>2, <1>3, <1>5 DEF Numbered

\* Decrypt takes a kept key, sees that the envelope is late, or goes on in the
\* chain of the header.
Consumes(s, m, out) ==
    \E e \in SkippedFor(s, m.header) :
        /\ out.session = [s EXCEPT !.skipped = s.skipped \ {e}]
        /\ out.result = IF e.key = m.key THEN "read" ELSE "failed"

Late(s, m, out) ==
    /\ SkippedFor(s, m.header) = {}
    /\ m.header.n < RotateRatchetOnRecv(s, m.header).recv.index
    /\ out.session = RotateRatchetOnRecv(s, m.header) /\ out.result = "duplicate"

Jumps(r, m, out) ==
    /\ ~(m.header.n < r.recv.index)
    /\ \E st \in StoresUpTo(r, m.header.n) : out.session = Jumped(r, m.header.n, st)
    /\ out.result = IF ChainAt(r.recv, m.header.n).key = m.key THEN "read" ELSE "failed"

\* The three things Decrypt may do.
LEMMA DecryptIs ==
    ASSUME NEW s, NEW m, NEW out \in Decrypt(s, m)
    PROVE  \/ Consumes(s, m, out)
           \/ Late(s, m, out)
           \/ SkippedFor(s, m.header) = {} /\ Jumps(RotateRatchetOnRecv(s, m.header), m, out)
  <1>1. CASE SkippedFor(s, m.header) # {}
    <2>1. PICK e \in SkippedFor(s, m.header) :
            out = Outcome([s EXCEPT !.skipped = @ \ {e}],
                          IF Opens(e.key, m) THEN "read" ELSE "failed")
      BY <1>1 DEF Decrypt, DecryptSkipped
    <2>2. out.session = [s EXCEPT !.skipped = s.skipped \ {e}]
          /\ out.result = IF e.key = m.key THEN "read" ELSE "failed"
      BY <2>1 DEF Outcome, Opens
    <2> QED BY <2>2 DEF Consumes
  <1>2. CASE SkippedFor(s, m.header) = {}
    <2> DEFINE r == RotateRatchetOnRecv(s, m.header)
    <2>1. CASE m.header.n < r.recv.index
      <3>1. out = Outcome(r, "duplicate")
        BY <1>2, <2>1 DEF Decrypt, DecryptOnChain
      <3> QED BY <1>2, <2>1, <3>1 DEF Outcome, Late
    <2>2. CASE ~(m.header.n < r.recv.index)
      <3>1. PICK st \in StoresUpTo(r, m.header.n) :
              out = Outcome(Jumped(r, m.header.n, st),
                            IF Opens(ChainAt(r.recv, m.header.n).key, m)
                            THEN "read" ELSE "failed")
        BY <1>2, <2>2 DEF Decrypt, DecryptOnChain, Jumped
      <3> HIDE DEF r
      <3>2. Jumps(r, m, out)
        BY <2>2, <3>1 DEF Outcome, Opens, Jumps
      <3> QED BY <1>2, <3>2 DEF r
    <2> QED BY <2>1, <2>2
  <1> QED BY <1>1, <1>2

\* A new receiving chain begins at index 0.
LEMMA RotateNumbered ==
    ASSUME NEW s, Tidy(s), Numbered(s), NEW h
    PROVE  Numbered(RotateRatchetOnRecv(s, h))
  BY DEF RotateRatchetOnRecv, Numbered, FirstChainKey, ZeroKey, Tidy, Session

\* What the chain leaves behind on the way to index n.
LEMMA JumpedIs ==
    ASSUME NEW r, Tidy(r), Numbered(r), NEW n \in Nat, r.recv.index <= n,
           NEW st \in StoresUpTo(r, n)
    PROVE  LET t == Jumped(r, n, st) IN
           /\ t.root = r.root /\ t.own = r.own /\ t.remote = r.remote /\ t.send = r.send
           /\ t.skipped = st
           /\ t.recv.key.root = r.recv.key.root /\ t.recv.key.step = n + 1
           /\ t.recv.index = n + 1
           /\ ChainAt(r.recv, n).key.root = r.recv.key.root
           /\ ChainAt(r.recv, n).key.step = n /\ ChainAt(r.recv, n).key \in ChainKey
           /\ \A e \in st : \/ e \in r.skipped
                            \/ \E i \in r.recv.index .. n - 1 : e = SkippedAt(r, i)
  <1> DEFINE t == Jumped(r, n, st)
             at == ChainAt(r.recv, n)
  <1>1. /\ r.recv \in ChainState /\ r.recv.index \in Nat /\ r.recv.index = r.recv.key.step
        /\ Few(r.skipped)
    BY DEF Tidy, Session, ChainState, Numbered
  <1>2. /\ at \in ChainState /\ at.key.root = r.recv.key.root /\ at.key.step = n
        /\ at.key \in ChainKey /\ at.index = n
    BY <1>1, ChainAtStep DEF ChainAt, ChainState
  <1> HIDE DEF at
  <1>3. t = [r EXCEPT !.recv = Advance(at), !.skipped = st]
    BY DEF Jumped, at
  <1> HIDE DEF t
  <1>4. t.root = r.root /\ t.own = r.own /\ t.remote = r.remote /\ t.send = r.send
        /\ t.skipped = st /\ t.recv = Advance(at)
    BY <1>3 DEF Tidy, Session
  <1>5. Advance(at).key.root = r.recv.key.root /\ Advance(at).key.step = n + 1
        /\ Advance(at).index = n + 1
    BY <1>2, AdvanceChain, AdvanceNumbered
  <1>6. Filled(r, st, n)
    BY <1>1, StoresWithin
  <1> QED BY <1>2, <1>4, <1>5, <1>6 DEF Filled, t, at

\* The key that the loop keeps at index i.
LEMMA GapIs ==
    ASSUME NEW r, Tidy(r), Numbered(r), NEW n \in Nat, NEW i \in r.recv.index .. n - 1
    PROVE  LET e == SkippedAt(r, i) IN
           /\ e.dh = r.remote /\ e.n = i /\ ~e.mangled
           /\ e.key.root = r.recv.key.root /\ e.key.step = i /\ e.key \in ChainKey
           /\ i \in Nat
  <1>1. /\ SkippedAt(r, i) \in SkippedEntry
        /\ SkippedAt(r, i).key.root = r.recv.key.root
        /\ SkippedAt(r, i).key.step = r.recv.key.step + (i - r.recv.index)
    BY GapKey
  <1>2. r.recv.index \in Nat /\ r.recv.index = r.recv.key.step
    BY DEF Tidy, Session, ChainState, Numbered
  <1> QED BY <1>1, <1>2 DEF SkippedAt, SkippedEntry

\* The entries that a gap adds, one for each index of it.
LEMMA GapEntries ==
    ASSUME NEW r, Tidy(r), Numbered(r), NEW n, n \in Nat
    PROVE  \A i \in r.recv.index .. n - 1 :
               /\ SkippedAt(r, i).dh = r.remote /\ SkippedAt(r, i).n = i
               /\ SkippedAt(r, i).key.root = r.recv.key.root
               /\ SkippedAt(r, i).key.step = i /\ SkippedAt(r, i).key \in ChainKey
  <1> SUFFICES ASSUME NEW i, i \in r.recv.index .. n - 1
               PROVE  /\ SkippedAt(r, i).dh = r.remote /\ SkippedAt(r, i).n = i
                      /\ SkippedAt(r, i).key.root = r.recv.key.root
                      /\ SkippedAt(r, i).key.step = i /\ SkippedAt(r, i).key \in ChainKey
    OBVIOUS
  <1>1. /\ SkippedAt(r, i) \in SkippedEntry
        /\ SkippedAt(r, i).key.root = r.recv.key.root
        /\ SkippedAt(r, i).key.step = r.recv.key.step + (i - r.recv.index)
    BY GapKey
  <1>2. r.recv.index \in Nat /\ r.recv.index = r.recv.key.step
    BY DEF Tidy, Session, ChainState, Numbered
  <1> QED BY <1>1, <1>2 DEF SkippedAt, SkippedEntry

\* Decrypt leaves a numbered session, whatever the header claims.
LEMMA DecryptNumbered ==
    ASSUME NEW s, Tidy(s), Numbered(s), NEW m, m.header \in Header, NEW out \in Decrypt(s, m)
    PROVE  Numbered(out.session)
  <1> PICK r : r = RotateRatchetOnRecv(s, m.header)
    OBVIOUS
  <1>1. Tidy(r) /\ Numbered(r) /\ m.header.n \in Nat /\ r.recv.index \in Nat
    <2>1. Tidy(r)
      BY RotateDead
    <2> QED BY <2>1, RotateNumbered DEF Header, Tidy, Session, ChainState
  <1>2. CASE Consumes(s, m, out)
    BY <1>2 DEF Consumes, Numbered, Tidy, Session
  <1>3. CASE Late(s, m, out)
    BY <1>1, <1>3 DEF Late
  <1>4. CASE Jumps(r, m, out)
    <2> PICK n : n = m.header.n
      OBVIOUS
    <2>1. PICK st \in StoresUpTo(r, n) : out.session = Jumped(r, n, st)
      BY <1>4 DEF Jumps
    <2>2. n \in Nat /\ r.recv.index <= n
      BY <1>1, <1>4 DEF Jumps
    <2> PICK t : t = Jumped(r, n, st)
      OBVIOUS
    <2>3. /\ t.send = r.send /\ t.skipped = st /\ t.recv.index = t.recv.key.step
          /\ \A e \in st : \/ e \in r.skipped
                           \/ \E i \in r.recv.index .. n - 1 : e = SkippedAt(r, i)
      <3>1. /\ t.send = r.send /\ t.skipped = st
            /\ t.recv.key.step = n + 1 /\ t.recv.index = n + 1
        BY <1>1, <2>2, JumpedIs
      <3>2. Filled(r, st, n)
        BY <1>1, <2>2, StoresWithin DEF Tidy
      <3> QED BY <3>1, <3>2 DEF Filled
    <2>4. \A e \in st : e.n = e.key.step
      <3> SUFFICES ASSUME NEW e \in st PROVE e.n = e.key.step
        OBVIOUS
      <3>1. CASE e \in r.skipped
        BY <1>1, <3>1 DEF Numbered
      <3>2. CASE \E i \in r.recv.index .. n - 1 : e = SkippedAt(r, i)
        <4>1. PICK i \in r.recv.index .. n - 1 : e = SkippedAt(r, i)
          BY <3>2
        <4>2. SkippedAt(r, i).n = i /\ SkippedAt(r, i).key.step = i
          BY <1>1, <2>2, GapIs
        <4> QED BY <4>1, <4>2
      <3> QED BY <2>3, <3>1, <3>2
    <2> QED BY <1>1, <2>1, <2>3, <2>4 DEF Numbered
  <1> QED BY <1>2, <1>3, <1>4, DecryptIs

\* So does a save and a load.
LEMMA ExportNumbered ==
    ASSUME NEW s, Tidy(s), Numbered(s)
    PROVE  Numbered(ExportImport(s))
  <1> DEFINE st == {[e EXCEPT !.mangled = TRUE] : e \in s.skipped}
  <1>1. \A f \in st : f.n = f.key.step
    BY DEF Numbered, Tidy, Session, SkippedEntry
  <1>2. ExportImport(s) = [s EXCEPT !.skipped = st]
    BY DEF ExportImport
  <1> HIDE DEF st
  <1> QED BY <1>1, <1>2 DEF Numbered, Tidy, Session

\* A store after the loop reached index n, when nothing had to be dropped.
Whole(s, st, n) ==
    /\ \A i \in s.recv.index .. n - 1 : SkippedAt(s, i) \in st
    /\ \A e \in s.skipped :
         e \in st \/ \E i \in s.recv.index .. n - 1 : SameSlot(e, SkippedAt(s, i))

\* Where there is room nothing is dropped.
LEMMA StoreHasRoom ==
    ASSUME NEW y, IsFiniteSet(y), Cardinality(y) < MaxSkipped,
           NEW e, NEW x \in StoreSkippedKey(y, e)
    PROVE  x = {f \in y : ~SameSlot(f, e)} \cup {e}
  <1>1. ~(Cardinality(y) >= MaxSkipped)
    BY FS_CardinalityType, MaxSkippedAssumption
  <1> QED BY <1>1 DEF StoreSkippedKey

\* The keys in a store on the way are different, and unlike the next one.
LEMMA FilledKeys ==
    ASSUME NEW s, Tidy(s), Numbered(s), NEW m \in Nat, s.recv.index <= m,
           NEW y, Filled(s, y, m)
    PROVE  /\ \A e, f \in y : e.key = f.key => e = f
           /\ \A e \in y : e.key # SkippedAt(s, m).key
  <1>1. s.recv.index \in Nat /\ s.recv.index = s.recv.key.step
    BY DEF Tidy, Session, ChainState, Numbered
  <1>2. \A e \in s.skipped : e.key.root = s.recv.key.root => e.key.step < s.recv.index
    BY <1>1 DEF Tidy, Passed
  <1>3. \A i \in s.recv.index .. m : SkippedAt(s, i).key.root = s.recv.key.root
                                     /\ SkippedAt(s, i).key.step = i
    <2>1. m + 1 \in Nat /\ s.recv.index <= m + 1 /\ (m + 1) - 1 = m
      BY <1>1
    <2> QED BY <2>1, GapIs
  <1>4. ASSUME NEW e \in y, NEW f \in y, e.key = f.key PROVE e = f
    <2>1. CASE e \in s.skipped /\ f \in s.skipped
      BY <1>4, <2>1 DEF Tidy
    <2>2. CASE e \notin s.skipped \/ f \notin s.skipped
      <3>1. e \notin s.skipped /\ f \notin s.skipped
        BY <1>1, <1>2, <1>3, <1>4, <2>2 DEF Filled
      <3>2. PICK i, j \in s.recv.index .. m - 1 : e = SkippedAt(s, i) /\ f = SkippedAt(s, j)
        BY <3>1 DEF Filled
      <3>3. i = j
        BY <1>1, <1>3, <1>4, <3>2
      <3> QED BY <3>2, <3>3
    <2> QED BY <2>1, <2>2
  <1>5. ASSUME NEW e \in y PROVE e.key # SkippedAt(s, m).key
    <2>1. SkippedAt(s, m).key.root = s.recv.key.root /\ SkippedAt(s, m).key.step = m
      BY <1>1, <1>3
    <2>2. CASE e \in s.skipped
      BY <1>1, <1>2, <2>1, <2>2
    <2>3. CASE \E i \in s.recv.index .. m - 1 : e = SkippedAt(s, i)
      BY <1>1, <1>3, <2>1, <2>3
    <2> QED BY <2>2, <2>3 DEF Filled
  <1> QED BY <1>4, <1>5

\* K has all keys that are to be kept, and no more than the store has room for.
LEMMA StoresAll ==
    ASSUME NEW s, Tidy(s), Numbered(s), NEW n \in Nat, s.recv.index <= n,
           NEW K, IsFiniteSet(K), Cardinality(K) <= MaxSkipped,
           \A e \in s.skipped : e.key \in K,
           \A i \in s.recv.index .. n - 1 : SkippedAt(s, i).key \in K,
           NEW st \in StoresUpTo(s, n)
    PROVE  Whole(s, st, n)
  <1> DEFINE a == s.recv.index
  <1>1. a \in Nat /\ Few(s.skipped)
    BY DEF Tidy, Session, ChainState
  <1>2. PICK f : Stores(s, n, f) /\ StoresUpTo(s, n) = f[n]
    BY <1>1, StoresAre
  <1> DEFINE T == {m \in Nat : m \in a .. n
                               /\ \E x \in f[m] : ~(Filled(s, x, m) /\ Whole(s, x, m))}
  <1>3. ASSUME T # {} PROVE FALSE
    <2>1. PICK m \in T : \A y \in T : m <= y
      BY <1>3, Least
    <2>2. m \in Nat /\ m \in a .. n
      OBVIOUS
    <2>3. PICK x \in f[m] : ~(Filled(s, x, m) /\ Whole(s, x, m))
      OBVIOUS
    <2>4. f[m] = IF m = a THEN {s.skipped} ELSE Another(s, m, f[m - 1])
      BY <1>2, <2>2 DEF Stores
    <2>5. CASE m = a
      <3>1. x = s.skipped /\ s.recv.index .. m - 1 = {}
        BY <1>1, <2>3, <2>4, <2>5
      <3> QED BY <1>1, <2>3, <3>1 DEF Filled, Whole
    <2>6. CASE m # a
      <3> PICK l : l = m - 1
        OBVIOUS
      <3>1. l \in Nat /\ l \in a .. n /\ l \notin T /\ l \in a .. n - 1 /\ m = l + 1
        BY <1>1, <2>1, <2>2, <2>6
      <3> PICK e : e = SkippedAt(s, l)
        OBVIOUS
      <3>2. PICK y \in f[l] : x \in StoreSkippedKey(y, e)
        BY <2>3, <2>4, <2>6 DEF Another
      <3>3. Filled(s, y, l) /\ Whole(s, y, l)
        BY <3>1, <3>2
      <3>4. Few(x) /\ x \subseteq y \cup {e}
        BY <3>2, <3>3, StoresOne DEF Filled
      <3>5. a .. l - 1 \subseteq a .. m - 1 /\ l \in a .. m - 1 /\ a .. l - 1 \subseteq a .. n - 1
            /\ \A i \in a .. m - 1 : i = l \/ i \in a .. l - 1
        BY <1>1, <2>2, <3>1
      <3>6. Filled(s, x, m)
        BY <3>3, <3>4, <3>5 DEF Filled
      <3>7. IsFiniteSet(y) /\ Cardinality(y) < MaxSkipped
        <4>1. /\ \A d, g \in y : d.key = g.key => d = g
              /\ \A d \in y : d.key # e.key
          <5>1. s.recv.index <= l
            BY <1>1, <3>1
          <5> QED BY <3>1, <3>3, <5>1, FilledKeys
        <4>2. \A d \in y : d.key \in K \ {e.key}
          BY <3>3, <3>5, <4>1 DEF Filled
        <4> DEFINE g == [d \in y |-> d.key]
        <4>3. g \in Injection(y, K \ {e.key})
          BY <4>1, <4>2 DEF Injection, IsInjective
        <4>4. e.key \in K
          BY <3>1
        <4>5. IsFiniteSet(K \ {e.key}) /\ Cardinality(K \ {e.key}) = Cardinality(K) - 1
          BY <4>4, FS_RemoveElement
        <4> HIDE DEF g
        <4>6. IsFiniteSet(y) /\ Cardinality(y) <= Cardinality(K \ {e.key})
          BY <4>3, <4>5, FS_Injection
        <4>7. Cardinality(y) \in Nat /\ Cardinality(K) \in Nat /\ MaxSkipped \in Nat
          BY <4>6, FS_CardinalityType, MaxSkippedAssumption
        <4> HIDE DEF a, T
        <4> QED BY <4>5, <4>6, <4>7
      <3>8. x = {d \in y : ~SameSlot(d, e)} \cup {e}
        BY <3>2, <3>7, StoreHasRoom
      <3>9. ASSUME NEW i \in a .. m - 1 PROVE SkippedAt(s, i) \in x
        <4>1. CASE i = l
          BY <3>8, <4>1
        <4>2. CASE i \in a .. l - 1
          <5>1. SkippedAt(s, i) \in y /\ i # l
            BY <1>1, <3>1, <3>3, <4>2 DEF Whole
          <5>2. ~SameSlot(SkippedAt(s, i), e)
            BY <5>1 DEF SameSlot, SkippedAt
          <5> QED BY <3>8, <5>1, <5>2
        <4> QED BY <3>5, <4>1, <4>2
      <3>10. ASSUME NEW d \in s.skipped
             PROVE  d \in x \/ \E i \in a .. m - 1 : SameSlot(d, SkippedAt(s, i))
        <4>1. CASE d \in y
          BY <3>5, <3>8, <4>1
        <4>2. CASE \E i \in a .. l - 1 : SameSlot(d, SkippedAt(s, i))
          BY <3>5, <4>2
        <4> QED BY <3>3, <4>1, <4>2 DEF Whole
      <3>11. Whole(s, x, m)
        BY <3>9, <3>10 DEF Whole
      <3> QED BY <2>3, <3>6, <3>11
    <2> QED BY <2>5, <2>6
  <1>4. n \in a .. n
    BY <1>1
  <1> QED BY <1>2, <1>3, <1>4

\* What the loop of Decrypt is to have kept once the chain stands at index n.
Gap(s, n) == s.skipped \cup {SkippedAt(s, i) : i \in s.recv.index .. n - 1}

LEMMA GapKept ==
    ASSUME NEW s, Tidy(s), Numbered(s), NEW n \in Nat, s.recv.index <= n,
           Cardinality(Gap(s, n)) <= MaxSkipped, NEW st \in StoresUpTo(s, n),
           NEW e \in Gap(s, n), e.key.root = s.recv.key.root
    PROVE  e \in st
  <1> PICK a, F : a = s.recv.index /\ F = Gap(s, n)
    OBVIOUS
  <1> DEFINE K == {d.key : d \in F}
  <1>1. a \in Nat /\ a = s.recv.key.step /\ IsFiniteSet(s.skipped)
    BY DEF Tidy, Few, Session, ChainState, Numbered
  <1>2. IsFiniteSet(F)
    <2> DEFINE T == {SkippedAt(s, i) : i \in a .. n - 1}
               g == [i \in a .. n - 1 |-> SkippedAt(s, i)]
    <2> HIDE DEF g, T
    <2>1. a \in Int /\ n - 1 \in Int
      BY <1>1
    <2>2. IsFiniteSet(a .. n - 1)
      BY <2>1, FS_Interval
    <2>3. g \in Surjection(a .. n - 1, T)
      BY DEF Surjection, g, T
    <2>4. IsFiniteSet(T)
      BY <2>2, <2>3, FS_Surjection
    <2>5. F = s.skipped \cup T
      BY DEF Gap, T
    <2> QED BY <1>1, <2>4, <2>5, FS_Union
  <1>3. IsFiniteSet(K) /\ Cardinality(K) <= Cardinality(F)
    <2> DEFINE g == [d \in F |-> d.key]
    <2>1. g \in Surjection(F, K)
      BY DEF Surjection
    <2> HIDE DEF g, K
    <2> QED BY <1>2, <2>1, FS_Surjection
  <1>4. IsFiniteSet(K) /\ Cardinality(K) <= MaxSkipped
    BY <1>2, <1>3, FS_CardinalityType, MaxSkippedAssumption
  <1>5. /\ \A d \in s.skipped : d.key \in K
        /\ \A i \in a .. n - 1 : SkippedAt(s, i).key \in K
    BY DEF Gap
  <1> HIDE DEF K
  <1>6. Whole(s, st, n)
    BY <1>4, <1>5, StoresAll
  <1>7. CASE e \in s.skipped
    <2>1. e.n = e.key.step /\ e.key.step < a /\ e.key.step \in Nat
      BY <1>1, <1>7 DEF Numbered, Tidy, Passed, Session, SkippedEntry, ChainKey
    <2>2. ASSUME NEW i \in a .. n - 1 PROVE ~SameSlot(e, SkippedAt(s, i))
      BY <1>1, <2>1 DEF SameSlot, SkippedAt
    <2> QED BY <1>6, <1>7, <2>2 DEF Whole
  <1>8. CASE e \notin s.skipped
    BY <1>6, <1>8 DEF Whole, Gap
  <1> QED BY <1>7, <1>8

\* What the chain is after a rotation.
LEMMA RotatedIs ==
    ASSUME NEW s, Tidy(s), NEW h \in Header, h.dh # s.remote
    PROVE  LET r == RotateRatchetOnRecv(s, h)
               q == KdfRoot(s.root, DH(s.own, h.dh)) IN
           /\ r.root = q /\ r.own = s.own /\ r.remote = h.dh /\ r.skipped = s.skipped
           /\ r.recv.key.root = q /\ r.recv.key.step = 0 /\ r.recv.index = 0
           /\ NeedsRotation(r)
           /\ q # <<>> /\ q[Len(q)] = {s.own, h.dh}
           /\ \A e \in s.skipped : e.key.root # q
  <1> DEFINE r == RotateRatchetOnRecv(s, h)
             q == KdfRoot(s.root, DH(s.own, h.dh))
  <1>1. /\ r.root = q /\ r.own = s.own /\ r.remote = h.dh /\ r.skipped = s.skipped
        /\ r.recv.key.root = q /\ r.recv.key.step = 0 /\ r.recv.index = 0
        /\ NeedsRotation(r)
    BY DEF RotateRatchetOnRecv, Tidy, Session, FirstChainKey, NeedsRotation
  <1>2. s.own \in Nat /\ h.dh \in Nat /\ s.root \in RootKey /\ s.root # <<>>
    BY DEF Tidy, Session, KeyPair, Header
  <1>3. q # <<>> /\ \A k \in ChainKey : Behind(k, s.root) => k.root # q
    BY <1>2, KdfLonger
  <1>4. \A e \in s.skipped : e.key.root # q
    BY <1>3 DEF Tidy, Passed, Session, SkippedEntry
  <1>5. q[Len(q)] = {s.own, h.dh}
    <2>1. {s.own, h.dh} \in Secret
      BY <1>2 DEF Secret, KeyPair
    <2> QED BY <1>2, <2>1 DEF KdfRoot, DH, RootKey
  <1> QED BY <1>1, <1>3, <1>4, <1>5

\* A message key is its chain and its position.
LEMMA SameKey ==
    ASSUME NEW k \in ChainKey, NEW l \in ChainKey, k.root = l.root, k.step = l.step
    PROVE  k = l
  BY DEF ChainKey

\* A chain that is moved past index n, and what is kept on the way.
LEMMA JumpedTo ==
    ASSUME NEW r, Tidy(r), Numbered(r), NEW n \in Nat, r.recv.index <= n,
           NEW st \in StoresUpTo(r, n), NEW t, t = Jumped(r, n, st),
           NEW at, at = ChainAt(r.recv, n).key
    PROVE  /\ t.own = r.own /\ t.remote = r.remote /\ t.send = r.send /\ t.skipped = st
           /\ t.recv.key.root = r.recv.key.root /\ t.recv.key.step = n + 1
           /\ t.recv.index = n + 1
           /\ at.root = r.recv.key.root /\ at.step = n /\ at \in ChainKey
           /\ \A e \in st : \/ e \in r.skipped
                            \/ \E i \in r.recv.index .. n - 1 : e = SkippedAt(r, i)
  BY JumpedIs

==============================================================================
