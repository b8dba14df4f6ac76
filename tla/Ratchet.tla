------------------------------- MODULE Ratchet -------------------------------
(***************************************************************************)
(* The Double Ratchet of services/crypto-core (ratchet.go, session.go) as  *)
(* operators on session records.  Cryptography is symbolic:                *)
(*                                                                         *)
(*  - a key pair is its number; the public and the private half carry the  *)
(*    same number;                                                         *)
(*  - a Diffie-Hellman secret is the set of the two key pairs it mixes, so *)
(*    both ends compute the same value;                                    *)
(*  - a root key is the sequence of the secrets hashed into it, and a      *)
(*    chain key is the root it was split from with the number of times it  *)
(*    was advanced.  HKDF and HMAC are thereby injective and one-way;      *)
(*  - the message key derived from a chain key is written like that chain  *)
(*    key; AEAD opens iff key and associated data agree.                   *)
(***************************************************************************)
EXTENDS Integers, Sequences, FiniteSets

CONSTANT MaxSkipped       \* maxSkippedMessageKeys, 64 in the code

ASSUME MaxSkippedAssumption == MaxSkipped \in Nat \ {0}

-----------------------------------------------------------------------------
(* Values.                                                                 *)

KeyPair  == Nat
Secret   == SUBSET KeyPair
RootKey  == Seq(Secret)
ChainKey == [root : RootKey, step : Nat]

\* The all-zero array: no root was ever split into it.
ZeroKey == [root |-> <<>>, step |-> 0]

ChainState == [key : ChainKey, index : Nat]
Header     == [dh : KeyPair, pn : Nat, n : Nat]

\* An entry of SessionState.skipped: filed under (dh, n) unless "mangled".
SkippedEntry == [dh : KeyPair, n : Nat, key : ChainKey, mangled : BOOLEAN]

Session == [root : RootKey, send : ChainState, recv : ChainState,
            own : KeyPair, remote : KeyPair, pn : Nat,
            skipped : SUBSET SkippedEntry]

-----------------------------------------------------------------------------
(* Key derivation.                                                         *)

DH(own, remote) == {own, remote}

\* The new root and the chain key are two outputs of one HKDF call.
KdfRoot(root, dh) == Append(root, dh)
FirstChainKey(root) == [root |-> root, step |-> 0]

\* kdfChain: the advanced chain key; the message key is the input's name.
NextChainKey(ck) == [ck EXCEPT !.step = @ + 1]

\* Mutant of Advance: kdfChain's new chain key is not stored.
AdvanceKeepsKey(chain) == [chain EXCEPT !.index = @ + 1]

\* The chain after one key was taken from it.
Advance(chain) == [key |-> NextChainKey(chain.key), index |-> chain.index + 1]

-----------------------------------------------------------------------------
(* X3DH.  The secret is named by the ephemeral key and the signed prekey   *)
(* that went into it: the identity keys of the pair are fixed and msgclient *)
(* registers no one-time prekeys (RegisterDevice, PublishPrekeyBundle(0)). *)

InitSession(ephemeral, signedPrekey) ==
    LET root == <<DH(ephemeral, signedPrekey)>>
    IN  [root |-> root, send |-> [key |-> FirstChainKey(root), index |-> 0],
         recv |-> [key |-> ZeroKey, index |-> 0],
         own |-> ephemeral, remote |-> signedPrekey, pn |-> 0, skipped |-> {}]

AcceptSession(signedPrekey, ephemeral) ==
    LET root == <<DH(ephemeral, signedPrekey)>>
    IN  [root |-> root, send |-> [key |-> ZeroKey, index |-> 0],
         recv |-> [key |-> FirstChainKey(root), index |-> 0],
         own |-> signedPrekey, remote |-> ephemeral, pn |-> 0, skipped |-> {}]

-----------------------------------------------------------------------------
(* Sending.                                                                *)

RotateRatchetOnSend(s, fresh) ==
    LET root == KdfRoot(s.root, DH(fresh, s.remote))
    IN  [s EXCEPT !.root = root,
                  !.pn = s.send.index,
                  !.send = [key |-> FirstChainKey(root), index |-> 0],
                  !.own = fresh]

NeedsRotation(s) == s.send.key = ZeroKey

\* The session Encrypt seals with: rotated first when no sending chain exists.
Sealing(s, fresh) ==
    IF NeedsRotation(s) THEN RotateRatchetOnSend(s, fresh) ELSE s

\* Encrypt: the header, the key that sealed, and the session left behind.
Encrypt(s, fresh) ==
    LET r == Sealing(s, fresh)
    IN  [header  |-> [dh |-> r.own, pn |-> r.pn, n |-> r.send.index],
         key     |-> r.send.key,
         session |-> [r EXCEPT !.send = Advance(@)]]

-----------------------------------------------------------------------------
(* Receiving.                                                              *)

\* Mutant of RotateRatchetOnRecv: session.SendChain is not cleared.
RotateOnRecvKeepsSend(s, h) ==
    IF h.dh = s.remote THEN s
    ELSE LET root == KdfRoot(s.root, DH(s.own, h.dh))
         IN  [s EXCEPT !.root = root,
                       !.remote = h.dh,
                       !.recv = [key |-> FirstChainKey(root), index |-> 0],
                       !.pn = h.pn]

RotateRatchetOnRecv(s, h) ==
    IF h.dh = s.remote THEN s
    ELSE LET root == KdfRoot(s.root, DH(s.own, h.dh))
         IN  [s EXCEPT !.root = root,
                       !.remote = h.dh,
                       !.recv = [key |-> FirstChainKey(root), index |-> 0],
                       !.send = [key |-> ZeroKey, index |-> 0],
                       !.pn = h.pn]

SameSlot(e, f) == ~e.mangled /\ e.dh = f.dh /\ e.n = f.n

\* Mutant of StoreSkippedKey: > where the code has >=.
StoreOneTooMany(store, e) ==
    LET roomy == IF Cardinality(store) > MaxSkipped
                 THEN {store \ {x} : x \in store}
                 ELSE {store}
    IN  {{x \in st : ~SameSlot(x, e)} \cup {e} : st \in roomy}

\* storeSkippedKey: a full map first drops an entry, whichever the iteration
\* of a Go map meets first; then the slot of the new entry is overwritten.
StoreSkippedKey(store, e) ==
    LET roomy == IF Cardinality(store) >= MaxSkipped
                 THEN {store \ {x} : x \in store}
                 ELSE {store}
    IN  {{x \in st : ~SameSlot(x, e)} \cup {e} : st \in roomy}

\* Mutant of SkippedAt: the key is taken after the chain was advanced.
SkippedLate(s, i) ==
    [dh |-> s.remote, n |-> i, mangled |-> FALSE,
     key |-> [s.recv.key EXCEPT !.step = @ + (i + 1 - s.recv.index)]]

SkippedAt(s, i) ==
    [dh |-> s.remote, n |-> i, mangled |-> FALSE,
     key |-> [s.recv.key EXCEPT !.step = @ + (i - s.recv.index)]]

\* The stores the loop of Decrypt may leave once the chain stands at index n.
StoresUpTo(s, n) ==
    LET stores[i \in s.recv.index .. n] ==
          IF i = s.recv.index THEN {s.skipped}
          ELSE UNION {StoreSkippedKey(st, SkippedAt(s, i - 1)) : st \in stores[i - 1]}
    IN  stores[n]

\* Mutant of ChainAt: the distance to n with its sign swapped.
ChainBackTo(chain, n) ==
    [key |-> [chain.key EXCEPT !.step = @ + (chain.index - n)], index |-> n]

ChainAt(chain, n) ==
    [key |-> [chain.key EXCEPT !.step = @ + (n - chain.index)], index |-> n]

SkippedFor(s, h) == {e \in s.skipped : SameSlot(e, h)}

Opens(key, m) == key = m.key

Outcome(session, result) == [session |-> session, result |-> result]

\* Mutant of DecryptSkipped: the entry stays in the map.
DecryptSkippedKeeps(s, m) ==
    {Outcome(s, IF Opens(e.key, m) THEN "read" ELSE "failed") :
        e \in SkippedFor(s, m.header)}

\* consumeSkipped deletes the entry before the ciphertext is opened.
DecryptSkipped(s, m) ==
    {Outcome([s EXCEPT !.skipped = @ \ {e}],
             IF Opens(e.key, m) THEN "read" ELSE "failed") :
        e \in SkippedFor(s, m.header)}

\* The chain is rotated, filled up to N and advanced before authentication,
\* and none of it is undone when the ciphertext does not open.
DecryptOnChain(s, m) ==
    LET r    == RotateRatchetOnRecv(s, m.header)
        at   == ChainAt(r.recv, m.header.n)
    IN  IF m.header.n < r.recv.index
        THEN {Outcome(r, "duplicate")}
        ELSE {Outcome([r EXCEPT !.recv = Advance(at), !.skipped = st],
                      IF Opens(at.key, m) THEN "read" ELSE "failed") :
                 st \in StoresUpTo(r, m.header.n)}

\* Decrypt: the outcomes of the call, as sessions left behind and results.
Decrypt(s, m) ==
    IF SkippedFor(s, m.header) # {} THEN DecryptSkipped(s, m)
    ELSE DecryptOnChain(s, m)

-----------------------------------------------------------------------------
(* ExportSession files every skipped key in a JSON object under its raw 36 *)
(* bytes.  encoding/json replaces the invalid UTF-8 of a member name, so   *)
(* the entry that ImportSession gets back answers to no header any more.   *)

ExportImport(s) ==
    [s EXCEPT !.skipped = {[e EXCEPT !.mangled = TRUE] : e \in @}]
==============================================================================
