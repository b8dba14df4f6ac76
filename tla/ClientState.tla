----------------------------- MODULE ClientState ------------------------------
(***************************************************************************)
(* The client state of msgclient between calls, for two devices that talk  *)
(* to each other.  A device in Cli is driven by the commands of msgctl     *)
(* (client.go: runInit, runSend, runListen), which load the state from a   *)
(* file and replace the file; several of them may run at a time.  For the  *)
(* other devices the caller of /client/init, /client/send and              *)
(* /client/envelope (client_api.go) keeps the state: each call is sent one *)
(* and answers the one that results.  A process of msgctl, or a call with  *)
(* the socket it serves, lives in a slot and may end at any point.         *)
(***************************************************************************)
EXTENDS Ratchet

CONSTANTS
    Process,    \* slots for processes of msgctl and calls of the endpoints
    Cli,        \* devices driven by msgctl
    Enrolled,   \* devices that have a state and are registered from the start
    MaxSends,   \* bound: envelopes stored at the Messages service
    MaxKeys,    \* bound: key pairs generated
    MaxFaults   \* bound: failures, kills, and starts next to a running one

Device == {1, 2}
Peer(d) == 3 - d

ASSUME ClientStateAssumption ==
    /\ Cli \subseteq Device
    /\ Enrolled \subseteq Device
    /\ MaxSends \in Nat
    /\ MaxKeys \in Nat
    /\ MaxFaults \in Nat

-----------------------------------------------------------------------------
(* Values.                                                                 *)

NoKey == 0

\* The device's signed prekey, and its session of the conversation, if any.
State == [prekey : KeyPair, sessions : SUBSET Session]
Fresh(prekey) == [prekey |-> prekey, sessions |-> {}]
NoState == Fresh(NoKey)

Envelope == [from : Device, header : Header, key : ChainKey, handshake : Nat]
NoEnvelope == [from |-> 1, header |-> [dh |-> NoKey, pn |-> 0, n |-> 0],
               key |-> ZeroKey, handshake |-> NoKey]

\* What a path names: nothing, a file just truncated, one that two writers
\* left with the end of another state, or a state.
Content == [form : {"absent", "empty", "torn", "whole"}, state : State]
Bad(form) == [form |-> form, state |-> NoState]

\* Marshal: the skipped keys of the sessions are lost to the JSON encoding.
Marshalled(st) == [form |-> "whole",
                   state |-> [st EXCEPT !.sessions = {ExportImport(s) : s \in @}]]

Command == {"init", "send", "listen"}

\* Mutants of Steps: send saves before it posts; listen shows a text after it
\* saved; listen does not save.
StepsPostLast == [init   |-> [registered |-> "saving", saved |-> "idle"],
                  send   |-> [sealed |-> "saving", saved |-> "posting", posted |-> "idle"],
                  listen |-> [opened |-> "printing", printed |-> "saving",
                              saved |-> "listening"]]
StepsShowLast == [init   |-> [registered |-> "saving", saved |-> "idle"],
                  send   |-> [sealed |-> "posting", posted |-> "saving", saved |-> "idle"],
                  listen |-> [opened |-> "saving", saved |-> "printing",
                              printed |-> "listening"]]
StepsUnsaved == [init   |-> [registered |-> "saving", saved |-> "idle"],
                 send   |-> [sealed |-> "posting", posted |-> "saving", saved |-> "idle"],
                 listen |-> [opened |-> "printing", printed |-> "listening"]]

\* What comes after what in runInit, runSend and runListen.
Steps == [init   |-> [registered |-> "saving", saved |-> "idle"],
          send   |-> [sealed |-> "posting", posted |-> "saving", saved |-> "idle"],
          listen |-> [opened |-> "printing", printed |-> "saving",
                      saved |-> "listening"]]

Stage == {"idle", "registering", "loaded", "posting", "listening", "printing",
          "saving", "writing", "renaming"}

\* "handle" is the name of the file that a writing process has open.
Slot == [stage : Stage, cmd : Command, dev : Device, mem : State,
         env : Envelope, at : Nat, handle : {"none", "tmp", "file", "gone"}]

Idle == [stage |-> "idle", cmd |-> "init", dev |-> 1, mem |-> NoState,
         env |-> NoEnvelope, at |-> 0, handle |-> "none"]

VARIABLES
    file,        \* file[d]: what the state path of d names
    tmp,         \* tmp[d]: what that path with ".tmp" names
    slot,        \* slot[p]: the process or call in slot p
    nextKey,     \* the key pair generateX25519KeyPair returns next
    registered,  \* registered[d]: the signed prekey the Keys service has of d
    sent,        \* the envelopes the Messages service stored, in order
    marked,      \* marked[d]: up to where it has marked those for d delivered
    printed,     \* printed[i]: how often the plaintext of sent[i] was shown
    overlapped,  \* devices that had two processes or calls at a time
    cut,         \* <<d, cmd>>: one that ended with its effect out, not saved
    dropped,     \* the message keys that a full store of skipped keys let go
    faults       \* how many failed, were killed, or started next to another

vars == <<file, tmp, slot, nextKey, registered, sent, marked, printed,
          overlapped, cut, dropped, faults>>

Init ==
    /\ file = [d \in Device |-> IF d \in Enrolled THEN Marshalled(Fresh(d))
                                                ELSE Bad("absent")]
    /\ tmp = [d \in Device |-> Bad("absent")]
    /\ slot = [p \in Process |-> Idle]
    /\ nextKey = 3
    /\ registered = [d \in Device |-> IF d \in Enrolled THEN d ELSE NoKey]
    /\ sent = <<>>
    /\ marked = [d \in Device |-> 0]
    /\ printed = <<>>
    /\ overlapped = {}
    /\ cut = {}
    /\ dropped = {}
    /\ faults = 0

-----------------------------------------------------------------------------
(* Starting and ending.                                                    *)

Fault == faults < MaxFaults /\ faults' = faults + 1

\* A process of msgctl holds a state while it runs; of the endpoints only a
\* call does, not the connection that waits for the next envelope.
Busy(d) == {q \in Process : /\ slot[q].dev = d
                            /\ slot[q].stage # "idle"
                            /\ d \in Cli \/ slot[q].stage # "listening"}

NoteOverlap(p, d) ==
    IF Busy(d) \ {p} = {} THEN UNCHANGED <<overlapped, faults>>
    ELSE Fault /\ overlapped' = overlapped \cup {d}

Start(p, s) ==
    /\ slot[p].stage = "idle"
    /\ slot' = [slot EXCEPT ![p] = s]

Goto(p, done) ==
    IF Steps[slot[p].cmd][done] = "idle" THEN Idle
    ELSE [slot[p] EXCEPT !.stage = Steps[slot[p].cmd][done], !.handle = "none"]

\* What the command did is out already, at a service or on the screen; the
\* caller of /client/envelope gets the plaintext together with the state.
Unsaved(p) ==
    /\ slot[p].stage \in {"saving", "writing", "renaming"}
    /\ slot[p].dev \in Cli \/ slot[p].cmd # "listen"

ToRead(d) == {i \in marked[d] + 1 .. Len(sent) : sent[i].from = Peer(d)}

\* The service marks what it has written to a connection, read or not, up to
\* some envelope.  Since only other connections look at the marks, the model
\* marks when the connection ends.
MarkDelivered(p) ==
    LET d == slot[p].dev
    IN  IF slot[p].cmd = "listen"
        THEN \E i \in {marked[d]} \cup ToRead(d) :
                 marked' = [marked EXCEPT ![d] = i]
        ELSE UNCHANGED marked

\* The process ends, by a failure that the command returns or by a kill.
End(p, exposed) ==
    /\ MarkDelivered(p)
    /\ slot' = [slot EXCEPT ![p] = Idle]
    /\ cut' = IF exposed THEN cut \cup {<<slot[p].dev, slot[p].cmd>>} ELSE cut

Crash(p) ==
    /\ slot[p].stage \notin {"idle", "listening"}
    /\ Fault
    /\ End(p, Unsaved(p))
    /\ UNCHANGED <<file, tmp, nextKey, registered, sent, printed, overlapped, dropped>>

\* A file that does not parse, or is not there, ends the command at once.
Loads(d) == file[d].form = "whole"

-----------------------------------------------------------------------------
(* Saving: os.WriteFile of the temporary file, then os.Rename.             *)

\* Mutant of OpenTmp: the state file itself is opened for writing.
OpenInPlace(p) ==
    /\ slot[p].stage = "saving"
    /\ slot[p].dev \in Cli
    /\ file' = [file EXCEPT ![slot[p].dev] = Bad("empty")]
    /\ slot' = [slot EXCEPT ![p].stage = "writing", ![p].handle = "file"]
    /\ UNCHANGED <<tmp, nextKey, registered, sent, marked, printed, overlapped, cut, dropped, faults>>

\* The file is created, or truncated under whoever else has it open.
OpenTmp(p) ==
    /\ slot[p].stage = "saving"
    /\ slot[p].dev \in Cli
    /\ tmp' = [tmp EXCEPT ![slot[p].dev] = Bad("empty")]
    /\ slot' = [slot EXCEPT ![p].stage = "writing", ![p].handle = "tmp"]
    /\ UNCHANGED <<file, nextKey, registered, sent, marked, printed, overlapped, cut, dropped, faults>>

\* Writing at the start of a file that has contents leaves the end of a
\* longer one.
Written(old, st) ==
    {Marshalled(st)} \cup (IF old.form = "empty" THEN {} ELSE {Bad("torn")})

\* The open file is the one that was opened, whatever it is called by now.
WriteTmp(p) ==
    LET d == slot[p].dev
    IN  /\ slot[p].stage = "writing"
        /\ \/ /\ slot[p].handle = "tmp"
              /\ \E c \in Written(tmp[d], slot[p].mem) : tmp' = [tmp EXCEPT ![d] = c]
              /\ UNCHANGED file
           \/ /\ slot[p].handle = "file"
              /\ \E c \in Written(file[d], slot[p].mem) : file' = [file EXCEPT ![d] = c]
              /\ UNCHANGED tmp
           \/ /\ slot[p].handle = "gone"
              /\ UNCHANGED <<file, tmp>>
        /\ slot' = [slot EXCEPT ![p].stage = "renaming", ![p].handle = "none"]
        /\ UNCHANGED <<nextKey, registered, sent, marked, printed, overlapped, cut, dropped, faults>>

\* Mutant of Renamed: a process without an open file is not told apart.
RenamedAll(handle) == IF handle = "tmp" THEN "file" ELSE "gone"

\* What a handle of that name is a handle of once tmp is renamed.
Renamed(handle) == IF handle = "tmp" THEN "file"
                   ELSE IF handle = "file" THEN "gone" ELSE handle

Rename(p) ==
    LET d == slot[p].dev
    IN  /\ slot[p].stage = "renaming"
        /\ tmp[d].form # "absent"
        /\ file' = [file EXCEPT ![d] = tmp[d]]
        /\ tmp' = [tmp EXCEPT ![d] = Bad("absent")]
        /\ slot' = [q \in Process |->
                      IF q = p THEN Goto(p, "saved")
                      ELSE IF slot[q].dev = d
                      THEN [slot[q] EXCEPT !.handle = Renamed(@)]
                      ELSE slot[q]]
        /\ UNCHANGED <<nextKey, registered, sent, marked, printed, overlapped, cut, dropped, faults>>

\* Another process has renamed the file away: the command fails.
RenameFails(p) ==
    /\ slot[p].stage = "renaming"
    /\ tmp[slot[p].dev].form = "absent"
    /\ End(p, TRUE)
    /\ UNCHANGED <<file, tmp, nextKey, registered, sent, printed, overlapped, dropped, faults>>

\* The endpoints answer with the state, and the caller keeps it from then on.
Returns(p, cmd, after) ==
    /\ slot[p].stage = "saving"
    /\ slot[p].dev \notin Cli
    /\ slot[p].cmd = cmd
    /\ file' = [file EXCEPT ![slot[p].dev] = Marshalled(slot[p].mem)]
    /\ slot' = [slot EXCEPT ![p] = after]
    /\ UNCHANGED <<tmp, nextKey, registered, sent, marked, overlapped, cut, dropped, faults>>

ClientInitReturns(p) == Returns(p, "init", Idle) /\ UNCHANGED printed
ClientSendReturns(p) == Returns(p, "send", Idle) /\ UNCHANGED printed

\* The connection of the caller waits for the next envelope.
Waiting(s) == [s EXCEPT !.stage = "listening", !.mem = NoState]

ClientEnvelopeReturns(p) ==
    /\ Returns(p, "listen", Waiting(slot[p]))
    /\ printed' = [printed EXCEPT ![slot[p].at] = @ + 1]

\* /client/envelope fails after all, or its answer is lost: the connection
\* stays.  For the other calls this is the end (Crash).
LoseAnswer(p) ==
    /\ slot[p].stage = "saving"
    /\ slot[p].dev \notin Cli
    /\ slot[p].cmd = "listen"
    /\ slot' = [slot EXCEPT ![p] = Waiting(@)]
    /\ UNCHANGED <<file, tmp, nextKey, registered, sent, marked, printed, overlapped, cut, dropped, faults>>

-----------------------------------------------------------------------------
(* init: runInit, handleClientInit.                                        *)

\* os.Stat finds nothing (the endpoint does not ask what its caller has);
\* GenerateIdentityKeypair and PublishPrekeyBundle(0).
StartInit(p, d) ==
    /\ d \in Cli => file[d].form = "absent"
    /\ nextKey < MaxKeys
    /\ Start(p, [Idle EXCEPT !.stage = "registering", !.cmd = "init", !.dev = d,
                             !.mem = Fresh(nextKey)])
    /\ NoteOverlap(p, d)
    /\ nextKey' = nextKey + 1
    /\ UNCHANGED <<file, tmp, registered, sent, marked, printed, cut, dropped>>

\* Mutant of Register: the bundle has a prekey of its own.
RegisterAnother(p) ==
    /\ slot[p].stage = "registering"
    /\ registered' = [registered EXCEPT ![slot[p].dev] = nextKey]
    /\ nextKey' = nextKey + 1
    /\ slot' = [slot EXCEPT ![p] = Goto(p, "registered")]
    /\ UNCHANGED <<file, tmp, sent, marked, printed, overlapped, cut, dropped, faults>>

\* RegisterDevice: the Keys service has the new prekey; its answer may be lost.
Register(p) ==
    /\ slot[p].stage = "registering"
    /\ registered' = [registered EXCEPT ![slot[p].dev] = slot[p].mem.prekey]
    /\ \/ /\ slot' = [slot EXCEPT ![p] = Goto(p, "registered")]
          /\ UNCHANGED <<marked, cut, faults>>
       \/ Fault /\ End(p, TRUE)
    /\ UNCHANGED <<file, tmp, nextKey, sent, printed, overlapped, dropped>>

-----------------------------------------------------------------------------
(* send: runSend, handleClientSend.                                        *)

StartSend(p, d) ==
    /\ Loads(d)
    /\ Start(p, [Idle EXCEPT !.stage = "loaded", !.cmd = "send", !.dev = d,
                             !.mem = file[d].state])
    /\ NoteOverlap(p, d)
    /\ UNCHANGED <<file, tmp, nextKey, registered, sent, marked, printed, cut, dropped>>

\* buildHeaderJSON: the header of the message goes with the handshake, if any.
Sealed(d, sealed, handshake) ==
    [from |-> d, header |-> sealed.header, key |-> sealed.key, handshake |-> handshake]

\* buildSendRequest, in session s of the state in memory.
SealIn(p, s, fresh, handshake) ==
    LET sealed == Encrypt(s, fresh)
    IN  slot' = [slot EXCEPT ![p] =
          [Goto(p, "sealed") EXCEPT
             !.mem = [@ EXCEPT !.sessions = {sealed.session}],
             !.env = Sealed(slot[p].dev, sealed, handshake)]]

\* ensureSession with a session, and Encrypt.
Seal(p) ==
    /\ slot[p].stage = "loaded"
    /\ \E s \in slot[p].mem.sessions :
         /\ NeedsRotation(s) => nextKey < MaxKeys
         /\ SealIn(p, s, nextKey, NoKey)
         /\ nextKey' = IF NeedsRotation(s) THEN nextKey + 1 ELSE nextKey
    /\ UNCHANGED <<file, tmp, registered, sent, marked, printed, overlapped, cut, dropped, faults>>

\* fetchBundle: the signed prekey that the Keys service has of the peer.
\* Without one the command fails (Crash).
FetchBundle(d) == {registered[Peer(d)]} \ {NoKey}

\* ensureSession without one: fetchBundle, InitSession, and Encrypt.
SealFirst(p) ==
    /\ slot[p].stage = "loaded"
    /\ slot[p].mem.sessions = {}
    /\ nextKey < MaxKeys
    /\ \E bundle \in FetchBundle(slot[p].dev) :
         SealIn(p, InitSession(nextKey, bundle), nextKey, nextKey)
    /\ nextKey' = nextKey + 1
    /\ UNCHANGED <<file, tmp, registered, sent, marked, printed, overlapped, cut, dropped, faults>>

Stored(p) ==
    /\ Len(sent) < MaxSends
    /\ sent' = Append(sent, slot[p].env)
    /\ printed' = Append(printed, 0)

\* postMessage, postEncryptedMessage.  A request that is refused or does not
\* arrive ends the command without a save, as does an answer that is lost.
Post(p) ==
    /\ slot[p].stage = "posting"
    /\ Stored(p)
    /\ \/ /\ slot' = [slot EXCEPT ![p] = [Goto(p, "posted") EXCEPT !.env = NoEnvelope]]
          /\ UNCHANGED <<marked, cut, faults>>
       \/ Fault /\ End(p, TRUE)
    /\ UNCHANGED <<file, tmp, nextKey, registered, overlapped, dropped>>

-----------------------------------------------------------------------------
(* listen: runListen, and the caller that serves a socket.                 *)

\* A new connection is pushed what is not marked.  msgctl loads the state once.
StartListen(p, d) ==
    /\ Loads(d)
    /\ Start(p, [Idle EXCEPT !.stage = "listening", !.cmd = "listen", !.dev = d,
                             !.mem = IF d \in Cli THEN file[d].state ELSE NoState,
                             !.at = marked[d]])
    /\ IF d \in Cli THEN NoteOverlap(p, d) ELSE UNCHANGED <<overlapped, faults>>
    /\ UNCHANGED <<file, tmp, nextKey, registered, sent, marked, printed, cut, dropped>>

\* The next envelope on the connection; one that is marked may be left out,
\* since another connection may have been pushed it.
Pushed(p) ==
    {i \in DOMAIN sent :
       /\ slot[p].at < i
       /\ sent[i].from = Peer(slot[p].dev)
       /\ \A j \in slot[p].at + 1 .. i - 1 :
            sent[j].from = slot[p].dev \/ j <= marked[slot[p].dev]}

\* The session the envelope is read in: the one of the conversation, or one
\* that its handshake opens (payloadToHandshake).
ReadIn(st, env) ==
    IF st.sessions # {} THEN st.sessions
    ELSE IF env.handshake = NoKey THEN {}
    ELSE {AcceptSession(st.prekey, env.handshake)}

\* payloadToMessageHeader, and the ciphertext.
Message(env) == [header |-> env.header, key |-> env.key]

\* handleInbound: the states it may leave in memory, and its results.
HandleInbound(st, env) ==
    IF ReadIn(st, env) = {} THEN {[state |-> st, result |-> "no handshake"]}
    ELSE {[state |-> [st EXCEPT !.sessions = {out.session}], result |-> out.result] :
            out \in UNION {Decrypt(s, Message(env)) : s \in ReadIn(st, env)}}

\* Message keys that session s had, or passed over on the way to message m,
\* and that session t after it does not have: none but those that a store
\* without room for all of them dropped.
Dropped(s, m, t) ==
    LET r   == RotateRatchetOnRecv(s, m.header)
        all == s.skipped \cup {SkippedAt(r, i) : i \in r.recv.index .. m.header.n - 1}
    IN  IF SkippedFor(s, m.header) # {} \/ Cardinality(all) <= MaxSkipped THEN {}
        ELSE {e.key : e \in all \ t.skipped}

LetGo(st, env, after) ==
    UNION {Dropped(s, Message(env), t) : s \in ReadIn(st, env), t \in after.sessions}

\* msgctl goes on with the state that a failed Decrypt left; an endpoint
\* answers an error, and the caller still has the state it sent.
ReadEnvelope(p) ==
    LET d  == slot[p].dev
        st == IF d \in Cli THEN slot[p].mem ELSE file[d].state
    IN  /\ slot[p].stage = "listening"
        /\ \E i \in Pushed(p) : \E out \in HandleInbound(st, sent[i]) :
             /\ slot' = [slot EXCEPT ![p] =
                  IF out.result # "read"
                  THEN [@ EXCEPT !.at = i,
                                 !.mem = IF d \in Cli THEN out.state ELSE slot[p].mem]
                  ELSE [(IF d \in Cli THEN Goto(p, "opened")
                         ELSE [@ EXCEPT !.stage = "saving"])
                        EXCEPT !.at = i, !.mem = out.state]]
             /\ dropped' = dropped \cup LetGo(st, sent[i], out.state)
        /\ NoteOverlap(p, d)
        /\ UNCHANGED <<file, tmp, nextKey, registered, sent, marked, printed, cut>>

\* The connection breaks while no envelope is being handled.
Disconnect(p) ==
    /\ slot[p].stage = "listening"
    /\ slot' = [slot EXCEPT ![p] = Idle]
    /\ MarkDelivered(p)
    /\ UNCHANGED <<file, tmp, nextKey, registered, sent, printed,
                   overlapped, cut, dropped, faults>>

\* Fprintf and Flush.
PrintText(p) ==
    /\ slot[p].stage = "printing"
    /\ slot[p].dev \in Cli
    /\ printed' = [printed EXCEPT ![slot[p].at] = @ + 1]
    /\ slot' = [slot EXCEPT ![p] = Goto(p, "printed")]
    /\ UNCHANGED <<file, tmp, nextKey, registered, sent, marked, overlapped, cut, dropped, faults>>

-----------------------------------------------------------------------------

Next ==
    \/ \E p \in Process, d \in Device :
         StartInit(p, d) \/ StartSend(p, d) \/ StartListen(p, d)
    \/ \E p \in Process :
         \/ Register(p) \/ Seal(p) \/ SealFirst(p) \/ Post(p)
         \/ ReadEnvelope(p) \/ PrintText(p) \/ Disconnect(p)
         \/ OpenTmp(p) \/ WriteTmp(p) \/ Rename(p) \/ RenameFails(p)
         \/ ClientInitReturns(p) \/ ClientSendReturns(p) \/ ClientEnvelopeReturns(p)
         \/ LoseAnswer(p) \/ Crash(p)

Spec == Init /\ [][Next]_vars

-----------------------------------------------------------------------------
(* Properties.                                                             *)

\* Type correctness of the paths, the slots, the services and the histories;
\* a process has a file open only while it writes.
TypeOK ==
    /\ file \in [Device -> Content] /\ tmp \in [Device -> Content]
    /\ slot \in [Process -> Slot]
    /\ \A p \in Process : slot[p].handle # "none" <=> slot[p].stage = "writing"
    /\ nextKey \in Nat
    /\ registered \in [Device -> KeyPair]
    /\ sent \in Seq(Envelope)
    /\ marked \in [Device -> Nat]
    /\ printed \in Seq(Nat) /\ Len(printed) = Len(sent)
    /\ overlapped \subseteq Device /\ cut \subseteq Device \X Command
    /\ dropped \subseteq ChainKey
    /\ faults \in Nat

\* The session of a sealed envelope was opened with an ephemeral key; the
\* envelope that carries it was stored before, or is this one.
Introduced(key, upto) ==
    \E j \in 1 .. upto : /\ sent[j].handshake # NoKey
                         /\ sent[j].handshake \in Head(key.root)

\* The receiver can accept the session of every envelope that is stored: its
\* handshake is stored first, whatever fails, is killed or overlaps, since a
\* new session is saved only after its first envelope was.
HandshakeFirst ==
    \A i \in DOMAIN sent : Introduced(sent[i].key, i)

\* However the commands end, the state path names a complete state once it
\* names anything, unless two of them ran at a time and shared the temporary
\* file.
FileWhole ==
    \A d \in Device \ overlapped : file[d].form \in {"absent", "whole"}

\* No two envelopes are sealed with the same key, unless a send of the device
\* ended between the POST and the save, or two of its commands overlapped.
KeyReuseOnlyAfterBreak ==
    \A i, j \in DOMAIN sent :
        /\ i # j
        /\ sent[i].key = sent[j].key
        => \/ sent[i].from \in overlapped
           \/ <<sent[i].from, "send">> \in cut

\* No text is shown twice, however often its envelope is pushed, unless a
\* listener ended between showing and saving, or two of them overlapped.
ShownOnce ==
    \A i \in DOMAIN sent :
        LET d == Peer(sent[i].from)
        IN  d \notin overlapped /\ <<d, "listen">> \notin cut => printed[i] <= 1

\* Session s has gone past key and cannot derive it any more.
Past(s, key) ==
    /\ s.recv.key.root = key.root
    /\ s.recv.key.step > key.step
    /\ \A e \in s.skipped : e.key # key

\* A saved state that has gone past the key of an envelope means that a text
\* sealed with that key was shown, or that a full store had to drop the key:
\* no failure and no overlap swallows it.
NothingSwallowed ==
    \A d \in Device, i \in DOMAIN sent :
        /\ sent[i].from = Peer(d) /\ sent[i].key \notin dropped
        /\ \E s \in file[d].state.sessions : Past(s, sent[i].key)
        => \E j \in DOMAIN sent : sent[j].key = sent[i].key /\ printed[j] > 0

\* The prekey that the Keys service hands out is the one in the state, or its
\* init is still under way, unless an init ended in between or two overlapped.
RegisteredIsHeld ==
    \A d \in Device :
        /\ registered[d] # NoKey
        /\ d \notin overlapped
        /\ <<d, "init">> \notin cut
        => \/ file[d].form = "whole" /\ file[d].state.prekey = registered[d]
           \/ \E p \in Busy(d) : slot[p].mem.prekey = registered[d]
==============================================================================
