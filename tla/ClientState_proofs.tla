-------------------------- MODULE ClientState_proofs --------------------------
(***************************************************************************)
(* Proofs about ClientState, for any number of processes and calls, any    *)
(* choice of devices driven by msgctl and every bound: TypeOK, FileWhole,  *)
(* RegisteredIsHeld, HandshakeFirst, ShownOnce, KeyReuseOnlyAfterBreak and *)
(* NothingSwallowed.                                                       *)
(*                                                                         *)
(* FileWhole rests on who may hold the temporary file: as long as no two   *)
(* processes of a device overlapped, a process that writes has a file that *)
(* it truncated itself, and one that renames has written a whole state     *)
(* (PathInv).  RegisteredIsHeld adds that whoever runs without an overlap  *)
(* has the prekey of the file in memory (HeldInv), HandshakeFirst that     *)
(* every session in memory or in a file descends from a handshake that is  *)
(* stored, or is in hand (HandInv).                                        *)
(*                                                                         *)
(* The next two go by what the saved state can no longer do.  Every key    *)
(* comes from key pairs generated before (KeysInv), and the two devices    *)
(* never send in one chain (ChainsApart).  Hence a key that was sealed     *)
(* with, or whose text was shown, stays dead once a state that is past it  *)
(* is saved, and as long as no command ended in between the file of the    *)
(* device, or the process about to replace it, holds such a state          *)
(* (SavedInv); ShowInv and PostInv count what that leaves possible.        *)
(*                                                                         *)
(* NothingSwallowed asks where every key went that a session is past.  A   *)
(* book, which exists though no variable holds it, has a line for each     *)
(* chain that a device ever sent on; a session that follows a chain of the *)
(* peer is past no key of it but those that it keeps, that were dropped,   *)
(* and whose text was shown or is in hand to be shown before a save        *)
(* (LossInv).  Whatever else it is past belongs to a chain that the peer   *)
(* never sent on.  The facts about single sessions are in Ratchet_proofs.  *)
(***************************************************************************)
EXTENDS ClientState, Ratchet_proofs, TLAPS

\* The stages a command goes through.
StageOf == [init   |-> {"registering", "saving", "writing", "renaming"},
            send   |-> {"loaded", "posting", "saving", "writing", "renaming"},
            listen |-> {"listening", "printing", "saving", "writing", "renaming"}]

StateShaped(st) == DOMAIN st = {"prekey", "sessions"}

\* A slot, whatever its state in memory and its envelope are.
SlotShaped(s) ==
    /\ DOMAIN s = {"stage", "cmd", "dev", "mem", "env", "at", "handle"}
    /\ s.cmd \in Command /\ s.dev \in Device
    /\ s.stage = "idle" \/ s.stage \in StageOf[s.cmd]
    /\ s.stage \in {"writing", "renaming"} => s.dev \in Cli
    /\ StateShaped(s.mem)

IsBusy(s) == s.stage # "idle" /\ (s.dev \in Cli \/ s.stage # "listening")

\* Without an overlap a device has one process or call at a time.
OneAtATime ==
    \A p, q \in Process :
        /\ IsBusy(slot[p]) /\ IsBusy(slot[q]) /\ slot[p].dev = slot[q].dev
        /\ slot[p].dev \notin overlapped
        => p = q

SlotsInv ==
    /\ slot = [p \in Process |-> slot[p]]
    /\ \A p \in Process : SlotShaped(slot[p])
    /\ OneAtATime

ContentShaped(c) == DOMAIN c = {"form", "state"} /\ StateShaped(c.state)

FilesShaped ==
    /\ file = [d \in Device |-> file[d]] /\ tmp = [d \in Device |-> tmp[d]]
    /\ \A d \in Device : ContentShaped(file[d]) /\ ContentShaped(tmp[d])

\* What the temporary file is for the process that is saving.
TmpIsOwn ==
    \A p \in Process : slot[p].dev \notin overlapped =>
        /\ slot[p].stage = "writing" =>
              slot[p].handle = "tmp" /\ tmp[slot[p].dev].form = "empty"
        /\ slot[p].stage = "renaming" => tmp[slot[p].dev].form = "whole"

PathInv == SlotsInv /\ FilesShaped /\ TmpIsOwn /\ FileWhole

-----------------------------------------------------------------------------
(* Slots.                                                                  *)

\* Slot p gets record t, and t is busy only if p was, for the same device, or
\* nobody else is or an overlap is noted.
SlotGets(p, t) ==
    /\ slot' = [slot EXCEPT ![p] = t]
    /\ SlotShaped(t)
    /\ overlapped \subseteq overlapped'
    /\ IsBusy(t) => \/ IsBusy(slot[p]) /\ t.dev = slot[p].dev
                    \/ t.dev \in overlapped'
                    \/ \A q \in Process \ {p} : ~(IsBusy(slot[q]) /\ slot[q].dev = t.dev)

LEMMA SlotsStep ==
    ASSUME SlotsInv, NEW p \in Process, NEW t, SlotGets(p, t)
    PROVE  SlotsInv' /\ \A q \in Process : slot'[q] = IF q = p THEN t ELSE slot[q]
  <1>1. \A q \in Process : slot'[q] = IF q = p THEN t ELSE slot[q]
    BY DEF SlotsInv, SlotGets
  <1>2. slot' = [q \in Process |-> slot'[q]]
    BY DEF SlotsInv, SlotGets
  <1>3. ASSUME NEW q \in Process PROVE SlotShaped(slot'[q])
    BY <1>1 DEF SlotsInv, SlotGets
  <1>4. OneAtATime'
    <2> SUFFICES ASSUME NEW q \in Process, NEW r \in Process,
                        IsBusy(slot'[q]), IsBusy(slot'[r]),
                        slot'[q].dev = slot'[r].dev, slot'[q].dev \notin overlapped'
                 PROVE  q = r
      BY DEF OneAtATime, IsBusy
    <2>1. CASE q # p /\ r # p
      BY <2>1, <1>1 DEF SlotsInv, OneAtATime, SlotGets
    <2>2. CASE q = p /\ r # p
      BY <2>2, <1>1 DEF SlotsInv, OneAtATime, SlotGets
    <2>3. CASE q # p /\ r = p
      BY <2>3, <1>1 DEF SlotsInv, OneAtATime, SlotGets
    <2> QED BY <2>1, <2>2, <2>3
  <1>5. \A q \in Process : SlotShaped(slot[q])'
    BY <1>3 DEF SlotShaped, StateShaped
  <1> QED BY <1>1, <1>2, <1>4, <1>5 DEF SlotsInv

\* What starts is counted, by Busy and NoteOverlap.
LEMMA StartStep ==
    ASSUME SlotsInv, NEW p \in Process, NEW t, SlotShaped(t),
           slot' = [slot EXCEPT ![p] = t], NoteOverlap(p, t.dev)
    PROVE  SlotGets(p, t)
  <1>1. CASE Busy(t.dev) \ {p} = {}
    <2>1. ASSUME NEW q \in Process \ {p}, IsBusy(slot[q]), slot[q].dev = t.dev
          PROVE  FALSE
      <3>1. q \in Busy(t.dev)
        BY <2>1 DEF Busy, IsBusy
      <3> QED BY <3>1, <1>1
    <2> QED BY <1>1, <2>1 DEF NoteOverlap, SlotGets
  <1>2. CASE Busy(t.dev) \ {p} # {}
    BY <1>2 DEF NoteOverlap, SlotGets
  <1> QED BY <1>1, <1>2

LEMMA IdleShaped == SlotShaped(Idle) /\ ~IsBusy(Idle) /\ Idle.stage = "idle"
  BY DEF Idle, SlotShaped, StateShaped, NoState, Fresh, Command, Device, IsBusy

\* The slot after a step of its command, all but the stage left alone.
LEMMA GotoStep ==
    ASSUME NEW p \in Process, SlotShaped(slot[p]), NEW done,
           NEW next \in StageOf[slot[p].cmd], Steps[slot[p].cmd][done] = next,
           next \notin {"idle", "writing", "renaming"}, NEW g, g = Goto(p, done)
    PROVE  /\ SlotShaped(g) /\ g.stage = next /\ g.handle = "none"
           /\ g.cmd = slot[p].cmd /\ g.dev = slot[p].dev /\ g.mem = slot[p].mem
           /\ g.env = slot[p].env /\ g.at = slot[p].at
  <1>1. g = [slot[p] EXCEPT !.stage = next, !.handle = "none"]
    BY DEF Goto
  <1> QED BY <1>1 DEF SlotShaped

\* The steps of the commands, looked up.
LEMMA StepsAre ==
    /\ Steps["init"]["registered"] = "saving" /\ Steps["init"]["saved"] = "idle"
    /\ Steps["send"]["sealed"] = "posting" /\ Steps["send"]["posted"] = "saving"
    /\ Steps["send"]["saved"] = "idle"
    /\ Steps["listen"]["opened"] = "printing" /\ Steps["listen"]["printed"] = "saving"
    /\ Steps["listen"]["saved"] = "listening"
  BY DEF Steps

-----------------------------------------------------------------------------
(* Slots: what the actions do to the one of the process or call.           *)

\* Slot p gets t.
Gets(p, t) == slot' = [slot EXCEPT ![p] = t] /\ SlotShaped(t)

\* Slot p gets t, which is at stage next of the command it was at.
Moves(p, t, next) ==
    Gets(p, t) /\ t.stage = next /\ t.cmd = slot[p].cmd /\ t.dev = slot[p].dev

LEMMA StartInitSlot ==
    ASSUME SlotsInv, NEW p \in Process, NEW d \in Device, StartInit(p, d)
    PROVE  \E t : /\ Gets(p, t) /\ NoteOverlap(p, t.dev) /\ t.stage = "registering"
                  /\ t.cmd = "init" /\ t.dev = d /\ t.mem = Fresh(nextKey)
  <1> DEFINE t == [Idle EXCEPT !.stage = "registering", !.cmd = "init", !.dev = d,
                               !.mem = Fresh(nextKey)]
  <1>1. SlotShaped(t) /\ t.dev = d /\ t.stage = "registering" /\ t.cmd = "init"
        /\ t.mem = Fresh(nextKey)
    BY DEF Idle, SlotShaped, StateShaped, Fresh, NoState, Command, StageOf
  <1>2. slot' = [slot EXCEPT ![p] = t] /\ NoteOverlap(p, d)
    BY DEF StartInit, Start
  <1> HIDE DEF t
  <1> QED BY <1>1, <1>2 DEF Gets

LEMMA StartSendSlot ==
    ASSUME SlotsInv, FilesShaped, NEW p \in Process, NEW d \in Device, StartSend(p, d)
    PROVE  \E t : /\ Gets(p, t) /\ NoteOverlap(p, t.dev) /\ t.stage = "loaded"
                  /\ t.cmd = "send" /\ t.dev = d /\ t.mem = file[d].state
  <1> DEFINE t == [Idle EXCEPT !.stage = "loaded", !.cmd = "send", !.dev = d,
                               !.mem = file[d].state]
  <1>1. StateShaped(file[d].state)
    BY DEF FilesShaped, ContentShaped
  <1>2. SlotShaped(t) /\ t.dev = d /\ t.stage = "loaded" /\ t.cmd = "send"
        /\ t.mem = file[d].state
    BY <1>1 DEF Idle, SlotShaped, Command, StageOf
  <1>3. slot' = [slot EXCEPT ![p] = t] /\ NoteOverlap(p, d)
    BY DEF StartSend, Start
  <1> HIDE DEF t
  <1> QED BY <1>2, <1>3 DEF Gets

LEMMA StartListenSlot ==
    ASSUME SlotsInv, FilesShaped, NEW p \in Process, NEW d \in Device,
           StartListen(p, d)
    PROVE  \E t : /\ Gets(p, t) /\ t.stage = "listening" /\ t.cmd = "listen" /\ t.dev = d
                  /\ t.mem = IF d \in Cli THEN file[d].state ELSE NoState
                  /\ IF d \in Cli THEN NoteOverlap(p, t.dev) ELSE UNCHANGED overlapped
  <1> DEFINE mem == IF d \in Cli THEN file[d].state ELSE NoState
             t == [Idle EXCEPT !.stage = "listening", !.cmd = "listen", !.dev = d,
                               !.mem = mem, !.at = marked[d]]
  <1>1. StateShaped(mem)
    BY DEF FilesShaped, ContentShaped, StateShaped, NoState, Fresh
  <1>2. SlotShaped(t) /\ t.dev = d /\ t.stage = "listening" /\ t.cmd = "listen"
        /\ t.mem = mem
    <2> HIDE DEF mem
    <2> QED BY <1>1 DEF Idle, SlotShaped, Command, StageOf
  <1>3. /\ slot' = [slot EXCEPT ![p] = t]
        /\ IF d \in Cli THEN NoteOverlap(p, d) ELSE UNCHANGED overlapped
    BY DEF StartListen, Start
  <1> HIDE DEF t
  <1> QED BY <1>2, <1>3 DEF Gets

LEMMA RegisterSlot ==
    ASSUME SlotsInv, NEW p \in Process, Register(p)
    PROVE  /\ slot[p].cmd = "init" /\ SlotShaped(slot[p]) /\ IsBusy(slot[p])
           /\ \/ \E t : Moves(p, t, "saving") /\ t.mem = slot[p].mem
                        /\ cut' = cut
              \/ Gets(p, Idle) /\ cut' = cut \cup {<<slot[p].dev, "init">>}
  <1> DEFINE t == Goto(p, "registered")
  <1>1. SlotShaped(slot[p]) /\ slot[p].stage = "registering" /\ IsBusy(slot[p])
    BY DEF Register, SlotsInv, IsBusy
  <1>2. slot[p].cmd = "init"
    BY <1>1 DEF SlotShaped, StageOf, Command
  <1>3. SlotShaped(t) /\ t.stage = "saving" /\ t.dev = slot[p].dev
        /\ t.cmd = slot[p].cmd /\ t.mem = slot[p].mem
    <2>1. "saving" \in StageOf[slot[p].cmd]
      BY <1>2 DEF StageOf
    <2> QED BY <2>1, <1>1, <1>2, StepsAre, GotoStep
  <1>4. \/ slot' = [slot EXCEPT ![p] = t] /\ cut' = cut
        \/ slot' = [slot EXCEPT ![p] = Idle] /\ cut' = cut \cup {<<slot[p].dev, slot[p].cmd>>}
    BY DEF Register, End
  <1> HIDE DEF t
  <1> QED BY <1>1, <1>2, <1>3, <1>4, IdleShaped DEF Gets, Moves

\* Slot p seals with e, what Encrypt returned, and that handshake.
SealsInto(p, t, e, handshake) ==
    /\ Moves(p, t, "posting")
    /\ t.env = Sealed(slot[p].dev, e, handshake)
    /\ t.mem.sessions = {e.session}
    /\ t.mem.prekey = slot[p].mem.prekey

LEMMA SealInSlot ==
    ASSUME SlotsInv, NEW p \in Process, slot[p].stage = "loaded",
           NEW s, NEW fresh, NEW handshake, SealIn(p, s, fresh, handshake)
    PROVE  /\ slot[p].cmd = "send" /\ SlotShaped(slot[p]) /\ IsBusy(slot[p])
           /\ \E t : SealsInto(p, t, Encrypt(s, fresh), handshake)
  <1>1. SlotShaped(slot[p]) /\ IsBusy(slot[p])
    BY DEF SlotsInv, IsBusy
  <1>2. slot[p].cmd = "send"
    BY <1>1 DEF SlotShaped, StageOf, Command
  <1> DEFINE sealed == Encrypt(s, fresh)
             sessions == {sealed.session}
             env == Sealed(slot[p].dev, sealed, handshake)
             u == Goto(p, "sealed")
             mem == [u.mem EXCEPT !.sessions = sessions]
             t == [u EXCEPT !.mem = mem, !.env = env]
  <1>3. SlotShaped(u) /\ u.stage = "posting" /\ u.dev = slot[p].dev
        /\ u.cmd = slot[p].cmd /\ u.mem = slot[p].mem
    <2>1. "posting" \in StageOf[slot[p].cmd]
      BY <1>2 DEF StageOf
    <2> QED BY <2>1, <1>1, <1>2, StepsAre, GotoStep
  <1>4. slot' = [slot EXCEPT ![p] = t]
    BY DEF SealIn
  <1> HIDE DEF u, sessions, env
  <1>5. SlotShaped(t) /\ t.stage = "posting" /\ t.dev = slot[p].dev
        /\ t.cmd = slot[p].cmd /\ t.env = env /\ t.mem.sessions = sessions
        /\ t.mem.prekey = slot[p].mem.prekey
    BY <1>3 DEF SlotShaped, StateShaped
  <1>6. SealsInto(p, t, sealed, handshake)
    BY <1>4, <1>5 DEF Gets, Moves, SealsInto, env, sessions
  <1> QED BY <1>1, <1>2, <1>6

LEMMA PostSlot ==
    ASSUME SlotsInv, NEW p \in Process, Post(p)
    PROVE  /\ slot[p].cmd = "send" /\ SlotShaped(slot[p]) /\ IsBusy(slot[p])
           /\ \/ \E t : Moves(p, t, "saving") /\ t.mem = slot[p].mem /\ cut' = cut
              \/ Gets(p, Idle) /\ cut' = cut \cup {<<slot[p].dev, "send">>}
  <1> DEFINE u == Goto(p, "posted")
             t == [u EXCEPT !.env = NoEnvelope]
  <1>1. SlotShaped(slot[p]) /\ slot[p].stage = "posting" /\ IsBusy(slot[p])
    BY DEF Post, SlotsInv, IsBusy
  <1>2. slot[p].cmd = "send"
    BY <1>1 DEF SlotShaped, StageOf, Command
  <1>3. SlotShaped(u) /\ u.stage = "saving" /\ u.dev = slot[p].dev
        /\ u.cmd = slot[p].cmd /\ u.mem = slot[p].mem
    <2>1. "saving" \in StageOf[slot[p].cmd]
      BY <1>2 DEF StageOf
    <2> QED BY <2>1, <1>1, <1>2, StepsAre, GotoStep
  <1>4. SlotShaped(t) /\ t.stage = "saving" /\ t.dev = slot[p].dev
        /\ t.cmd = slot[p].cmd /\ t.mem = slot[p].mem
    <2> HIDE DEF u
    <2> QED BY <1>3 DEF SlotShaped
  <1>5. \/ slot' = [slot EXCEPT ![p] = t] /\ cut' = cut
        \/ slot' = [slot EXCEPT ![p] = Idle] /\ cut' = cut \cup {<<slot[p].dev, slot[p].cmd>>}
    BY DEF Post, End
  <1> HIDE DEF t
  <1> QED BY <1>1, <1>2, <1>4, <1>5, IdleShaped DEF Gets, Moves

LEMMA HandleInboundShaped ==
    ASSUME NEW st, StateShaped(st), NEW env, NEW out \in HandleInbound(st, env)
    PROVE  StateShaped(out.state) /\ out.state.prekey = st.prekey
  <1>1. CASE ReadIn(st, env) = {}
    <2>1. out = [state |-> st, result |-> "no handshake"]
      BY <1>1, Zenon DEF HandleInbound
    <2> QED BY <2>1
  <1>2. CASE ReadIn(st, env) # {}
    <2>1. PICK o : out = [state |-> [st EXCEPT !.sessions = {o.session}],
                          result |-> o.result]
      BY <1>2 DEF HandleInbound
    <2> QED BY <2>1 DEF StateShaped
  <1> QED BY <1>1, <1>2

\* The state that an envelope pushed to slot p is read in.
StateOf(p) == IF slot[p].dev \in Cli THEN slot[p].mem ELSE file[slot[p].dev].state

\* Slot p goes on as t when sent[i] was handled with that outcome.
Handled(p, i, out, t) ==
    /\ dropped' = dropped \cup LetGo(StateOf(p), sent[i], out.state)
    /\ \/ /\ Moves(p, t, "listening") /\ out.result # "read"
          /\ t.mem = IF slot[p].dev \in Cli THEN out.state ELSE slot[p].mem
       \/ /\ IF slot[p].dev \in Cli THEN Moves(p, t, "printing") ELSE Moves(p, t, "saving")
          /\ t.mem = out.state /\ t.at = i /\ out.result = "read"

LEMMA ReadEnvelopeSlot ==
    ASSUME SlotsInv, FilesShaped, NEW p \in Process, ReadEnvelope(p)
    PROVE  /\ slot[p].cmd = "listen" /\ SlotShaped(slot[p]) /\ slot[p].stage = "listening"
           /\ StateShaped(StateOf(p)) /\ NoteOverlap(p, slot[p].dev)
           /\ \E i \in Pushed(p) : \E out \in HandleInbound(StateOf(p), sent[i]) :
                \E t : Handled(p, i, out, t)
  <1> DEFINE d  == slot[p].dev
             st == IF d \in Cli THEN slot[p].mem ELSE file[d].state
  <1>1. SlotShaped(slot[p]) /\ slot[p].stage = "listening" /\ d \in Device
    BY DEF ReadEnvelope, SlotsInv, SlotShaped
  <1>2. slot[p].cmd = "listen"
    BY <1>1 DEF SlotShaped, StageOf, Command
  <1>3. StateShaped(st)
    BY <1>1 DEF FilesShaped, ContentShaped, SlotShaped
  <1> PICK i \in Pushed(p) : \E out \in HandleInbound(st, sent[i]) :
          /\ slot' = [slot EXCEPT ![p] =
               IF out.result # "read"
               THEN [@ EXCEPT !.at = i, !.mem = IF d \in Cli THEN out.state ELSE slot[p].mem]
               ELSE [(IF d \in Cli THEN Goto(p, "opened")
                      ELSE [@ EXCEPT !.stage = "saving"])
                     EXCEPT !.at = i, !.mem = out.state]]
          /\ dropped' = dropped \cup LetGo(st, sent[i], out.state)
    BY DEF ReadEnvelope
  <1>4. PICK out \in HandleInbound(st, sent[i]) :
          /\ slot' = [slot EXCEPT ![p] =
               IF out.result # "read"
               THEN [@ EXCEPT !.at = i, !.mem = IF d \in Cli THEN out.state ELSE slot[p].mem]
               ELSE [(IF d \in Cli THEN Goto(p, "opened")
                      ELSE [@ EXCEPT !.stage = "saving"])
                     EXCEPT !.at = i, !.mem = out.state]]
          /\ dropped' = dropped \cup LetGo(st, sent[i], out.state)
    OBVIOUS
  <1>5. StateShaped(out.state)
    BY <1>3, HandleInboundShaped
  <1>6. dropped' = dropped \cup LetGo(StateOf(p), sent[i], out.state)
    BY <1>4 DEF StateOf
  <1>7. \E t : Handled(p, i, out, t)
    <2>1. CASE out.result # "read"
      <3> DEFINE mem == IF d \in Cli THEN out.state ELSE slot[p].mem
                 t == [slot[p] EXCEPT !.at = i, !.mem = mem]
      <3>1. slot' = [slot EXCEPT ![p] = t]
        BY <1>4, <2>1
      <3>2. StateShaped(mem)
        BY <1>1, <1>5 DEF SlotShaped
      <3>3. SlotShaped(t) /\ t.stage = "listening" /\ t.dev = d /\ t.cmd = slot[p].cmd
            /\ t.mem = mem
        <4> HIDE DEF mem
        <4> QED BY <3>2, <1>1 DEF SlotShaped
      <3> HIDE DEF t
      <3> QED BY <2>1, <3>1, <3>3, <1>6 DEF Handled, Moves, Gets
    <2>2. CASE out.result = "read" /\ d \in Cli
      <3> DEFINE u == Goto(p, "opened")
                 t == [u EXCEPT !.at = i, !.mem = out.state]
      <3>1. slot' = [slot EXCEPT ![p] = t]
        BY <1>4, <2>2
      <3>2. SlotShaped(u) /\ u.stage = "printing" /\ u.dev = d /\ u.cmd = slot[p].cmd
        <4>1. "printing" \in StageOf[slot[p].cmd]
          BY <1>2 DEF StageOf
        <4> QED BY <4>1, <1>1, <1>2, StepsAre, GotoStep
      <3>3. SlotShaped(t) /\ t.stage = "printing" /\ t.dev = d /\ t.cmd = slot[p].cmd
            /\ t.mem = out.state /\ t.at = i
        <4> HIDE DEF u
        <4> QED BY <3>2, <1>5 DEF SlotShaped
      <3> HIDE DEF t
      <3> QED BY <2>2, <3>1, <3>3, <1>6 DEF Handled, Moves, Gets
    <2>3. CASE out.result = "read" /\ d \notin Cli
      <3> DEFINE u == [slot[p] EXCEPT !.stage = "saving"]
                 t == [u EXCEPT !.at = i, !.mem = out.state]
      <3>1. slot' = [slot EXCEPT ![p] = t]
        BY <1>4, <2>3
      <3>2. SlotShaped(u) /\ u.stage = "saving" /\ u.dev = d /\ u.cmd = slot[p].cmd
        <4>1. "saving" \in StageOf[slot[p].cmd]
          BY <1>2 DEF StageOf
        <4> QED BY <4>1, <1>1 DEF SlotShaped
      <3>3. SlotShaped(t) /\ t.stage = "saving" /\ t.dev = d /\ t.cmd = slot[p].cmd
            /\ t.mem = out.state /\ t.at = i
        <4> HIDE DEF u
        <4> QED BY <3>2, <1>5 DEF SlotShaped
      <3> HIDE DEF t
      <3> QED BY <2>3, <3>1, <3>3, <1>6 DEF Handled, Moves, Gets
    <2> QED BY <2>1, <2>2, <2>3
  <1>8. NoteOverlap(p, d)
    BY DEF ReadEnvelope
  <1> QED BY <1>1, <1>2, <1>3, <1>7, <1>8 DEF StateOf

LEMMA PrintTextSlot ==
    ASSUME SlotsInv, NEW p \in Process, PrintText(p)
    PROVE  /\ slot[p].cmd = "listen" /\ SlotShaped(slot[p]) /\ IsBusy(slot[p])
           /\ \E t : Moves(p, t, "saving") /\ t.mem = slot[p].mem
  <1> DEFINE t == Goto(p, "printed")
  <1>1. SlotShaped(slot[p]) /\ slot[p].stage = "printing" /\ IsBusy(slot[p])
    BY DEF PrintText, SlotsInv, IsBusy
  <1>2. slot[p].cmd = "listen"
    BY <1>1 DEF SlotShaped, StageOf, Command
  <1>3. SlotShaped(t) /\ t.stage = "saving" /\ t.dev = slot[p].dev
        /\ t.cmd = slot[p].cmd /\ t.mem = slot[p].mem
    <2>1. "saving" \in StageOf[slot[p].cmd]
      BY <1>2 DEF StageOf
    <2> QED BY <2>1, <1>1, <1>2, StepsAre, GotoStep
  <1>4. slot' = [slot EXCEPT ![p] = t]
    BY DEF PrintText
  <1> HIDE DEF t
  <1> QED BY <1>1, <1>2, <1>3, <1>4 DEF Moves, Gets

\* A connection of the endpoints goes on listening, with no state of its own.
LEMMA WaitingShaped ==
    ASSUME NEW s, SlotShaped(s), s.cmd = "listen"
    PROVE  /\ SlotShaped(Waiting(s)) /\ Waiting(s).stage = "listening"
           /\ Waiting(s).cmd = s.cmd /\ Waiting(s).dev = s.dev
           /\ Waiting(s).mem = NoState
  BY DEF Waiting, SlotShaped, StageOf, StateShaped, NoState, Fresh

LEMMA LoseAnswerSlot ==
    ASSUME SlotsInv, NEW p \in Process, LoseAnswer(p)
    PROVE  /\ slot[p].cmd = "listen" /\ SlotShaped(slot[p]) /\ IsBusy(slot[p])
           /\ \E t : Moves(p, t, "listening") /\ t.mem = NoState
  <1>1. SlotShaped(slot[p]) /\ slot[p].cmd = "listen" /\ IsBusy(slot[p])
    BY DEF LoseAnswer, SlotsInv, IsBusy
  <1>2. slot' = [slot EXCEPT ![p] = Waiting(slot[p])]
    BY DEF LoseAnswer
  <1> QED BY <1>1, <1>2, WaitingShaped DEF Moves, Gets

\* What ends a process or a call once its effect is out is noted.
LEMMA EndsSlot ==
    ASSUME SlotsInv, NEW p \in Process, Disconnect(p) \/ RenameFails(p) \/ Crash(p)
    PROVE  /\ Gets(p, Idle) /\ SlotShaped(slot[p]) /\ cut \subseteq cut'
           /\ slot[p].cmd = "init" =>
                 slot[p].stage = "registering" \/ <<slot[p].dev, "init">> \in cut'
  <1>1. SlotShaped(slot[p])
    BY DEF SlotsInv
  <1>2. Gets(p, Idle)
    BY IdleShaped DEF Gets, Disconnect, RenameFails, Crash, End
  <1>3. CASE Disconnect(p)
    BY <1>1, <1>2, <1>3 DEF Disconnect, SlotShaped, StageOf
  <1>4. CASE RenameFails(p)
    BY <1>1, <1>2, <1>4 DEF RenameFails, End
  <1>5. CASE Crash(p)
    <2>1. slot[p].stage # "idle" /\ cut \subseteq cut'
          /\ (Unsaved(p) => <<slot[p].dev, slot[p].cmd>> \in cut')
      BY <1>5 DEF Crash, End
    <2> QED BY <1>1, <1>2, <2>1 DEF SlotShaped, StageOf, Unsaved
  <1> QED BY <1>3, <1>4, <1>5

LEMMA OpenTmpSlot ==
    ASSUME SlotsInv, NEW p \in Process, OpenTmp(p)
    PROVE  /\ SlotShaped(slot[p]) /\ IsBusy(slot[p])
           /\ \E t : Moves(p, t, "writing") /\ t.mem = slot[p].mem /\ t.handle = "tmp"
  <1> DEFINE t == [slot[p] EXCEPT !.stage = "writing", !.handle = "tmp"]
  <1>1. SlotShaped(slot[p]) /\ IsBusy(slot[p])
    BY DEF OpenTmp, SlotsInv, IsBusy
  <1>2. SlotShaped(t) /\ t.stage = "writing" /\ t.dev = slot[p].dev /\ t.handle = "tmp"
        /\ t.cmd = slot[p].cmd /\ t.mem = slot[p].mem
    BY <1>1 DEF OpenTmp, SlotShaped, StageOf, Command
  <1>3. slot' = [slot EXCEPT ![p] = t]
    BY DEF OpenTmp
  <1> HIDE DEF t
  <1> QED BY <1>1, <1>2, <1>3 DEF Moves, Gets

LEMMA WriteTmpSlot ==
    ASSUME SlotsInv, NEW p \in Process, WriteTmp(p)
    PROVE  /\ SlotShaped(slot[p]) /\ IsBusy(slot[p]) /\ slot[p].dev \in Cli
           /\ \E t : Moves(p, t, "renaming") /\ t.mem = slot[p].mem
  <1> DEFINE t == [slot[p] EXCEPT !.stage = "renaming", !.handle = "none"]
  <1>1. SlotShaped(slot[p]) /\ IsBusy(slot[p]) /\ slot[p].stage = "writing"
    BY DEF WriteTmp, SlotsInv, IsBusy
  <1>2. SlotShaped(t) /\ t.stage = "renaming" /\ t.dev = slot[p].dev
        /\ t.cmd = slot[p].cmd /\ t.mem = slot[p].mem
    BY <1>1 DEF SlotShaped, StageOf, Command
  <1>3. slot' = [slot EXCEPT ![p] = t]
    BY DEF WriteTmp
  <1> HIDE DEF t
  <1> QED BY <1>1, <1>2, <1>3 DEF Moves, Gets, SlotShaped

\* The others keep what they are at, though their handles may be renamed.
LEMMA RenameSlots ==
    ASSUME SlotsInv, NEW p \in Process, Rename(p)
    PROVE  /\ SlotShaped(slot[p]) /\ IsBusy(slot[p]) /\ slot[p].dev \in Cli
           /\ slot' = [q \in Process |-> slot'[q]]
           /\ \A q \in Process : SlotShaped(slot'[q])
           /\ \A q \in Process \ {p} :
                /\ slot'[q].stage = slot[q].stage /\ slot'[q].cmd = slot[q].cmd
                /\ slot'[q].dev = slot[q].dev /\ slot'[q].mem = slot[q].mem
                /\ slot'[q].env = slot[q].env /\ slot'[q].at = slot[q].at
                /\ slot[q].dev # slot[p].dev => slot'[q] = slot[q]
           /\ \/ slot'[p] = Idle
              \/ /\ slot[p].cmd = "listen" /\ slot'[p].stage = "listening"
                 /\ slot'[p].cmd = "listen" /\ slot'[p].dev = slot[p].dev
                 /\ slot'[p].mem = slot[p].mem
  <1> DEFINE t == Goto(p, "saved")
             r(q) == [slot[q] EXCEPT !.handle = Renamed(@)]
  <1>1. SlotShaped(slot[p]) /\ slot[p].stage = "renaming" /\ IsBusy(slot[p])
        /\ slot[p].dev \in Cli
    BY DEF Rename, SlotsInv, IsBusy, SlotShaped
  <1>2. slot' = [q \in Process |-> IF q = p THEN t
                                   ELSE IF slot[q].dev = slot[p].dev THEN r(q) ELSE slot[q]]
    BY DEF Rename
  <1>3. /\ SlotShaped(t)
        /\ \/ t = Idle
           \/ /\ slot[p].cmd = "listen" /\ t.stage = "listening" /\ t.cmd = "listen"
              /\ t.dev = slot[p].dev /\ t.mem = slot[p].mem
    <2>1. CASE slot[p].cmd = "listen"
      <3>1. "listening" \in StageOf[slot[p].cmd]
        BY <2>1 DEF StageOf
      <3> QED BY <2>1, <3>1, <1>1, StepsAre, GotoStep
    <2>2. CASE slot[p].cmd \in {"init", "send"}
      <3>1. t = Idle
        BY <2>2, StepsAre DEF Goto
      <3> HIDE DEF t
      <3> QED BY <3>1, IdleShaped
    <2> QED BY <2>1, <2>2, <1>1 DEF SlotShaped, Command
  <1>4. \A q \in Process : /\ SlotShaped(r(q)) /\ r(q).stage = slot[q].stage
                           /\ r(q).dev = slot[q].dev /\ r(q).cmd = slot[q].cmd
                           /\ r(q).mem = slot[q].mem /\ r(q).env = slot[q].env
                           /\ r(q).at = slot[q].at
    BY DEF SlotsInv, SlotShaped
  <1> HIDE DEF t, r
  <1>5. slot'[p] = t
    BY <1>2
  <1>6. \A q \in Process : SlotShaped(slot'[q])
    BY <1>2, <1>3, <1>4 DEF SlotsInv
  <1>7. \A q \in Process \ {p} :
                /\ slot'[q].stage = slot[q].stage /\ slot'[q].cmd = slot[q].cmd
                /\ slot'[q].dev = slot[q].dev /\ slot'[q].mem = slot[q].mem
                /\ slot'[q].env = slot[q].env /\ slot'[q].at = slot[q].at
                /\ slot[q].dev # slot[p].dev => slot'[q] = slot[q]
    BY <1>2, <1>4
  <1>8. slot' = [q \in Process |-> slot'[q]]
    BY <1>2
  <1> QED BY <1>1, <1>3, <1>5, <1>6, <1>7, <1>8

LEMMA ReturnsSlot ==
    ASSUME SlotsInv, NEW p \in Process,
           ClientInitReturns(p) \/ ClientSendReturns(p) \/ ClientEnvelopeReturns(p)
    PROVE  /\ SlotShaped(slot[p]) /\ IsBusy(slot[p]) /\ slot[p].stage = "saving"
           /\ slot[p].dev \notin Cli
           /\ Gets(p, Idle) \/ \E t : Moves(p, t, "listening") /\ t.mem = NoState
                                      /\ slot[p].cmd = "listen"
  <1>1. slot[p].stage = "saving" /\ SlotShaped(slot[p]) /\ IsBusy(slot[p])
        /\ slot[p].dev \notin Cli
    BY DEF ClientInitReturns, ClientSendReturns, ClientEnvelopeReturns, Returns,
           SlotsInv, IsBusy
  <1>2. CASE ClientInitReturns(p) \/ ClientSendReturns(p)
    BY <1>1, <1>2, IdleShaped DEF ClientInitReturns, ClientSendReturns, Returns, Gets
  <1>3. CASE ClientEnvelopeReturns(p)
    <2>1. slot[p].cmd = "listen" /\ slot' = [slot EXCEPT ![p] = Waiting(slot[p])]
      BY <1>3 DEF ClientEnvelopeReturns, Returns
    <2> QED BY <1>1, <2>1, WaitingShaped DEF Moves, Gets
  <1> QED BY <1>2, <1>3

-----------------------------------------------------------------------------
(* Paths: the steps that leave the files alone.                            *)

\* Slot p gets record t, which is not the slot of a process that writes.
LEMMA QuietStep ==
    ASSUME PathInv, NEW p \in Process, NEW t, SlotGets(p, t),
           t.stage \notin {"writing", "renaming"}, UNCHANGED <<file, tmp>>
    PROVE  PathInv'
  <1>1. SlotsInv' /\ \A q \in Process : slot'[q] = IF q = p THEN t ELSE slot[q]
    BY SlotsStep DEF PathInv
  <1>2. FilesShaped'
    BY DEF PathInv, FilesShaped, ContentShaped, StateShaped
  <1>3. TmpIsOwn'
    BY <1>1 DEF PathInv, TmpIsOwn, SlotGets
  <1>4. FileWhole'
    BY DEF PathInv, FileWhole, SlotGets
  <1> QED BY <1>1, <1>2, <1>3, <1>4 DEF PathInv

\* A process or call that goes on, in a stage that has no file open.
LEMMA GoesOn ==
    ASSUME PathInv, NEW p \in Process, NEW t,
           IsBusy(slot[p]) \/ ~IsBusy(t), t.dev = slot[p].dev \/ ~IsBusy(t),
           SlotShaped(t), t.stage \notin {"writing", "renaming"},
           slot' = [slot EXCEPT ![p] = t], overlapped \subseteq overlapped',
           UNCHANGED <<file, tmp>>
    PROVE  PathInv'
  <1>1. SlotGets(p, t)
    BY DEF SlotGets
  <1> QED BY <1>1, QuietStep

\* One that starts, or is busy again, beside whoever NoteOverlap looks at.
LEMMA StartsQuietly ==
    ASSUME PathInv, NEW p \in Process, NEW t, SlotShaped(t),
           t.stage \notin {"writing", "renaming"},
           slot' = [slot EXCEPT ![p] = t], NoteOverlap(p, t.dev),
           UNCHANGED <<file, tmp>>
    PROVE  PathInv'
  <1>1. SlotGets(p, t)
    BY StartStep DEF PathInv
  <1> QED BY <1>1, QuietStep

LEMMA EndsQuietly ==
    ASSUME PathInv, NEW p \in Process, slot' = [slot EXCEPT ![p] = Idle],
           UNCHANGED <<file, tmp, overlapped>>
    PROVE  PathInv'
  BY GoesOn, IdleShaped

-----------------------------------------------------------------------------
(* Paths: the actions.                                                     *)

LEMMA InitPath == Init => PathInv
  <1> SUFFICES ASSUME Init PROVE PathInv
    OBVIOUS
  <1>1. SlotsInv
    <2>1. slot = [p \in Process |-> slot[p]] /\ \A p \in Process : slot[p] = Idle
      BY DEF Init
    <2> QED BY <2>1, IdleShaped DEF SlotsInv, OneAtATime
  <1>2. FilesShaped
    <2>1. ASSUME NEW d \in Device
          PROVE  /\ ContentShaped(Bad("absent"))
                 /\ ContentShaped(Marshalled(Fresh(d)))
      BY DEF ContentShaped, StateShaped, Bad, NoState, Fresh, Marshalled
    <2> QED BY <2>1 DEF Init, FilesShaped
  <1>3. TmpIsOwn
    BY DEF Init, TmpIsOwn, Idle
  <1>4. FileWhole
    BY DEF Init, FileWhole, Marshalled, Bad
  <1> QED BY <1>1, <1>2, <1>3, <1>4 DEF PathInv

LEMMA StartPath ==
    ASSUME PathInv, NEW p \in Process, NEW d \in Device,
           StartInit(p, d) \/ StartSend(p, d) \/ StartListen(p, d)
    PROVE  PathInv'
  <1>0. UNCHANGED <<file, tmp>> /\ SlotsInv /\ FilesShaped
    BY DEF StartInit, StartSend, StartListen, PathInv
  <1>1. CASE StartInit(p, d)
    BY <1>0, <1>1, StartInitSlot, StartsQuietly DEF Gets
  <1>2. CASE StartSend(p, d)
    BY <1>0, <1>2, StartSendSlot, StartsQuietly DEF Gets
  <1>3. CASE StartListen(p, d)
    <2>1. PICK t : /\ Gets(p, t) /\ t.stage = "listening" /\ t.dev = d
                   /\ IF d \in Cli THEN NoteOverlap(p, t.dev) ELSE UNCHANGED overlapped
      BY <1>0, <1>3, StartListenSlot
    <2>2. CASE d \in Cli
      BY <1>0, <2>1, <2>2, StartsQuietly DEF Gets
    <2>3. CASE d \notin Cli
      <3>1. ~IsBusy(t)
        BY <2>1, <2>3 DEF IsBusy
      <3> QED BY <1>0, <2>1, <2>3, <3>1, GoesOn DEF Gets
    <2> QED BY <2>2, <2>3
  <1> QED BY <1>1, <1>2, <1>3

\* A busy slot that moves to a stage without a file, or ends.
LEMMA MovesQuietly ==
    ASSUME PathInv, NEW p \in Process, IsBusy(slot[p]), NEW t, NEW next,
           Moves(p, t, next) \/ (Gets(p, t) /\ t = Idle),
           next \notin {"writing", "renaming"}, UNCHANGED <<file, tmp, overlapped>>
    PROVE  PathInv'
  BY GoesOn, EndsQuietly DEF Moves, Gets

LEMMA RegisterPath ==
    ASSUME PathInv, NEW p \in Process, Register(p)
    PROVE  PathInv'
  <1>1. UNCHANGED <<file, tmp, overlapped>> /\ SlotsInv
    BY DEF Register, PathInv
  <1> QED BY <1>1, RegisterSlot, MovesQuietly

LEMMA SealPath ==
    ASSUME PathInv, NEW p \in Process, Seal(p) \/ SealFirst(p)
    PROVE  PathInv'
  <1>1. /\ UNCHANGED <<file, tmp, overlapped>> /\ SlotsInv /\ slot[p].stage = "loaded"
        /\ \E s, fresh, handshake : SealIn(p, s, fresh, handshake)
    BY DEF Seal, SealFirst, PathInv
  <1>2. IsBusy(slot[p]) /\ \E t : Moves(p, t, "posting")
    BY <1>1, SealInSlot DEF SealsInto
  <1> QED BY <1>1, <1>2, MovesQuietly

LEMMA PostPath ==
    ASSUME PathInv, NEW p \in Process, Post(p)
    PROVE  PathInv'
  <1>1. UNCHANGED <<file, tmp, overlapped>> /\ SlotsInv
    BY DEF Post, PathInv
  <1> QED BY <1>1, PostSlot, MovesQuietly

LEMMA ReadEnvelopePath ==
    ASSUME PathInv, NEW p \in Process, ReadEnvelope(p)
    PROVE  PathInv'
  <1>1. UNCHANGED <<file, tmp>> /\ SlotsInv /\ FilesShaped
    BY DEF ReadEnvelope, PathInv
  <1>2. PICK t : /\ Gets(p, t) /\ t.stage \in {"listening", "printing", "saving"}
                 /\ NoteOverlap(p, t.dev)
    BY <1>1, ReadEnvelopeSlot DEF Handled, Moves
  <1> QED BY <1>1, <1>2, StartsQuietly DEF Gets

LEMMA PrintTextPath ==
    ASSUME PathInv, NEW p \in Process, PrintText(p)
    PROVE  PathInv'
  <1>1. UNCHANGED <<file, tmp, overlapped>> /\ SlotsInv
    BY DEF PrintText, PathInv
  <1> QED BY <1>1, PrintTextSlot, MovesQuietly

LEMMA LoseAnswerPath ==
    ASSUME PathInv, NEW p \in Process, LoseAnswer(p)
    PROVE  PathInv'
  <1>1. UNCHANGED <<file, tmp, overlapped>> /\ SlotsInv
    BY DEF LoseAnswer, PathInv
  <1> QED BY <1>1, LoseAnswerSlot, MovesQuietly

\* The other steps that end a process or a call.
LEMMA EndsPath ==
    ASSUME PathInv, NEW p \in Process, Disconnect(p) \/ RenameFails(p) \/ Crash(p)
    PROVE  PathInv'
  <1>1. slot' = [slot EXCEPT ![p] = Idle] /\ UNCHANGED <<file, tmp, overlapped>>
    BY DEF Disconnect, RenameFails, Crash, End
  <1> QED BY <1>1, EndsQuietly

-----------------------------------------------------------------------------
(* Paths: the steps that change the files.                                 *)

\* Nobody else has the temporary file of a device while it is saving.
LEMMA SavesAlone ==
    ASSUME PathInv, NEW p \in Process, IsBusy(slot[p]), NEW q \in Process,
           slot[q].stage \in {"writing", "renaming"}, slot[q].dev = slot[p].dev,
           slot[p].dev \notin overlapped
    PROVE  q = p
  BY DEF PathInv, SlotsInv, SlotShaped, OneAtATime, IsBusy

LEMMA MarshalledShaped ==
    ASSUME NEW st, StateShaped(st)
    PROVE  ContentShaped(Marshalled(st)) /\ Marshalled(st).form = "whole"
  BY DEF Marshalled, ContentShaped, StateShaped

LEMMA BadShaped ==
    ASSUME NEW form
    PROVE  ContentShaped(Bad(form)) /\ Bad(form).form = form
  BY DEF Bad, ContentShaped, StateShaped, NoState, Fresh

LEMMA OpenTmpPath ==
    ASSUME PathInv, NEW p \in Process, OpenTmp(p)
    PROVE  PathInv'
  <1> DEFINE d == slot[p].dev
  <1>1. SlotShaped(slot[p]) /\ IsBusy(slot[p]) /\ d \in Device
    BY OpenTmpSlot DEF PathInv, SlotShaped
  <1>2. tmp' = [tmp EXCEPT ![d] = Bad("empty")] /\ UNCHANGED <<file, overlapped>>
    BY DEF OpenTmp
  <1>3. PICK t : Moves(p, t, "writing") /\ t.handle = "tmp"
    BY OpenTmpSlot DEF PathInv
  <1>4. SlotsInv' /\ \A q \in Process : slot'[q] = IF q = p THEN t ELSE slot[q]
    BY <1>1, <1>2, <1>3, SlotsStep DEF PathInv, SlotGets, Moves, Gets
  <1>5. FilesShaped'
    BY <1>2, BadShaped DEF PathInv, FilesShaped, ContentShaped, StateShaped
  <1>6. TmpIsOwn'
    <2> SUFFICES ASSUME NEW q \in Process, slot[q]'.dev \notin overlapped'
                 PROVE  /\ slot[q]'.stage = "writing" =>
                             slot[q]'.handle = "tmp" /\ tmp'[slot[q]'.dev].form = "empty"
                        /\ slot[q]'.stage = "renaming" => tmp'[slot[q]'.dev].form = "whole"
      BY DEF TmpIsOwn
    <2>1. CASE q = p
      BY <2>1, <1>1, <1>2, <1>3, <1>4, BadShaped DEF PathInv, FilesShaped, Moves
    <2>2. CASE q # p /\ slot[q].dev # d
      BY <2>2, <1>2, <1>4 DEF PathInv, FilesShaped, TmpIsOwn
    <2>3. CASE q # p /\ slot[q].dev = d
      BY <2>3, <1>1, <1>2, <1>4, SavesAlone
    <2> QED BY <2>1, <2>2, <2>3
  <1>7. FileWhole'
    BY <1>2 DEF PathInv, FileWhole
  <1> QED BY <1>4, <1>5, <1>6, <1>7 DEF PathInv

LEMMA WrittenShaped ==
    ASSUME NEW old, NEW st, StateShaped(st), NEW c \in Written(old, st)
    PROVE  ContentShaped(c) /\ (old.form = "empty" => c.form = "whole")
  <1>1. c = Marshalled(st) \/ (old.form # "empty" /\ c = Bad("torn"))
    BY Zenon DEF Written
  <1> QED BY <1>1, MarshalledShaped, BadShaped

LEMMA WriteTmpPath ==
    ASSUME PathInv, NEW p \in Process, WriteTmp(p)
    PROVE  PathInv'
  <1> DEFINE d == slot[p].dev
  <1>1. SlotShaped(slot[p]) /\ slot[p].stage = "writing" /\ IsBusy(slot[p])
        /\ d \in Device /\ d \in Cli /\ StateShaped(slot[p].mem)
    BY WriteTmpSlot DEF WriteTmp, PathInv, SlotShaped
  <1>2. overlapped' = overlapped
    BY DEF WriteTmp
  <1>3. PICK t : Moves(p, t, "renaming")
    BY WriteTmpSlot DEF PathInv
  <1>4. SlotsInv' /\ \A q \in Process : slot'[q] = IF q = p THEN t ELSE slot[q]
    BY <1>1, <1>2, <1>3, SlotsStep DEF PathInv, SlotGets, Moves, Gets
  <1>5. PICK c :
          /\ ContentShaped(c)
          /\ \/ /\ tmp' = [tmp EXCEPT ![d] = c] /\ UNCHANGED file
                /\ tmp[d].form = "empty" => c.form = "whole"
             \/ /\ file' = [file EXCEPT ![d] = c] /\ UNCHANGED tmp
                /\ slot[p].handle = "file"
             \/ UNCHANGED <<file, tmp>> /\ slot[p].handle = "gone"
    <2>1. CASE slot[p].handle = "tmp"
      <3>1. PICK c \in Written(tmp[d], slot[p].mem) : tmp' = [tmp EXCEPT ![d] = c]
        BY <2>1 DEF WriteTmp
      <3>2. UNCHANGED file
        BY <2>1 DEF WriteTmp
      <3> QED BY <3>1, <3>2, <1>1, WrittenShaped
    <2>2. CASE slot[p].handle = "file"
      <3>1. PICK c \in Written(file[d], slot[p].mem) : file' = [file EXCEPT ![d] = c]
        BY <2>2 DEF WriteTmp
      <3>2. UNCHANGED tmp
        BY <2>2 DEF WriteTmp
      <3> QED BY <3>1, <3>2, <2>2, <1>1, WrittenShaped
    <2>3. CASE slot[p].handle = "gone"
      <3>1. UNCHANGED <<file, tmp>>
        BY <2>3 DEF WriteTmp
      <3> QED BY <3>1, <2>3, BadShaped
    <2>4. slot[p].handle \in {"tmp", "file", "gone"}
      BY DEF WriteTmp
    <2> QED BY <2>1, <2>2, <2>3, <2>4
  <1>6. FilesShaped'
    BY <1>1, <1>5 DEF PathInv, FilesShaped, ContentShaped, StateShaped
  <1>7. d \notin overlapped => /\ slot[p].handle = "tmp" /\ tmp[d].form = "empty"
    BY <1>1 DEF PathInv, TmpIsOwn
  <1>8. TmpIsOwn'
    <2> SUFFICES ASSUME NEW q \in Process, slot[q]'.dev \notin overlapped'
                 PROVE  /\ slot[q]'.stage = "writing" =>
                             slot[q]'.handle = "tmp" /\ tmp'[slot[q]'.dev].form = "empty"
                        /\ slot[q]'.stage = "renaming" => tmp'[slot[q]'.dev].form = "whole"
      BY DEF TmpIsOwn
    <2>1. CASE q = p
      BY <2>1, <1>1, <1>2, <1>3, <1>4, <1>5, <1>7 DEF PathInv, FilesShaped, Moves
    <2>2. CASE q # p /\ slot[q].dev # d
      <3>1. slot[q].dev \in Device /\ slot'[q] = slot[q]
        BY <2>2, <1>4 DEF PathInv, SlotsInv, SlotShaped
      <3>2. tmp'[slot[q].dev] = tmp[slot[q].dev]
        BY <2>2, <3>1, <1>5 DEF PathInv, FilesShaped
      <3> QED BY <3>1, <3>2, <1>2 DEF PathInv, TmpIsOwn
    <2>3. CASE q # p /\ slot[q].dev = d
      BY <2>3, <1>1, <1>2, <1>4, SavesAlone
    <2> QED BY <2>1, <2>2, <2>3
  <1>9. FileWhole'
    BY <1>1, <1>2, <1>5, <1>7 DEF PathInv, FileWhole, FilesShaped
  <1> QED BY <1>4, <1>6, <1>8, <1>9 DEF PathInv

LEMMA RenamePath ==
    ASSUME PathInv, NEW p \in Process, Rename(p)
    PROVE  PathInv'
  <1> DEFINE d == slot[p].dev
  <1>1. SlotShaped(slot[p]) /\ slot[p].stage = "renaming" /\ IsBusy(slot[p])
        /\ d \in Device /\ d \in Cli
    BY RenameSlots DEF Rename, PathInv, SlotShaped
  <1>2. /\ file' = [file EXCEPT ![d] = tmp[d]]
        /\ tmp' = [tmp EXCEPT ![d] = Bad("absent")] /\ overlapped' = overlapped
    BY DEF Rename
  <1>5. /\ \A q \in Process : SlotShaped(slot'[q])
        /\ \A q \in Process \ {p} : /\ slot'[q].stage = slot[q].stage
                                    /\ slot'[q].dev = slot[q].dev
                                    /\ slot[q].dev # d => slot'[q] = slot[q]
        /\ slot'[p].stage \in {"idle", "listening"}
        /\ slot'[p].stage = "listening" => slot'[p].dev = d
        /\ slot' = [q \in Process |-> slot'[q]]
    BY RenameSlots, IdleShaped DEF PathInv
  <1>6. OneAtATime'
    <2>1. \A q \in Process : IsBusy(slot'[q]) =>
             IsBusy(slot[q]) /\ slot'[q].dev = slot[q].dev
      BY <1>1, <1>5 DEF IsBusy
    <2> QED BY <2>1, <1>2 DEF PathInv, SlotsInv, OneAtATime, IsBusy
  <1>7. SlotsInv'
    BY <1>5, <1>6 DEF SlotsInv, SlotShaped, StateShaped
  <1>8. FilesShaped'
    BY <1>1, <1>2, BadShaped DEF PathInv, FilesShaped, ContentShaped, StateShaped
  <1>9. TmpIsOwn'
    <2> SUFFICES ASSUME NEW q \in Process, slot[q]'.dev \notin overlapped',
                        slot[q]'.stage \in {"writing", "renaming"}
                 PROVE  /\ slot[q]'.stage = "writing" =>
                             slot[q]'.handle = "tmp" /\ tmp'[slot[q]'.dev].form = "empty"
                        /\ slot[q]'.stage = "renaming" => tmp'[slot[q]'.dev].form = "whole"
      BY DEF TmpIsOwn
    <2>1. q # p
      BY <1>5
    <2>2. slot[q].dev # d
      BY <2>1, <1>1, <1>2, <1>5, SavesAlone
    <2>3. slot'[q] = slot[q]
      BY <2>1, <2>2, <1>5
    <2> QED BY <2>2, <2>3, <1>2 DEF PathInv, FilesShaped, TmpIsOwn
  <1>10. FileWhole'
    <2>1. d \notin overlapped => tmp[d].form = "whole"
      BY <1>1 DEF PathInv, TmpIsOwn
    <2> QED BY <2>1, <1>1, <1>2 DEF PathInv, FileWhole, FilesShaped
  <1> QED BY <1>7, <1>8, <1>9, <1>10 DEF PathInv

LEMMA ReturnsPath ==
    ASSUME PathInv, NEW p \in Process,
           ClientInitReturns(p) \/ ClientSendReturns(p) \/ ClientEnvelopeReturns(p)
    PROVE  PathInv'
  <1> DEFINE d == slot[p].dev
  <1>1. PICK t : /\ Gets(p, t) /\ t.stage \in {"idle", "listening"}
                 /\ t.stage = "listening" => t.dev = d
    BY ReturnsSlot, IdleShaped DEF Moves, PathInv
  <1>2. /\ d \notin Cli /\ slot[p].stage = "saving" /\ UNCHANGED <<tmp, overlapped>>
        /\ file' = [file EXCEPT ![d] = Marshalled(slot[p].mem)]
    BY DEF ClientInitReturns, ClientSendReturns, ClientEnvelopeReturns, Returns
  <1>3. SlotShaped(slot[p]) /\ IsBusy(slot[p]) /\ d \in Device
    BY ReturnsSlot DEF PathInv, SlotShaped
  <1>4. SlotsInv' /\ \A q \in Process : slot'[q] = IF q = p THEN t ELSE slot[q]
    BY <1>1, <1>2, <1>3, SlotsStep DEF PathInv, SlotGets, IsBusy, Gets
  <1>5. FilesShaped'
    BY <1>2, <1>3, MarshalledShaped
    DEF PathInv, FilesShaped, ContentShaped, StateShaped, SlotShaped
  <1>6. TmpIsOwn'
    BY <1>1, <1>2, <1>4 DEF PathInv, TmpIsOwn
  <1>7. FileWhole'
    BY <1>2, <1>3, MarshalledShaped
    DEF PathInv, FileWhole, FilesShaped, SlotShaped
  <1> QED BY <1>4, <1>5, <1>6, <1>7 DEF PathInv

-----------------------------------------------------------------------------

LEMMA PathStep ==
    ASSUME PathInv, [Next]_vars
    PROVE  PathInv'
  <1>1. ASSUME NEW p \in Process, NEW d \in Device,
               StartInit(p, d) \/ StartSend(p, d) \/ StartListen(p, d)
        PROVE  PathInv'
    BY <1>1, StartPath
  <1>4. ASSUME NEW p \in Process, Register(p)
        PROVE  PathInv'
    BY <1>4, RegisterPath
  <1>5. ASSUME NEW p \in Process, Seal(p) \/ SealFirst(p)
        PROVE  PathInv'
    BY <1>5, SealPath
  <1>7. ASSUME NEW p \in Process, Post(p)
        PROVE  PathInv'
    BY <1>7, PostPath
  <1>8. ASSUME NEW p \in Process, ReadEnvelope(p)
        PROVE  PathInv'
    BY <1>8, ReadEnvelopePath
  <1>9. ASSUME NEW p \in Process, PrintText(p)
        PROVE  PathInv'
    BY <1>9, PrintTextPath
  <1>10. ASSUME NEW p \in Process, Disconnect(p) \/ RenameFails(p) \/ Crash(p)
         PROVE  PathInv'
    BY <1>10, EndsPath
  <1>11. ASSUME NEW p \in Process, LoseAnswer(p)
         PROVE  PathInv'
    BY <1>11, LoseAnswerPath
  <1>12. ASSUME NEW p \in Process, OpenTmp(p)
         PROVE  PathInv'
    BY <1>12, OpenTmpPath
  <1>13. ASSUME NEW p \in Process, WriteTmp(p)
         PROVE  PathInv'
    BY <1>13, WriteTmpPath
  <1>14. ASSUME NEW p \in Process, Rename(p)
         PROVE  PathInv'
    BY <1>14, RenamePath
  <1>15. ASSUME NEW p \in Process, ClientInitReturns(p) \/ ClientSendReturns(p)
                                   \/ ClientEnvelopeReturns(p)
         PROVE  PathInv'
    BY <1>15, ReturnsPath
  <1>16. ASSUME UNCHANGED vars PROVE PathInv'
    BY <1>16 DEF vars, PathInv, SlotsInv, SlotShaped, StateShaped, OneAtATime, IsBusy,
                 FilesShaped, ContentShaped, TmpIsOwn, FileWhole
  <1> QED
    BY <1>1, <1>4, <1>5, <1>7, <1>8, <1>9, <1>10, <1>11, <1>12,
       <1>13, <1>14, <1>15, <1>16 DEF Next

\* However processes and calls of a device end, its state path names a whole
\* state or nothing (saveState writes beside the file and renames), for every
\* number of them, unless two of the device ran at a time.
THEOREM StateFileIsWhole == Spec => []FileWhole
  <1>1. Spec => []PathInv
    BY InitPath, PathStep, PTL DEF Spec
  <1>2. PathInv => FileWhole
    BY DEF PathInv
  <1> QED BY <1>1, <1>2, PTL

-----------------------------------------------------------------------------
(* Prekeys: what is registered is what is kept.                            *)

\* Process p has registered the prekey that the Keys service has of d.
Registers(p, d) ==
    /\ slot[p].dev = d /\ slot[p].cmd = "init"
    /\ slot[p].stage \notin {"idle", "registering"}
    /\ slot[p].mem.prekey = registered[d]

\* What a command knows of the state path while it runs alone.
SlotHeld(p) ==
    LET d == slot[p].dev
    IN  /\ slot[p].cmd = "init" => /\ d \in Cli => file[d].form = "absent"
                                   /\ slot[p].stage # "registering" => Registers(p, d)
        /\ slot[p].cmd # "init" => file[d].form = "whole"
        /\ slot[p].cmd # "init" /\ IsBusy(slot[p]) =>
              slot[p].mem.prekey = file[d].state.prekey
        /\ slot[p].stage = "renaming" => tmp[d].state.prekey = slot[p].mem.prekey

Sound(d) == d \notin overlapped /\ <<d, "init">> \notin cut

\* The endpoints may init a device that has a state.
FileHeld(d) ==
    file[d].form = "whole" \/ registered[d] # NoKey =>
        \/ file[d].form = "whole" /\ file[d].state.prekey = registered[d]
        \/ \E p \in Process : Registers(p, d)

HeldInv ==
    /\ registered = [d \in Device |-> registered[d]]
    /\ \A d \in Device : Sound(d) => FileHeld(d)
    /\ \A p \in Process : slot[p].stage # "idle" /\ Sound(slot[p].dev) => SlotHeld(p)

\* A step of slot p that leaves the files and the Keys service alone.
LEMMA HeldQuietly ==
    ASSUME PathInv, HeldInv, NEW p \in Process, NEW t, Gets(p, t),
           UNCHANGED <<file, tmp, registered>>,
           overlapped \subseteq overlapped', cut \subseteq cut',
           t.stage # "idle" /\ Sound(t.dev)' => SlotHeld(p)',
           \A d \in Device : Registers(p, d) /\ Sound(d)' => Registers(p, d)'
    PROVE  HeldInv'
  <1>1. slot'[p] = t /\ \A q \in Process \ {p} : slot'[q] = slot[q]
    BY DEF Gets, PathInv, SlotsInv
  <1>2. \A d \in Device : Sound(d)' => Sound(d)
    BY DEF Sound
  <1>3. ASSUME NEW d \in Device, Sound(d)'
        PROVE  FileHeld(d)'
    <2>1. FileHeld(d)
      BY <1>2, <1>3 DEF HeldInv
    <2>2. \A q \in Process : Registers(q, d) => Registers(q, d)'
      BY <1>1, <1>3 DEF Registers
    <2> QED BY <2>1, <2>2 DEF FileHeld
  <1>4. ASSUME NEW q \in Process, slot[q]'.stage # "idle", Sound(slot[q].dev)'
        PROVE  SlotHeld(q)'
    <2>1. CASE q = p
      BY <2>1, <1>1, <1>4 DEF Sound
    <2>2. CASE q # p
      <3>1. slot'[q] = slot[q] /\ Sound(slot[q].dev)
        BY <1>1, <1>4, <2>2 DEF Sound
      <3>2. SlotHeld(q)
        BY <3>1, <1>4 DEF HeldInv
      <3> QED BY <3>1, <3>2 DEF SlotHeld, Registers
    <2> QED BY <2>1, <2>2
  <1>5. (registered = [d \in Device |-> registered[d]])'
    BY DEF HeldInv
  <1> QED BY <1>3, <1>4, <1>5 DEF HeldInv

\* A step of busy slot p that may change what belongs to its device.
LEMMA HeldAlone ==
    ASSUME PathInv, HeldInv, NEW p \in Process, IsBusy(slot[p]),
           NEW d \in Device, slot[p].dev = d,
           slot'[p].stage # "idle" => slot'[p].dev = d,
           \A q \in Process \ {p} :
              /\ slot'[q].stage = slot[q].stage /\ slot'[q].cmd = slot[q].cmd
              /\ slot'[q].dev = slot[q].dev /\ slot'[q].mem = slot[q].mem,
           \A e \in Device \ {d} :
              file'[e] = file[e] /\ tmp'[e] = tmp[e] /\ registered'[e] = registered[e],
           registered' = [e \in Device |-> registered'[e]],
           overlapped' = overlapped, cut \subseteq cut',
           Sound(d)' => /\ FileHeld(d)'
                        /\ slot'[p].stage # "idle" => SlotHeld(p)'
                        /\ file[d].form = "whole" => file'[d].form = "whole"
    PROVE  HeldInv'
  <1>1. \A e \in Device : Sound(e)' => Sound(e)
    BY DEF Sound
  <1>2. ASSUME NEW e \in Device, Sound(e)'
        PROVE  FileHeld(e)'
    <2>1. CASE e = d
      BY <2>1, <1>2 DEF Sound
    <2>2. CASE e # d
      <3>1. FileHeld(e)
        BY <1>1, <1>2 DEF HeldInv
      <3>2. \A q \in Process : Registers(q, e) => Registers(q, e)'
        BY <2>2 DEF Registers
      <3> QED BY <2>2, <3>1, <3>2 DEF FileHeld
    <2> QED BY <2>1, <2>2
  <1>3. ASSUME NEW q \in Process, slot[q]'.stage # "idle", Sound(slot[q].dev)'
        PROVE  SlotHeld(q)'
    <2>1. CASE q = p
      BY <2>1, <1>3 DEF Sound
    <2>2. CASE q # p /\ slot[q].dev # d
      <3>1. slot[q].dev \in Device /\ Sound(slot[q].dev)
        BY <1>1, <1>3, <2>2 DEF PathInv, SlotsInv, SlotShaped, Sound
      <3>2. SlotHeld(q)
        BY <3>1, <1>3, <2>2 DEF HeldInv
      <3> QED BY <2>2, <3>1, <3>2 DEF SlotHeld, Registers, IsBusy
    <2>3. CASE q # p /\ slot[q].dev = d
      <3>1. Sound(d)' /\ Sound(d) /\ slot[q].stage # "idle" /\ SlotHeld(q)
        BY <2>3, <1>3 DEF HeldInv, Sound
      <3>2. ~IsBusy(slot[q])
        BY <2>3, <3>1 DEF PathInv, SlotsInv, OneAtATime, Sound
      <3>3. slot[q].stage = "listening" /\ d \notin Cli
        BY <3>1, <3>2, <2>3 DEF IsBusy
      <3>4. slot[q].cmd = "listen"
        BY <3>3 DEF PathInv, SlotsInv, SlotShaped, StageOf, Command
      <3> QED BY <2>3, <3>1, <3>3, <3>4 DEF SlotHeld, IsBusy
    <2> QED BY <2>1, <2>2, <2>3
  <1> QED BY <1>2, <1>3 DEF HeldInv

LEMMA InitHeld == Init => HeldInv
  <1> SUFFICES ASSUME Init PROVE HeldInv
    OBVIOUS
  <1>1. registered = [d \in Device |-> registered[d]]
    BY DEF Init
  <1>2. ASSUME NEW d \in Device PROVE FileHeld(d)
    <2>1. CASE d \in Enrolled
      BY <2>1 DEF Init, FileHeld, Marshalled, Fresh
    <2>2. CASE d \notin Enrolled
      BY <2>2 DEF Init, FileHeld, Bad
    <2> QED BY <2>1, <2>2
  <1>3. \A p \in Process : slot[p].stage = "idle"
    BY DEF Init, Idle
  <1> QED BY <1>1, <1>2, <1>3 DEF HeldInv

LEMMA StartHeld ==
    ASSUME PathInv, HeldInv, NEW p \in Process, NEW d \in Device,
           StartInit(p, d) \/ StartSend(p, d) \/ StartListen(p, d)
    PROVE  HeldInv'
  <1>1. /\ UNCHANGED <<file, tmp, registered, cut>> /\ SlotsInv /\ FilesShaped
        /\ overlapped \subseteq overlapped' /\ slot[p].stage = "idle"
    BY DEF StartInit, StartSend, StartListen, Start, NoteOverlap, PathInv
  <1> DEFINE Started(t) ==
               /\ Gets(p, t) /\ t.dev = d
               /\ \/ /\ t.stage = "registering" /\ t.cmd = "init"
                     /\ d \in Cli => file[d].form = "absent"
                  \/ /\ t.stage \in {"loaded", "listening"} /\ t.cmd # "init"
                     /\ file[d].form = "whole"
                     /\ IsBusy(t) => t.mem = file[d].state
  <1>2. \E t : Started(t)
    <2>1. CASE StartInit(p, d)
      <3>1. PICK t : /\ Gets(p, t) /\ t.stage = "registering" /\ t.cmd = "init"
                     /\ t.dev = d
        BY <2>1, <1>1, StartInitSlot
      <3>2. Started(t)
        BY <2>1, <3>1 DEF StartInit
      <3> QED BY <3>2
    <2>2. CASE StartSend(p, d)
      <3>1. PICK t : /\ Gets(p, t) /\ t.stage = "loaded" /\ t.cmd = "send"
                     /\ t.dev = d /\ t.mem = file[d].state
        BY <2>2, <1>1, StartSendSlot
      <3>2. Started(t)
        BY <2>2, <3>1 DEF StartSend, Loads
      <3> QED BY <3>2
    <2>3. CASE StartListen(p, d)
      <3>1. PICK t : /\ Gets(p, t) /\ t.stage = "listening" /\ t.cmd = "listen"
                     /\ t.dev = d /\ t.mem = IF d \in Cli THEN file[d].state ELSE NoState
        BY <2>3, <1>1, StartListenSlot
      <3>2. Started(t)
        BY <2>3, <3>1 DEF StartListen, Loads, IsBusy
      <3> QED BY <3>2
    <2> QED BY <2>1, <2>2, <2>3
  <1>3. PICK t : Started(t)
    BY <1>2
  <1>4. slot'[p] = t
    BY <1>1, <1>3 DEF Gets, SlotsInv
  <1>5. SlotHeld(p)'
    BY <1>1, <1>3, <1>4 DEF SlotHeld, IsBusy
  <1> QED BY <1>1, <1>3, <1>5, HeldQuietly DEF Registers

\* A slot whose command goes on with the prekey it has, renaming nothing yet.
LEMMA HeldMoves ==
    ASSUME PathInv, HeldInv, NEW p \in Process, NEW t, NEW next,
           Moves(p, t, next), next \notin {"idle", "renaming", "registering"},
           slot[p].cmd # "init", slot[p].stage # "idle",
           IsBusy(t) => \/ IsBusy(slot[p]) /\ t.mem.prekey = slot[p].mem.prekey
                        \/ t.mem.prekey = file[slot[p].dev].state.prekey,
           UNCHANGED <<file, tmp, registered>>,
           overlapped \subseteq overlapped', cut \subseteq cut'
    PROVE  HeldInv'
  <1>1. slot'[p] = t /\ Gets(p, t) /\ t.dev = slot[p].dev /\ t.cmd # "init"
        /\ t.stage # "renaming"
    BY DEF Moves, Gets, PathInv, SlotsInv
  <1>2. ASSUME Sound(t.dev)' PROVE SlotHeld(p)'
    <2>1. Sound(slot[p].dev)
      BY <1>1, <1>2 DEF Sound
    <2>2. SlotHeld(p)
      BY <2>1 DEF HeldInv
    <2> QED BY <2>2, <1>1 DEF SlotHeld
  <1> QED BY <1>1, <1>2, HeldQuietly DEF Registers

\* A slot that ends, once it is noted if it had registered.
LEMMA HeldEnds ==
    ASSUME PathInv, HeldInv, NEW p \in Process, Gets(p, Idle),
           \/ slot[p].cmd # "init" \/ slot[p].stage = "registering"
           \/ <<slot[p].dev, "init">> \in cut',
           UNCHANGED <<file, tmp, registered, overlapped>>, cut \subseteq cut'
    PROVE  HeldInv'
  BY IdleShaped, HeldQuietly DEF Registers, Sound

LEMMA RegisterHeld ==
    ASSUME PathInv, HeldInv, NEW p \in Process, Register(p)
    PROVE  HeldInv'
  <1> PICK d \in Device : slot[p].dev = d
    BY DEF PathInv, SlotsInv, SlotShaped
  <1>1. /\ UNCHANGED <<file, tmp, overlapped>> /\ SlotsInv
        /\ registered' = [registered EXCEPT ![d] = slot[p].mem.prekey]
        /\ slot[p].stage = "registering"
    BY DEF Register, PathInv
  <1>2. SlotShaped(slot[p]) /\ IsBusy(slot[p]) /\ slot[p].cmd = "init" /\ d \in Device
    BY <1>1, RegisterSlot DEF SlotShaped
  <1>3. PICK t : /\ Gets(p, t)
                 /\ \/ Moves(p, t, "saving") /\ t.mem = slot[p].mem /\ cut' = cut
                    \/ t = Idle /\ cut' = cut \cup {<<d, "init">>}
    BY <1>1, RegisterSlot DEF Moves
  <1>4. slot'[p] = t /\ \A q \in Process \ {p} : slot'[q] = slot[q]
    BY <1>1, <1>3 DEF Gets, SlotsInv
  <1>5. registered'[d] = slot[p].mem.prekey /\ registered' = [e \in Device |-> registered'[e]]
        /\ \A e \in Device \ {d} : registered'[e] = registered[e]
    BY <1>1, <1>2 DEF HeldInv
  <1>6. ASSUME Sound(d)' PROVE FileHeld(d)' /\ SlotHeld(p)'
    <2>1. Moves(p, t, "saving") /\ t.mem = slot[p].mem /\ cut' = cut
      BY <1>3, <1>6 DEF Sound
    <2>2. SlotHeld(p)
      BY <1>1, <1>6, <2>1 DEF HeldInv, Sound
    <2>3. Registers(p, d)'
      BY <1>2, <1>4, <1>5, <2>1 DEF Registers, Moves
    <2> QED BY <1>1, <1>2, <1>4, <2>1, <2>2, <2>3 DEF SlotHeld, FileHeld, Moves
  <1>7. slot'[p].stage # "idle" => slot'[p].dev = d
    BY <1>3, <1>4, IdleShaped DEF Moves
  <1>8. cut \subseteq cut'
    BY <1>3
  <1> QED BY <1>1, <1>2, <1>4, <1>5, <1>6, <1>7, <1>8, HeldAlone, ZenonT(60)

LEMMA SealHeld ==
    ASSUME PathInv, HeldInv, NEW p \in Process, Seal(p) \/ SealFirst(p)
    PROVE  HeldInv'
  <1>1. /\ UNCHANGED <<file, tmp, registered, overlapped, cut>> /\ SlotsInv
        /\ slot[p].stage = "loaded" /\ \E s, fresh, handshake : SealIn(p, s, fresh, handshake)
    BY DEF Seal, SealFirst, PathInv
  <1>2. PICK t : Moves(p, t, "posting") /\ t.mem.prekey = slot[p].mem.prekey
    BY <1>1, SealInSlot DEF SealsInto
  <1>3. IsBusy(slot[p]) /\ slot[p].cmd # "init"
    BY <1>1, SealInSlot
  <1> QED BY <1>1, <1>2, <1>3, HeldMoves

LEMMA PostHeld ==
    ASSUME PathInv, HeldInv, NEW p \in Process, Post(p)
    PROVE  HeldInv'
  <1>1. /\ UNCHANGED <<file, tmp, registered, overlapped>> /\ SlotsInv
        /\ slot[p].stage = "posting"
    BY DEF Post, PathInv
  <1>2. IsBusy(slot[p]) /\ slot[p].cmd # "init" /\ cut \subseteq cut'
    BY <1>1, PostSlot
  <1>3. CASE \E t : Moves(p, t, "saving") /\ t.mem = slot[p].mem
    BY <1>1, <1>2, <1>3, HeldMoves
  <1>4. CASE Gets(p, Idle)
    BY <1>1, <1>2, <1>4, HeldEnds
  <1> QED BY <1>1, <1>3, <1>4, PostSlot

LEMMA ReadEnvelopeHeld ==
    ASSUME PathInv, HeldInv, NEW p \in Process, ReadEnvelope(p)
    PROVE  HeldInv'
  <1>1. UNCHANGED <<file, tmp, registered, cut>> /\ SlotsInv /\ FilesShaped
    BY DEF ReadEnvelope, PathInv
  <1>2. slot[p].cmd # "init" /\ slot[p].stage = "listening" /\ StateShaped(StateOf(p))
        /\ overlapped \subseteq overlapped'
    BY <1>1, ReadEnvelopeSlot DEF NoteOverlap
  <1> PICK i \in Pushed(p) : \E out \in HandleInbound(StateOf(p), sent[i]) :
              \E t : Handled(p, i, out, t)
    BY <1>1, ReadEnvelopeSlot
  <1>3. PICK out \in HandleInbound(StateOf(p), sent[i]) : \E t : Handled(p, i, out, t)
    OBVIOUS
  <1>4. PICK t : Handled(p, i, out, t)
    BY <1>3
  <1>5. out.state.prekey = StateOf(p).prekey
    BY <1>2, HandleInboundShaped
  <1>6. IsBusy(t) => \/ IsBusy(slot[p]) /\ t.mem.prekey = slot[p].mem.prekey
                     \/ t.mem.prekey = file[slot[p].dev].state.prekey
    BY <1>2, <1>4, <1>5 DEF Handled, IsBusy, StateOf, Moves
  <1>7. Moves(p, t, "listening") \/ Moves(p, t, "printing") \/ Moves(p, t, "saving")
    BY <1>4 DEF Handled
  <1> QED BY <1>1, <1>2, <1>6, <1>7, HeldMoves

LEMMA PrintTextHeld ==
    ASSUME PathInv, HeldInv, NEW p \in Process, PrintText(p)
    PROVE  HeldInv'
  <1>1. UNCHANGED <<file, tmp, registered, overlapped, cut>> /\ SlotsInv
        /\ slot[p].stage = "printing"
    BY DEF PrintText, PathInv
  <1>2. IsBusy(slot[p]) /\ slot[p].cmd # "init"
    BY <1>1, PrintTextSlot
  <1>3. PICK t : Moves(p, t, "saving") /\ t.mem = slot[p].mem
    BY <1>1, PrintTextSlot
  <1> QED BY <1>1, <1>2, <1>3, HeldMoves

LEMMA LoseAnswerHeld ==
    ASSUME PathInv, HeldInv, NEW p \in Process, LoseAnswer(p)
    PROVE  HeldInv'
  <1>1. UNCHANGED <<file, tmp, registered, overlapped, cut>> /\ SlotsInv
        /\ slot[p].stage = "saving" /\ slot[p].dev \notin Cli
    BY DEF LoseAnswer, PathInv
  <1>2. slot[p].cmd # "init"
    BY <1>1, LoseAnswerSlot
  <1>3. PICK t : Moves(p, t, "listening")
    BY <1>1, LoseAnswerSlot
  <1>4. ~IsBusy(t)
    BY <1>1, <1>3 DEF IsBusy, Moves
  <1> QED BY <1>1, <1>2, <1>3, <1>4, HeldMoves

LEMMA EndsHeld ==
    ASSUME PathInv, HeldInv, NEW p \in Process, Disconnect(p) \/ RenameFails(p) \/ Crash(p)
    PROVE  HeldInv'
  <1>1. UNCHANGED <<file, tmp, registered, overlapped>> /\ SlotsInv
    BY DEF Disconnect, RenameFails, Crash, PathInv
  <1> QED BY <1>1, EndsSlot, HeldEnds

\* Who is registering is the process that runs alone.
LEMMA RegistersAlone ==
    ASSUME PathInv, NEW p \in Process, IsBusy(slot[p]), Sound(slot[p].dev),
           NEW q \in Process, Registers(q, slot[p].dev)
    PROVE  q = p
  <1>1. slot[q].stage # "listening"
    BY DEF Registers, PathInv, SlotsInv, SlotShaped, StageOf
  <1> QED BY <1>1 DEF Registers, PathInv, SlotsInv, OneAtATime, IsBusy, Sound

LEMMA OpenTmpHeld ==
    ASSUME PathInv, HeldInv, NEW p \in Process, OpenTmp(p)
    PROVE  HeldInv'
  <1> PICK d \in Device : slot[p].dev = d
    BY DEF PathInv, SlotsInv, SlotShaped
  <1>1. /\ UNCHANGED <<file, registered, overlapped, cut>> /\ SlotsInv
        /\ tmp' = [tmp EXCEPT ![d] = Bad("empty")] /\ slot[p].stage = "saving"
    BY DEF OpenTmp, PathInv
  <1>2. PICK t : Moves(p, t, "writing") /\ t.mem = slot[p].mem
    BY <1>1, OpenTmpSlot
  <1>3. IsBusy(slot[p])
    BY <1>1, OpenTmpSlot
  <1>4. slot'[p] = t /\ \A q \in Process \ {p} : slot'[q] = slot[q]
    BY <1>1, <1>2 DEF Gets, Moves, SlotsInv
  <1>5. ASSUME Sound(d)' PROVE FileHeld(d)' /\ SlotHeld(p)'
    <2>1. Sound(d) /\ FileHeld(d) /\ SlotHeld(p)
      BY <1>1, <1>5 DEF HeldInv, Sound
    <2>2. \A q \in Process : Registers(q, d) => Registers(q, d)'
      BY <1>1, <1>2, <1>4 DEF Registers, Moves
    <2> QED BY <1>1, <1>2, <1>3, <1>4, <2>1, <2>2 DEF SlotHeld, FileHeld, Moves, IsBusy
  <1>6. \A e \in Device \ {d} : tmp'[e] = tmp[e]
    BY <1>1 DEF PathInv, FilesShaped
  <1>7. slot'[p].dev = d
    BY <1>2, <1>4 DEF Moves
  <1> QED BY <1>1, <1>3, <1>4, <1>5, <1>6, <1>7, HeldAlone DEF HeldInv

LEMMA WriteTmpHeld ==
    ASSUME PathInv, HeldInv, NEW p \in Process, WriteTmp(p)
    PROVE  HeldInv'
  <1> PICK d \in Device : slot[p].dev = d
    BY DEF PathInv, SlotsInv, SlotShaped
  <1>1. /\ UNCHANGED <<registered, overlapped, cut>> /\ SlotsInv
        /\ slot[p].stage = "writing"
        /\ \A e \in Device \ {d} : file'[e] = file[e] /\ tmp'[e] = tmp[e]
    BY DEF WriteTmp, PathInv, FilesShaped
  <1>2. PICK t : Moves(p, t, "renaming") /\ t.mem = slot[p].mem
    BY <1>1, WriteTmpSlot
  <1>3. IsBusy(slot[p]) /\ StateShaped(slot[p].mem)
    BY <1>1, WriteTmpSlot DEF SlotShaped
  <1>4. slot'[p] = t /\ \A q \in Process \ {p} : slot'[q] = slot[q]
    BY <1>1, <1>2 DEF Gets, Moves, SlotsInv
  <1>5. ASSUME Sound(d)'
        PROVE  FileHeld(d)' /\ SlotHeld(p)' /\ file' = file
    <2>1. Sound(d) /\ FileHeld(d) /\ SlotHeld(p)
      BY <1>1, <1>5 DEF HeldInv, Sound
    <2>2. slot[p].handle = "tmp" /\ tmp[d].form = "empty"
      BY <1>1, <2>1 DEF PathInv, TmpIsOwn, Sound
    <2>3. tmp' = [tmp EXCEPT ![d] = Marshalled(slot[p].mem)] /\ file' = file
      BY <2>2 DEF WriteTmp, Written
    <2>4. tmp'[d].state.prekey = slot[p].mem.prekey
      BY <1>3, <2>3 DEF Marshalled, StateShaped, PathInv, FilesShaped
    <2>5. \A q \in Process : Registers(q, d) => Registers(q, d)'
      BY <1>1, <1>2, <1>4 DEF Registers, Moves
    <2> QED BY <1>1, <1>2, <1>3, <1>4, <2>1, <2>3, <2>4, <2>5
            DEF SlotHeld, FileHeld, Moves, IsBusy
  <1>6. slot'[p].dev = d
    BY <1>2, <1>4 DEF Moves
  <1> QED BY <1>1, <1>3, <1>4, <1>5, <1>6, HeldAlone DEF HeldInv

LEMMA RenameHeld ==
    ASSUME PathInv, HeldInv, NEW p \in Process, Rename(p)
    PROVE  HeldInv'
  <1> PICK d \in Device : slot[p].dev = d
    BY DEF PathInv, SlotsInv, SlotShaped
  <1>1. /\ UNCHANGED <<registered, overlapped, cut>> /\ SlotsInv
        /\ slot[p].stage = "renaming" /\ file'[d] = tmp[d]
        /\ \A e \in Device \ {d} : file'[e] = file[e] /\ tmp'[e] = tmp[e]
    BY DEF Rename, PathInv, FilesShaped
  <1>2. IsBusy(slot[p])
    BY <1>1, RenameSlots
  <1>3. \A q \in Process \ {p} :
          /\ slot'[q].stage = slot[q].stage /\ slot'[q].cmd = slot[q].cmd
          /\ slot'[q].dev = slot[q].dev /\ slot'[q].mem = slot[q].mem
    BY <1>1, RenameSlots
  <1>4. \/ slot'[p] = Idle
        \/ /\ slot[p].cmd = "listen" /\ slot'[p].stage = "listening"
           /\ slot'[p].cmd = "listen" /\ slot'[p].dev = d
           /\ slot'[p].mem = slot[p].mem
    BY <1>1, RenameSlots
  <1>5. ASSUME Sound(d)'
        PROVE  /\ FileHeld(d)' /\ file'[d].form = "whole"
               /\ slot'[p].stage # "idle" => SlotHeld(p)'
    <2>1. Sound(d) /\ SlotHeld(p) /\ FileHeld(d)
      BY <1>1, <1>5 DEF HeldInv, Sound
    <2>2. tmp[d].form = "whole" /\ tmp[d].state.prekey = slot[p].mem.prekey
      BY <1>1, <2>1 DEF PathInv, TmpIsOwn, Sound, SlotHeld
    <2>3. slot[p].mem.prekey = registered[d]
      <3>1. CASE slot[p].cmd = "init"
        BY <3>1, <1>1, <1>2, <2>1 DEF SlotHeld, Registers
      <3>2. CASE slot[p].cmd # "init"
        <4>1. \A q \in Process : ~Registers(q, d)
          BY <3>2, <1>1, <1>2, <2>1, RegistersAlone DEF Registers
        <4> QED BY <3>2, <4>1, <1>1, <1>2, <2>1 DEF SlotHeld, FileHeld
      <3> QED BY <3>1, <3>2
    <2>4. FileHeld(d)'
      BY <1>1, <2>2, <2>3 DEF FileHeld
    <2> QED BY <1>1, <1>4, <2>2, <2>4, IdleShaped DEF SlotHeld
  <1>6. slot'[p].stage # "idle" => slot'[p].dev = d
    BY <1>4, IdleShaped
  <1> QED BY <1>1, <1>2, <1>3, <1>5, <1>6, HeldAlone DEF HeldInv

LEMMA ReturnsHeld ==
    ASSUME PathInv, HeldInv, NEW p \in Process,
           ClientInitReturns(p) \/ ClientSendReturns(p) \/ ClientEnvelopeReturns(p)
    PROVE  HeldInv'
  <1> PICK d \in Device : slot[p].dev = d
    BY DEF PathInv, SlotsInv, SlotShaped
  <1>1. /\ UNCHANGED <<tmp, registered, overlapped, cut>> /\ SlotsInv
        /\ file'[d] = Marshalled(slot[p].mem)
        /\ \A e \in Device \ {d} : file'[e] = file[e]
    BY DEF ClientInitReturns, ClientSendReturns, ClientEnvelopeReturns, Returns,
           PathInv, FilesShaped
  <1>2. IsBusy(slot[p]) /\ SlotShaped(slot[p]) /\ slot[p].stage = "saving" /\ d \notin Cli
    BY <1>1, ReturnsSlot
  <1>3. PICK t : Gets(p, t) /\ (t = Idle \/ (Moves(p, t, "listening") /\ slot[p].cmd = "listen"))
    <2>1. CASE Gets(p, Idle)
      BY <2>1
    <2>2. CASE \E t : Moves(p, t, "listening") /\ slot[p].cmd = "listen"
      BY <2>2 DEF Moves
    <2> QED BY <1>1, <2>1, <2>2, ReturnsSlot
  <1>4. slot'[p] = t /\ \A q \in Process \ {p} : slot'[q] = slot[q]
    BY <1>1, <1>3 DEF Gets, SlotsInv
  <1>5. file'[d].form = "whole" /\ file'[d].state.prekey = slot[p].mem.prekey
    BY <1>1, <1>2 DEF Marshalled, StateShaped, SlotShaped
  <1>6. ASSUME Sound(d)'
        PROVE  FileHeld(d)' /\ (slot'[p].stage # "idle" => SlotHeld(p)')
    <2>1. Sound(d) /\ SlotHeld(p) /\ FileHeld(d)
      BY <1>1, <1>2, <1>6 DEF HeldInv, Sound
    <2>2. slot[p].mem.prekey = registered[d]
      <3>1. CASE slot[p].cmd = "init"
        BY <3>1, <1>2, <2>1 DEF SlotHeld, Registers
      <3>2. CASE slot[p].cmd # "init"
        <4>1. \A q \in Process : ~Registers(q, d)
          BY <3>2, <1>2, <2>1, RegistersAlone DEF Registers
        <4> QED BY <3>2, <4>1, <1>2, <2>1 DEF SlotHeld, FileHeld
      <3> QED BY <3>1, <3>2
    <2>3. FileHeld(d)'
      BY <1>1, <1>5, <2>2 DEF FileHeld
    <2> QED BY <1>2, <1>3, <1>4, <1>5, <2>3, IdleShaped DEF SlotHeld, Moves, IsBusy
  <1>7. slot'[p].stage # "idle" => slot'[p].dev = d
    BY <1>3, <1>4, IdleShaped DEF Moves
  <1> QED BY <1>1, <1>2, <1>4, <1>5, <1>6, <1>7, HeldAlone DEF HeldInv

LEMMA HeldStep ==
    ASSUME PathInv, HeldInv, [Next]_vars
    PROVE  HeldInv'
  <1>1. ASSUME NEW p \in Process, NEW d \in Device,
               StartInit(p, d) \/ StartSend(p, d) \/ StartListen(p, d)
        PROVE  HeldInv'
    BY <1>1, StartHeld
  <1>2. ASSUME NEW p \in Process, Register(p) PROVE HeldInv'
    BY <1>2, RegisterHeld
  <1>3. ASSUME NEW p \in Process, Seal(p) \/ SealFirst(p) PROVE HeldInv'
    BY <1>3, SealHeld
  <1>4. ASSUME NEW p \in Process, Post(p) PROVE HeldInv'
    BY <1>4, PostHeld
  <1>5. ASSUME NEW p \in Process, ReadEnvelope(p) PROVE HeldInv'
    BY <1>5, ReadEnvelopeHeld
  <1>6. ASSUME NEW p \in Process, PrintText(p) PROVE HeldInv'
    BY <1>6, PrintTextHeld
  <1>7. ASSUME NEW p \in Process, Disconnect(p) \/ RenameFails(p) \/ Crash(p)
        PROVE  HeldInv'
    BY <1>7, EndsHeld
  <1>8. ASSUME NEW p \in Process, LoseAnswer(p) PROVE HeldInv'
    BY <1>8, LoseAnswerHeld
  <1>9. ASSUME NEW p \in Process, OpenTmp(p) PROVE HeldInv'
    BY <1>9, OpenTmpHeld
  <1>10. ASSUME NEW p \in Process, WriteTmp(p) PROVE HeldInv'
    BY <1>10, WriteTmpHeld
  <1>11. ASSUME NEW p \in Process, Rename(p) PROVE HeldInv'
    BY <1>11, RenameHeld
  <1>12. ASSUME NEW p \in Process, ClientInitReturns(p) \/ ClientSendReturns(p)
                                   \/ ClientEnvelopeReturns(p)
         PROVE  HeldInv'
    BY <1>12, ReturnsHeld
  <1>13. ASSUME UNCHANGED vars PROVE HeldInv'
    BY <1>13 DEF vars, HeldInv, SlotHeld, FileHeld, Registers, Sound, IsBusy
  <1> QED
    BY <1>1, <1>2, <1>3, <1>4, <1>5, <1>6, <1>7, <1>8, <1>9, <1>10, <1>11, <1>12,
       <1>13 DEF Next

\* The prekey that the Keys service hands out is the one in the state, or its
\* init is still under way (runInit registers before it saves), for every
\* number of processes, unless an init ended in between or two overlapped.
THEOREM PrekeyIsHeld == Spec => []RegisteredIsHeld
  <1>1. Init => PathInv /\ HeldInv
    BY InitPath, InitHeld
  <1>2. PathInv /\ HeldInv /\ [Next]_vars => (PathInv /\ HeldInv)'
    BY PathStep, HeldStep
  <1>3. PathInv /\ HeldInv => RegisteredIsHeld
    <2> SUFFICES ASSUME PathInv, HeldInv, NEW d \in Device, registered[d] # NoKey, Sound(d)
                 PROVE  \/ file[d].form = "whole" /\ file[d].state.prekey = registered[d]
                        \/ \E p \in Busy(d) : slot[p].mem.prekey = registered[d]
      BY DEF RegisteredIsHeld, Sound
    <2>1. FileHeld(d)
      BY DEF HeldInv
    <2>2. CASE file[d].form = "whole" /\ file[d].state.prekey = registered[d]
      BY <2>2
    <2>3. CASE \E p \in Process : Registers(p, d)
      <3>1. PICK p \in Process : Registers(p, d)
        BY <2>3
      <3>2. p \in Busy(d)
        BY <3>1 DEF Registers, Busy, PathInv, SlotsInv, SlotShaped, StageOf
      <3> QED BY <3>1, <3>2 DEF Registers
    <2> QED BY <2>1, <2>2, <2>3 DEF FileHeld
  <1> QED BY <1>1, <1>2, <1>3, PTL DEF Spec

-----------------------------------------------------------------------------
(* Handshakes: what the ratchet keeps of the first secret of a session.    *)

\* A session whose roots, when there are any, all begin with one secret.
SessionOK(s) ==
    /\ DOMAIN s = {"root", "send", "recv", "own", "remote", "pn", "skipped"}
    /\ s.root \in RootKey /\ s.root # <<>>
    /\ s.send \in ChainState
    /\ s.own \in Nat /\ s.remote \in Nat /\ s.pn \in Nat
    /\ NeedsRotation(s) \/ Head(s.send.key.root) = Head(s.root)

LEMMA FirstSecret ==
    ASSUME NEW x \in Nat, NEW y \in Nat
    PROVE  /\ <<DH(x, y)>> \in RootKey /\ <<DH(x, y)>> # <<>>
           /\ Head(<<DH(x, y)>>) = {x, y}
  BY DEF DH, RootKey, Secret, KeyPair

LEMMA KdfKeepsHead ==
    ASSUME NEW root \in RootKey, root # <<>>, NEW x \in Nat, NEW y \in Nat
    PROVE  /\ KdfRoot(root, DH(x, y)) \in RootKey /\ KdfRoot(root, DH(x, y)) # <<>>
           /\ Head(KdfRoot(root, DH(x, y))) = Head(root)
  <1>1. DH(x, y) \in Secret
    BY DEF DH, Secret, KeyPair
  <1> QED BY <1>1 DEF KdfRoot, RootKey

LEMMA NoChain == [key |-> ZeroKey, index |-> 0] \in ChainState
  BY DEF ZeroKey, ChainState, ChainKey, RootKey

LEMMA FirstChain ==
    ASSUME NEW root \in RootKey
    PROVE  [key |-> FirstChainKey(root), index |-> 0] \in ChainState
  BY DEF FirstChainKey, ChainState, ChainKey

LEMMA InitSessionOK ==
    ASSUME NEW x \in Nat, NEW y \in Nat
    PROVE  /\ SessionOK(InitSession(x, y)) /\ Head(InitSession(x, y).root) = {x, y}
           /\ SessionOK(AcceptSession(x, y)) /\ Head(AcceptSession(x, y).root) = {x, y}
  <1> DEFINE root == <<DH(x, y)>>
  <1>1. root \in RootKey /\ root # <<>> /\ Head(root) = {x, y}
    BY FirstSecret
  <1>2. [key |-> FirstChainKey(root), index |-> 0] \in ChainState
    BY <1>1, FirstChain
  <1>3. InitSession(x, y) =
          [root |-> root, send |-> [key |-> FirstChainKey(root), index |-> 0],
           recv |-> [key |-> ZeroKey, index |-> 0],
           own |-> x, remote |-> y, pn |-> 0, skipped |-> {}]
    BY DEF InitSession
  <1>4. AcceptSession(x, y) =
          [root |-> root, send |-> [key |-> ZeroKey, index |-> 0],
           recv |-> [key |-> FirstChainKey(root), index |-> 0],
           own |-> x, remote |-> y, pn |-> 0, skipped |-> {}]
    <2>1. DH(y, x) = DH(x, y)
      BY DEF DH
    <2> QED BY <2>1 DEF AcceptSession
  <1> HIDE DEF root
  <1> QED BY <1>1, <1>2, <1>3, <1>4, NoChain DEF SessionOK, NeedsRotation, FirstChainKey

LEMMA SealingOK ==
    ASSUME NEW s, SessionOK(s), NEW fresh \in Nat
    PROVE  LET r == Sealing(s, fresh) IN
           /\ SessionOK(r) /\ Head(r.root) = Head(s.root)
           /\ Head(r.send.key.root) = Head(s.root)
  <1>1. CASE ~NeedsRotation(s)
    BY <1>1 DEF Sealing, SessionOK
  <1>2. CASE NeedsRotation(s)
    <2> DEFINE root == KdfRoot(s.root, DH(fresh, s.remote))
               send == [key |-> FirstChainKey(root), index |-> 0]
               r == RotateRatchetOnSend(s, fresh)
    <2>1. root \in RootKey /\ root # <<>> /\ Head(root) = Head(s.root)
      BY KdfKeepsHead DEF SessionOK
    <2>2. send \in ChainState /\ send.key.root = root
      BY <2>1, FirstChain DEF FirstChainKey
    <2>3. s.send.index \in Nat
      BY DEF SessionOK, ChainState
    <2>4. r = [s EXCEPT !.root = root, !.pn = s.send.index, !.send = send, !.own = fresh]
      BY DEF RotateRatchetOnSend
    <2> HIDE DEF root, send, r
    <2>5. SessionOK(r) /\ r.root = root /\ r.send = send
      BY <2>1, <2>2, <2>3, <2>4 DEF SessionOK
    <2> QED BY <1>2, <2>1, <2>2, <2>5 DEF Sealing, r
  <1> QED BY <1>1, <1>2

\* Encrypt: the key, the header and the session left behind.
LEMMA EncryptOK ==
    ASSUME NEW s, SessionOK(s), NEW fresh \in Nat
    PROVE  LET e == Encrypt(s, fresh) IN
           /\ e.header \in Header /\ e.key \in ChainKey
           /\ Head(e.key.root) = Head(s.root)
           /\ SessionOK(e.session) /\ Head(e.session.root) = Head(s.root)
  <1> DEFINE r == Sealing(s, fresh)
             t == [r EXCEPT !.send = Advance(@)]
  <1>1. /\ SessionOK(r) /\ Head(r.root) = Head(s.root)
        /\ Head(r.send.key.root) = Head(s.root)
    BY SealingOK
  <1>2. Encrypt(s, fresh) = [header |-> [dh |-> r.own, pn |-> r.pn, n |-> r.send.index],
                             key |-> r.send.key, session |-> t]
    BY DEF Encrypt
  <1> HIDE DEF r
  <1>3. /\ r.send.key \in ChainKey /\ r.send.index \in Nat
        /\ Advance(r.send) \in ChainState
        /\ Advance(r.send).key.root = r.send.key.root
    BY <1>1 DEF SessionOK, ChainState, ChainKey, Advance, NextChainKey
  <1>4. SessionOK(t) /\ t.root = r.root
    BY <1>1, <1>3 DEF SessionOK
  <1>5. [dh |-> r.own, pn |-> r.pn, n |-> r.send.index] \in Header
    BY <1>1, <1>3 DEF SessionOK, Header, KeyPair
  <1> HIDE DEF t
  <1> QED BY <1>1, <1>2, <1>3, <1>4, <1>5

LEMMA DecryptOK ==
    ASSUME NEW s, SessionOK(s), NEW m, m.header \in Header, NEW out \in Decrypt(s, m)
    PROVE  SessionOK(out.session) /\ Head(out.session.root) = Head(s.root)
  <1>1. CASE SkippedFor(s, m.header) # {}
    <2>1. PICK e \in SkippedFor(s, m.header) :
            out = Outcome([s EXCEPT !.skipped = @ \ {e}],
                          IF Opens(e.key, m) THEN "read" ELSE "failed")
      BY <1>1 DEF Decrypt, DecryptSkipped
    <2>2. out.session = [s EXCEPT !.skipped = s.skipped \ {e}]
      BY <2>1 DEF Outcome
    <2> QED BY <2>2 DEF SessionOK, NeedsRotation
  <1>2. CASE SkippedFor(s, m.header) = {}
    <2> DEFINE r == RotateRatchetOnRecv(s, m.header)
    <2>1. SessionOK(r) /\ Head(r.root) = Head(s.root)
      <3>1. CASE m.header.dh = s.remote
        BY <3>1 DEF RotateRatchetOnRecv
      <3>2. CASE m.header.dh # s.remote
        <4> DEFINE q == KdfRoot(s.root, DH(s.own, m.header.dh))
                   chain == [key |-> FirstChainKey(q), index |-> 0]
                   none == [key |-> ZeroKey, index |-> 0]
        <4>1. m.header.dh \in Nat /\ m.header.pn \in Nat
          BY DEF Header, KeyPair
        <4>2. q \in RootKey /\ q # <<>> /\ Head(q) = Head(s.root)
          BY <4>1, KdfKeepsHead DEF SessionOK
        <4>3. r = [s EXCEPT !.root = q, !.remote = m.header.dh, !.recv = chain,
                            !.send = none, !.pn = m.header.pn]
          BY <3>2 DEF RotateRatchetOnRecv
        <4>4. none \in ChainState /\ none.key = ZeroKey
          BY NoChain
        <4> HIDE DEF q, chain, none, r
        <4> QED BY <4>1, <4>2, <4>3, <4>4 DEF SessionOK, NeedsRotation
      <3> QED BY <3>1, <3>2
    <2>2. CASE m.header.n < r.recv.index
      <3>1. out = Outcome(r, "duplicate")
        BY <1>2, <2>2 DEF Decrypt, DecryptOnChain
      <3> QED BY <2>1, <3>1 DEF Outcome
    <2>3. CASE ~(m.header.n < r.recv.index)
      <3>1. PICK st, recv, result : out = Outcome([r EXCEPT !.recv = recv, !.skipped = st],
                                                  result)
        BY <1>2, <2>3 DEF Decrypt, DecryptOnChain
      <3>2. out.session = [r EXCEPT !.recv = recv, !.skipped = st]
        BY <3>1 DEF Outcome
      <3> HIDE DEF r
      <3> QED BY <2>1, <3>2 DEF SessionOK, NeedsRotation
    <2> QED BY <2>2, <2>3
  <1> QED BY <1>1, <1>2

LEMMA ExportImportOK ==
    ASSUME NEW s, SessionOK(s)
    PROVE  SessionOK(ExportImport(s)) /\ ExportImport(s).root = s.root
  <1>1. PICK skipped : ExportImport(s) = [s EXCEPT !.skipped = skipped]
    BY DEF ExportImport
  <1> QED BY <1>1 DEF SessionOK, NeedsRotation

-----------------------------------------------------------------------------
(* Handshakes: every session comes from one that is stored, or in hand.    *)

Carries(handshake, root) == handshake # NoKey /\ handshake \in Head(root)

Carried(root) == \E j \in DOMAIN sent : Carries(sent[j].handshake, root)

StateOK(st) ==
    /\ st.prekey \in Nat
    /\ \A s \in st.sessions : SessionOK(s) /\ Carried(s.root)

\* A slot that is posting may have opened its session itself.
PostingOK(s) ==
    /\ s.env \in Envelope /\ s.mem.prekey \in Nat
    /\ Carried(s.env.key.root) \/ Carries(s.env.handshake, s.env.key.root)
    /\ \A e \in s.mem.sessions :
          SessionOK(e) /\ (Carried(e.root) \/ Carries(s.env.handshake, e.root))

SlotOK(s) == IF s.stage = "posting" THEN PostingOK(s) ELSE StateOK(s.mem)

HandInv ==
    /\ nextKey \in Nat \ {NoKey} /\ registered \in [Device -> Nat]
    /\ sent \in Seq(Envelope) /\ HandshakeFirst
    /\ \A d \in Device : StateOK(file[d].state) /\ StateOK(tmp[d].state)
    /\ \A p \in Process : SlotOK(slot[p])

LEMMA NoStateOK == StateOK(NoState) /\ SlotOK(Idle)
  BY DEF NoState, Idle, Fresh, NoKey, StateOK, SlotOK

LEMMA MarshalledOK ==
    ASSUME NEW st, StateShaped(st), StateOK(st)
    PROVE  StateOK(Marshalled(st).state)
  <1>1. /\ Marshalled(st).state.prekey = st.prekey
        /\ Marshalled(st).state.sessions = {ExportImport(s) : s \in st.sessions}
    BY DEF Marshalled, StateShaped
  <1> QED BY <1>1, ExportImportOK DEF StateOK, Carried, Carries

LEMMA WrittenOK ==
    ASSUME NEW old, NEW st, StateShaped(st), StateOK(st), NEW c \in Written(old, st)
    PROVE  StateOK(c.state)
  <1>1. c = Marshalled(st) \/ c = Bad("torn")
    BY Zenon DEF Written
  <1>2. Bad("torn").state = NoState
    BY DEF Bad
  <1> QED BY <1>1, <1>2, MarshalledOK, NoStateOK

\* What an envelope that is stored leaves in the state it is read in.
LEMMA HandleInboundOK ==
    ASSUME HandInv, NEW st, StateShaped(st), StateOK(st), NEW i \in DOMAIN sent,
           NEW out \in HandleInbound(st, sent[i])
    PROVE  StateOK(out.state)
  <1> DEFINE env == sent[i]
  <1>1. env \in Envelope
    BY DEF HandInv
  <1>2. ASSUME NEW s \in ReadIn(st, env)
        PROVE  SessionOK(s) /\ Carried(s.root)
    <2>1. CASE st.sessions # {}
      BY <2>1, <1>2 DEF ReadIn, StateOK
    <2>2. CASE st.sessions = {}
      <3>1. env.handshake # NoKey /\ s = AcceptSession(st.prekey, env.handshake)
        BY <2>2, <1>2 DEF ReadIn
      <3>2. env.handshake \in Nat /\ st.prekey \in Nat
        BY <1>1 DEF Envelope, StateOK
      <3>3. SessionOK(s) /\ env.handshake \in Head(s.root)
        BY <3>1, <3>2, InitSessionOK
      <3> QED BY <3>1, <3>3 DEF Carried, Carries
    <2> QED BY <2>1, <2>2
  <1>3. CASE ReadIn(st, env) = {}
    <2>1. out = [state |-> st, result |-> "no handshake"]
      BY <1>3, Zenon DEF HandleInbound
    <2> QED BY <2>1
  <1>4. CASE ReadIn(st, env) # {}
    <2>1. PICK o \in UNION {Decrypt(s, Message(env)) : s \in ReadIn(st, env)} :
            out = [state |-> [st EXCEPT !.sessions = {o.session}], result |-> o.result]
      BY <1>4 DEF HandleInbound
    <2>2. PICK s \in ReadIn(st, env) : o \in Decrypt(s, Message(env))
      BY <2>1
    <2>3. Message(env).header \in Header
      BY <1>1 DEF Message, Envelope
    <2>4. SessionOK(o.session) /\ Carried(o.session.root)
      BY <1>2, <2>2, <2>3, DecryptOK DEF Carried, Carries
    <2>5. out.state.prekey = st.prekey /\ out.state.sessions = {o.session}
      BY <2>1 DEF StateShaped
    <2> QED BY <2>4, <2>5 DEF StateOK
  <1> QED BY <1>3, <1>4

\* A step that stores nothing and puts states that are in order into the files
\* and the slots keeps the invariant.
LEMMA HandKept ==
    ASSUME HandInv, UNCHANGED sent,
           nextKey' \in Nat \ {NoKey}, registered' \in [Device -> Nat],
           \A d \in Device : StateOK(file'[d].state) /\ StateOK(tmp'[d].state),
           \A p \in Process : SlotOK(slot'[p])
    PROVE  HandInv'
  <1>1. \A st : StateOK(st) => StateOK(st)'
    BY DEF StateOK, Carried
  <1>2. \A s : SlotOK(s) => SlotOK(s)'
    BY <1>1 DEF SlotOK, PostingOK, Carried
  <1>3. (sent \in Seq(Envelope) /\ HandshakeFirst)'
    BY DEF HandInv, HandshakeFirst, Introduced
  <1>4. ASSUME NEW d \in Device PROVE (StateOK(file[d].state) /\ StateOK(tmp[d].state))'
    BY <1>1
  <1>5. ASSUME NEW p \in Process PROVE SlotOK(slot[p])'
    BY <1>2
  <1> QED BY <1>3, <1>4, <1>5 DEF HandInv

\* A step that only slot p, the generator and the Keys service see.
LEMMA HandSlot ==
    ASSUME PathInv, HandInv, NEW p \in Process, NEW t, Gets(p, t), SlotOK(t),
           UNCHANGED <<sent, file, tmp>>,
           nextKey' \in Nat \ {NoKey}, registered' \in [Device -> Nat]
    PROVE  HandInv'
  <1>1. \A q \in Process : SlotOK(slot'[q])
    BY DEF Gets, PathInv, SlotsInv, HandInv
  <1>2. \A d \in Device : StateOK(file'[d].state) /\ StateOK(tmp'[d].state)
    BY DEF HandInv
  <1> QED BY <1>1, <1>2, HandKept

LEMMA InitHand == Init => HandInv
  <1> SUFFICES ASSUME Init PROVE HandInv
    OBVIOUS
  <1>1. nextKey \in Nat \ {NoKey} /\ registered \in [Device -> Nat]
    BY DEF Init, NoKey, Device
  <1>2. sent \in Seq(Envelope) /\ HandshakeFirst
    BY DEF Init, HandshakeFirst
  <1>3. ASSUME NEW d \in Device
        PROVE  StateOK(file[d].state) /\ StateOK(tmp[d].state)
    <2>1. file[d] = Bad("absent") \/ file[d] = Marshalled(Fresh(d))
      BY DEF Init
    <2>2. tmp[d] = Bad("absent")
      BY DEF Init
    <2>3. Bad("absent").state = NoState
      BY DEF Bad
    <2>4. StateShaped(Fresh(d)) /\ StateOK(Fresh(d))
      BY DEF Fresh, StateShaped, StateOK, Device
    <2> QED BY <2>1, <2>2, <2>3, <2>4, NoStateOK, MarshalledOK
  <1>4. \A p \in Process : SlotOK(slot[p])
    BY NoStateOK DEF Init
  <1> QED BY <1>1, <1>2, <1>3, <1>4 DEF HandInv

LEMMA StartHand ==
    ASSUME PathInv, HandInv, NEW p \in Process, NEW d \in Device,
           StartInit(p, d) \/ StartSend(p, d) \/ StartListen(p, d)
    PROVE  HandInv'
  <1>1. /\ UNCHANGED <<sent, file, tmp, registered>> /\ SlotsInv /\ FilesShaped
        /\ nextKey' \in Nat \ {NoKey} /\ StateOK(file[d].state)
        /\ registered' \in [Device -> Nat]
    BY DEF StartInit, StartSend, StartListen, PathInv, HandInv, NoKey
  <1>2. CASE StartInit(p, d)
    <2>1. PICK t : Gets(p, t) /\ t.stage = "registering" /\ t.mem = Fresh(nextKey)
      BY <1>1, <1>2, StartInitSlot
    <2>2. StateOK(Fresh(nextKey))
      BY DEF Fresh, StateOK, HandInv
    <2> QED BY <1>1, <2>1, <2>2, HandSlot DEF SlotOK
  <1>3. CASE StartSend(p, d)
    <2>1. PICK t : Gets(p, t) /\ t.stage = "loaded" /\ t.mem = file[d].state
      BY <1>1, <1>3, StartSendSlot
    <2> QED BY <1>1, <2>1, HandSlot DEF SlotOK
  <1>4. CASE StartListen(p, d)
    <2>1. PICK t : /\ Gets(p, t) /\ t.stage = "listening"
                   /\ t.mem = IF d \in Cli THEN file[d].state ELSE NoState
      BY <1>1, <1>4, StartListenSlot
    <2> QED BY <1>1, <2>1, NoStateOK, HandSlot DEF SlotOK
  <1> QED BY <1>2, <1>3, <1>4

LEMMA RegisterHand ==
    ASSUME PathInv, HandInv, NEW p \in Process, Register(p)
    PROVE  HandInv'
  <1>1. /\ UNCHANGED <<sent, file, tmp, nextKey>> /\ SlotsInv
        /\ slot[p].stage = "registering"
        /\ registered' = [registered EXCEPT ![slot[p].dev] = slot[p].mem.prekey]
    BY DEF Register, PathInv
  <1>2. StateOK(slot[p].mem)
    BY <1>1 DEF HandInv, SlotOK
  <1>3. nextKey' \in Nat \ {NoKey} /\ registered' \in [Device -> Nat]
    BY <1>1, <1>2 DEF HandInv, StateOK
  <1>4. CASE \E t : Moves(p, t, "saving") /\ t.mem = slot[p].mem
    BY <1>1, <1>2, <1>3, <1>4, HandSlot DEF SlotOK, Moves
  <1>5. CASE Gets(p, Idle)
    BY <1>1, <1>3, <1>5, NoStateOK, HandSlot
  <1> QED BY <1>1, <1>4, <1>5, RegisterSlot

\* The envelope and the state of a slot once it has sealed.
LEMMA SealedOK ==
    ASSUME NEW p \in Process, SlotShaped(slot[p]), NEW t,
           NEW s, SessionOK(s), NEW fresh \in Nat, NEW handshake \in Nat,
           Carried(s.root) \/ Carries(handshake, s.root),
           SealsInto(p, t, Encrypt(s, fresh), handshake), slot[p].mem.prekey \in Nat
    PROVE  SlotOK(t)
  <1> DEFINE e == Encrypt(s, fresh)
  <1>1. /\ e.header \in Header /\ e.key \in ChainKey
        /\ Head(e.key.root) = Head(s.root)
        /\ SessionOK(e.session) /\ Head(e.session.root) = Head(s.root)
    BY EncryptOK
  <1> HIDE DEF e
  <1>2. /\ t.env = [from |-> slot[p].dev, header |-> e.header, key |-> e.key,
                    handshake |-> handshake]
        /\ t.mem.sessions = {e.session}
    BY DEF Sealed, SealsInto, e
  <1>3. t.env \in Envelope
    BY <1>1, <1>2 DEF Envelope, SlotShaped
  <1> QED BY <1>1, <1>2, <1>3 DEF SlotOK, PostingOK, SealsInto, Moves, Carried, Carries

LEMMA SealHand ==
    ASSUME PathInv, HandInv, NEW p \in Process, Seal(p) \/ SealFirst(p)
    PROVE  HandInv'
  <1> PICK fresh : fresh = nextKey
    OBVIOUS
  <1>1. /\ UNCHANGED <<sent, file, tmp, registered>> /\ SlotsInv
        /\ slot[p].stage = "loaded" /\ nextKey' \in Nat \ {NoKey}
    BY DEF Seal, SealFirst, PathInv, HandInv, NoKey
  <1>2. StateOK(slot[p].mem) /\ SlotShaped(slot[p])
    BY <1>1 DEF HandInv, SlotOK, SlotsInv
  <1>3. fresh \in Nat \ {NoKey} /\ registered' \in [Device -> Nat] /\ NoKey \in Nat
    BY <1>1 DEF HandInv, NoKey
  <1>4. PICK s, handshake :
          /\ handshake \in Nat
          /\ SealIn(p, s, fresh, handshake) /\ SessionOK(s)
          /\ Carried(s.root) \/ Carries(handshake, s.root)
    <2>1. CASE Seal(p)
      <3>1. PICK s \in slot[p].mem.sessions : SealIn(p, s, fresh, NoKey)
        BY <2>1 DEF Seal, SealIn
      <3> QED BY <3>1, <1>2, <1>3 DEF StateOK
    <2>2. CASE SealFirst(p)
      <3>1. PICK bundle \in FetchBundle(slot[p].dev) :
              SealIn(p, InitSession(fresh, bundle), fresh, fresh)
        BY <2>2 DEF SealFirst, SealIn
      <3>2. bundle \in Nat
        <4>1. Peer(slot[p].dev) \in Device
          BY <1>2 DEF SlotShaped, Device, Peer
        <4> QED BY <3>1, <4>1 DEF FetchBundle, HandInv
      <3>3. /\ SessionOK(InitSession(fresh, bundle))
            /\ Carries(fresh, InitSession(fresh, bundle).root)
        BY <1>3, <3>2, InitSessionOK DEF Carries
      <3> QED BY <1>3, <3>1, <3>3
    <2> QED BY <2>1, <2>2
  <1>5. PICK t : SealsInto(p, t, Encrypt(s, fresh), handshake)
    BY <1>1, <1>4, SealInSlot
  <1>6. SlotOK(t)
    BY <1>2, <1>3, <1>4, <1>5, SealedOK DEF StateOK, SealsInto
  <1> QED BY <1>1, <1>3, <1>5, <1>6, HandSlot DEF Moves, SealsInto

\* What is stored next keeps what the sessions came from, and posting makes a
\* session that is in hand one that is stored.
LEMMA PostHand ==
    ASSUME PathInv, HandInv, NEW p \in Process, Post(p)
    PROVE  HandInv'
  <1> PICK env : env = slot[p].env
    OBVIOUS
  <1>1. /\ UNCHANGED <<file, tmp, nextKey, registered>> /\ SlotsInv
        /\ slot[p].stage = "posting" /\ sent' = Append(sent, env)
    BY DEF Post, Stored, PathInv
  <1>2. PostingOK(slot[p]) /\ env \in Envelope
    BY <1>1 DEF HandInv, SlotOK, PostingOK
  <1>3. /\ sent' \in Seq(Envelope) /\ Len(sent') = Len(sent) + 1
        /\ \A i \in 1 .. Len(sent) : sent'[i] = sent[i]
        /\ sent'[Len(sent) + 1] = env /\ Len(sent) \in Nat
        /\ DOMAIN sent = 1 .. Len(sent) /\ DOMAIN sent' = 1 .. Len(sent) + 1
    BY <1>1, <1>2 DEF HandInv
  <1>4. ASSUME NEW root PROVE /\ Carried(root) => Carried(root)'
                              /\ Carries(env.handshake, root) => Carried(root)'
    BY <1>3 DEF Carried, Carries
  <1>5. \A st : StateOK(st) => StateOK(st)'
    BY <1>4 DEF StateOK
  <1>6. \A s : SlotOK(s) => SlotOK(s)'
    BY <1>4, <1>5 DEF SlotOK, PostingOK
  <1>7. PICK t : /\ Gets(p, t)
                 /\ t = Idle \/ (t.stage = "saving" /\ t.mem = slot[p].mem)
    <2>1. CASE \E t : Moves(p, t, "saving") /\ t.mem = slot[p].mem /\ cut' = cut
      BY <2>1 DEF Moves
    <2>2. CASE Gets(p, Idle)
      BY <2>2
    <2> QED BY <1>1, <2>1, <2>2, PostSlot
  <1>8. SlotOK(t)'
    <2>1. CASE t = Idle
      BY <2>1, <1>6, NoStateOK
    <2>2. CASE t.stage = "saving" /\ t.mem = slot[p].mem
      <3>1. slot[p].mem.prekey \in Nat
            /\ \A s \in slot[p].mem.sessions : SessionOK(s) /\ Carried(s.root)'
        BY <1>2, <1>4 DEF PostingOK
      <3> QED BY <2>2, <3>1 DEF SlotOK, StateOK
    <2> QED BY <1>7, <2>1, <2>2
  <1>9. ASSUME NEW q \in Process PROVE SlotOK(slot[q])'
    <2>1. slot'[q] = IF q = p THEN t ELSE slot[q]
      BY <1>1, <1>7 DEF Gets, SlotsInv
    <2>2. SlotOK(slot[q])
      BY DEF HandInv
    <2> QED BY <2>1, <2>2, <1>6, <1>8
  <1>10. ASSUME NEW d \in Device PROVE (StateOK(file[d].state) /\ StateOK(tmp[d].state))'
    BY <1>1, <1>5 DEF HandInv
  <1>11. HandshakeFirst'
    <2> SUFFICES ASSUME NEW i \in 1 .. Len(sent) + 1
                 PROVE  \E j \in 1 .. i : Carries(sent'[j].handshake, sent'[i].key.root)
      BY <1>3 DEF HandshakeFirst, Introduced, Carries
    <2>1. CASE i \in 1 .. Len(sent)
      <3>1. PICK j \in 1 .. i : Carries(sent[j].handshake, sent[i].key.root)
        BY <1>3, <2>1 DEF HandInv, HandshakeFirst, Introduced, Carries
      <3> QED BY <1>3, <2>1, <3>1
    <2>2. CASE i = Len(sent) + 1
      <3>1. Carried(env.key.root)'
        BY <1>2, <1>4 DEF PostingOK
      <3> QED BY <1>3, <2>2, <3>1 DEF Carried
    <2> QED BY <1>3, <2>1, <2>2
  <1> QED BY <1>1, <1>3, <1>9, <1>10, <1>11 DEF HandInv

LEMMA ReadEnvelopeHand ==
    ASSUME PathInv, HandInv, NEW p \in Process, ReadEnvelope(p)
    PROVE  HandInv'
  <1>1. /\ UNCHANGED <<sent, file, tmp, nextKey, registered>> /\ SlotsInv /\ FilesShaped
        /\ nextKey' \in Nat \ {NoKey} /\ registered' \in [Device -> Nat]
    BY DEF ReadEnvelope, PathInv, HandInv
  <1>2. /\ SlotShaped(slot[p]) /\ slot[p].stage = "listening" /\ StateShaped(StateOf(p))
    BY <1>1, ReadEnvelopeSlot
  <1>3. StateOK(StateOf(p)) /\ StateOK(slot[p].mem)
    BY <1>2 DEF StateOf, HandInv, SlotOK, SlotShaped
  <1> PICK i \in Pushed(p) : \E out \in HandleInbound(StateOf(p), sent[i]) :
              \E t : Handled(p, i, out, t)
    BY <1>1, ReadEnvelopeSlot
  <1>4. PICK out \in HandleInbound(StateOf(p), sent[i]) : \E t : Handled(p, i, out, t)
    OBVIOUS
  <1>5. PICK t : Handled(p, i, out, t)
    BY <1>4
  <1>6. StateOK(out.state)
    <2>1. i \in DOMAIN sent
      BY DEF Pushed
    <2> QED BY <1>2, <1>3, <2>1, HandleInboundOK
  <1>7. Gets(p, t) /\ SlotOK(t)
    BY <1>3, <1>5, <1>6 DEF Handled, Moves, SlotOK
  <1> QED BY <1>1, <1>7, HandSlot

\* The steps that go on with the state in memory, or end.
LEMMA QuietHand ==
    ASSUME PathInv, HandInv, NEW p \in Process,
           PrintText(p) \/ LoseAnswer(p) \/ Disconnect(p) \/ RenameFails(p) \/ Crash(p)
    PROVE  HandInv'
  <1>1. /\ UNCHANGED <<sent, file, tmp, nextKey, registered>> /\ SlotsInv
        /\ nextKey' \in Nat \ {NoKey} /\ registered' \in [Device -> Nat]
    BY DEF PrintText, LoseAnswer, Disconnect, RenameFails, Crash, PathInv, HandInv
  <1>2. CASE PrintText(p)
    <2>1. PICK t : Moves(p, t, "saving") /\ t.mem = slot[p].mem
      BY <1>1, <1>2, PrintTextSlot
    <2>2. StateOK(slot[p].mem)
      BY <1>2 DEF PrintText, HandInv, SlotOK
    <2> QED BY <1>1, <2>1, <2>2, HandSlot DEF SlotOK, Moves
  <1>3. CASE LoseAnswer(p)
    <2>1. PICK t : Moves(p, t, "listening") /\ t.mem = NoState
      BY <1>1, <1>3, LoseAnswerSlot
    <2> QED BY <1>1, <2>1, NoStateOK, HandSlot DEF SlotOK, Moves
  <1>4. CASE Disconnect(p) \/ RenameFails(p) \/ Crash(p)
    BY <1>1, <1>4, EndsSlot, NoStateOK, HandSlot
  <1> QED BY <1>2, <1>3, <1>4

LEMMA OpenTmpHand ==
    ASSUME PathInv, HandInv, NEW p \in Process, OpenTmp(p)
    PROVE  HandInv'
  <1>1. /\ UNCHANGED <<sent, file, nextKey, registered>> /\ SlotsInv
        /\ tmp' = [tmp EXCEPT ![slot[p].dev] = Bad("empty")] /\ slot[p].stage = "saving"
    BY DEF OpenTmp, PathInv
  <1>2. PICK t : Moves(p, t, "writing") /\ t.mem = slot[p].mem
    BY <1>1, OpenTmpSlot
  <1>3. \A q \in Process : SlotOK(slot'[q])
    BY <1>1, <1>2 DEF Moves, Gets, SlotsInv, HandInv, SlotOK
  <1>4. Bad("empty").state = NoState
    BY DEF Bad
  <1>5. \A d \in Device : StateOK(file'[d].state) /\ StateOK(tmp'[d].state)
    BY <1>1, <1>4, NoStateOK DEF HandInv, PathInv, FilesShaped
  <1> QED BY <1>1, <1>3, <1>5, HandKept DEF HandInv

LEMMA WriteTmpHand ==
    ASSUME PathInv, HandInv, NEW p \in Process, WriteTmp(p)
    PROVE  HandInv'
  <1>1. /\ UNCHANGED <<sent, nextKey, registered>> /\ SlotsInv /\ slot[p].stage = "writing"
    BY DEF WriteTmp, PathInv
  <1>2. PICK t : Moves(p, t, "renaming") /\ t.mem = slot[p].mem
    BY <1>1, WriteTmpSlot
  <1>3. \A q \in Process : SlotOK(slot'[q])
    BY <1>1, <1>2 DEF Moves, Gets, SlotsInv, HandInv, SlotOK
  <1>4. StateShaped(slot[p].mem) /\ StateOK(slot[p].mem)
    BY <1>1 DEF SlotsInv, SlotShaped, HandInv, SlotOK
  <1>5. PICK c : /\ StateOK(c.state)
                 /\ \/ tmp' = [tmp EXCEPT ![slot[p].dev] = c] /\ UNCHANGED file
                    \/ file' = [file EXCEPT ![slot[p].dev] = c] /\ UNCHANGED tmp
                    \/ UNCHANGED <<file, tmp>>
    <2>1. CASE slot[p].handle = "tmp"
      <3>1. PICK c \in Written(tmp[slot[p].dev], slot[p].mem) :
              tmp' = [tmp EXCEPT ![slot[p].dev] = c]
        BY <2>1 DEF WriteTmp
      <3>2. UNCHANGED file
        BY <2>1 DEF WriteTmp
      <3> QED BY <1>4, <3>1, <3>2, WrittenOK
    <2>2. CASE slot[p].handle = "file"
      <3>1. PICK c \in Written(file[slot[p].dev], slot[p].mem) :
              file' = [file EXCEPT ![slot[p].dev] = c]
        BY <2>2 DEF WriteTmp
      <3>2. UNCHANGED tmp
        BY <2>2 DEF WriteTmp
      <3> QED BY <1>4, <3>1, <3>2, WrittenOK
    <2>3. CASE slot[p].handle \notin {"tmp", "file"}
      <3>1. UNCHANGED <<file, tmp>>
        BY <2>3 DEF WriteTmp
      <3>2. Bad("torn").state = NoState
        BY DEF Bad
      <3> QED BY <3>1, <3>2, NoStateOK
    <2> QED BY <2>1, <2>2, <2>3
  <1>6. \A d \in Device : StateOK(file'[d].state) /\ StateOK(tmp'[d].state)
    BY <1>5 DEF HandInv, PathInv, FilesShaped
  <1> QED BY <1>1, <1>3, <1>6, HandKept DEF HandInv

LEMMA RenameHand ==
    ASSUME PathInv, HandInv, NEW p \in Process, Rename(p)
    PROVE  HandInv'
  <1>1. /\ UNCHANGED <<sent, nextKey, registered>> /\ SlotsInv /\ slot[p].stage = "renaming"
        /\ file' = [file EXCEPT ![slot[p].dev] = tmp[slot[p].dev]]
        /\ tmp' = [tmp EXCEPT ![slot[p].dev] = Bad("absent")] /\ slot[p].dev \in Device
    BY DEF Rename, PathInv, SlotsInv, SlotShaped
  <1>2. ASSUME NEW q \in Process PROVE SlotOK(slot'[q])
    <2>1. CASE q = p
      <3>1. slot'[p] = Idle \/ (slot'[p].stage = "listening" /\ slot'[p].mem = slot[p].mem)
        BY <1>1, RenameSlots
      <3> QED BY <2>1, <3>1, <1>1, NoStateOK DEF HandInv, SlotOK
    <2>2. CASE q # p
      <3>1. /\ slot'[q].stage = slot[q].stage /\ slot'[q].mem = slot[q].mem
            /\ slot'[q].env = slot[q].env
        BY <1>1, <2>2, RenameSlots
      <3> QED BY <3>1 DEF HandInv, SlotOK, PostingOK
    <2> QED BY <2>1, <2>2
  <1>3. Bad("absent").state = NoState
    BY DEF Bad
  <1>4. \A d \in Device : StateOK(file'[d].state) /\ StateOK(tmp'[d].state)
    BY <1>1, <1>3, NoStateOK DEF HandInv, PathInv, FilesShaped
  <1> QED BY <1>1, <1>2, <1>4, HandKept DEF HandInv

LEMMA ReturnsHand ==
    ASSUME PathInv, HandInv, NEW p \in Process,
           ClientInitReturns(p) \/ ClientSendReturns(p) \/ ClientEnvelopeReturns(p)
    PROVE  HandInv'
  <1>1. /\ UNCHANGED <<sent, tmp, nextKey, registered>> /\ SlotsInv
        /\ file' = [file EXCEPT ![slot[p].dev] = Marshalled(slot[p].mem)]
        /\ slot[p].stage = "saving"
    BY DEF ClientInitReturns, ClientSendReturns, ClientEnvelopeReturns, Returns, PathInv
  <1>2. StateShaped(slot[p].mem) /\ StateOK(slot[p].mem)
    BY <1>1 DEF SlotsInv, SlotShaped, HandInv, SlotOK
  <1>3. PICK t : Gets(p, t) /\ SlotOK(t)
    <2>1. CASE Gets(p, Idle)
      BY <2>1, NoStateOK
    <2>2. CASE \E t : Moves(p, t, "listening") /\ t.mem = NoState
      BY <2>2, NoStateOK DEF Moves, SlotOK
    <2> QED BY <1>1, <2>1, <2>2, ReturnsSlot
  <1>4. \A q \in Process : SlotOK(slot'[q])
    BY <1>1, <1>3 DEF Gets, SlotsInv, HandInv
  <1>5. \A d \in Device : StateOK(file'[d].state) /\ StateOK(tmp'[d].state)
    BY <1>1, <1>2, MarshalledOK DEF HandInv, PathInv, FilesShaped
  <1> QED BY <1>1, <1>4, <1>5, HandKept DEF HandInv

LEMMA HandStep ==
    ASSUME PathInv, HandInv, [Next]_vars
    PROVE  HandInv'
  <1>1. ASSUME NEW p \in Process, NEW d \in Device,
               StartInit(p, d) \/ StartSend(p, d) \/ StartListen(p, d)
        PROVE  HandInv'
    BY <1>1, StartHand
  <1>2. ASSUME NEW p \in Process, Register(p) PROVE HandInv'
    BY <1>2, RegisterHand
  <1>3. ASSUME NEW p \in Process, Seal(p) \/ SealFirst(p) PROVE HandInv'
    BY <1>3, SealHand
  <1>4. ASSUME NEW p \in Process, Post(p) PROVE HandInv'
    BY <1>4, PostHand
  <1>5. ASSUME NEW p \in Process, ReadEnvelope(p) PROVE HandInv'
    BY <1>5, ReadEnvelopeHand
  <1>6. ASSUME NEW p \in Process, PrintText(p) \/ LoseAnswer(p) \/ Disconnect(p)
                                  \/ RenameFails(p) \/ Crash(p)
        PROVE  HandInv'
    BY <1>6, QuietHand
  <1>7. ASSUME NEW p \in Process, OpenTmp(p) PROVE HandInv'
    BY <1>7, OpenTmpHand
  <1>8. ASSUME NEW p \in Process, WriteTmp(p) PROVE HandInv'
    BY <1>8, WriteTmpHand
  <1>9. ASSUME NEW p \in Process, Rename(p) PROVE HandInv'
    BY <1>9, RenameHand
  <1>10. ASSUME NEW p \in Process, ClientInitReturns(p) \/ ClientSendReturns(p)
                                   \/ ClientEnvelopeReturns(p)
         PROVE  HandInv'
    BY <1>10, ReturnsHand
  <1>11. CASE UNCHANGED vars
    BY <1>11, HandKept DEF vars, HandInv
  <1> QED
    BY <1>1, <1>2, <1>3, <1>4, <1>5, <1>6, <1>7, <1>8, <1>9, <1>10, <1>11 DEF Next

\* The handshake that opens the session of an envelope is stored with it or
\* before it, whatever fails, is killed or overlaps: runSend saves a session
\* only after its first envelope was posted.
THEOREM HandshakeIsFirst == Spec => []HandshakeFirst
  <1>1. Init => PathInv /\ HandInv
    BY InitPath, InitHand
  <1>2. PathInv /\ HandInv /\ [Next]_vars => (PathInv /\ HandInv)'
    BY PathStep, HandStep
  <1>3. PathInv /\ HandInv => HandshakeFirst
    BY DEF HandInv
  <1> QED BY <1>1, <1>2, <1>3, PTL DEF Spec

-----------------------------------------------------------------------------
(* Key pairs: whatever is sealed with was generated before.                *)

\* An envelope sealed with key pairs that were generated before key pair b.
EnvelopeBelow(e, b) ==
    /\ e \in Envelope
    /\ RootBelow(e.key.root, b) /\ e.key.root # <<>>
    /\ e.header.dh < b /\ e.handshake < b

StateBelow(st, b) ==
    /\ st.prekey \in Nat /\ st.prekey < b
    /\ \A s \in st.sessions : SessionInv(s, b)

\* The session in memory went one past the key of the envelope to be posted.
InHand(s) ==
    /\ s.env.from = s.dev /\ s.mem.sessions # {}
    /\ \A e \in s.mem.sessions :
         /\ ~NeedsRotation(e)
         /\ e.send.key.root = s.env.key.root
         /\ e.send.key.step = s.env.key.step + 1

SlotBelow(s, b) ==
    /\ StateBelow(s.mem, b)
    /\ s.stage = "posting" => EnvelopeBelow(s.env, b) /\ InHand(s)

KeysInv ==
    /\ nextKey \in Nat /\ nextKey >= 3
    /\ registered \in [Device -> Nat] /\ \A d \in Device : registered[d] < nextKey
    /\ \A d \in Device : StateBelow(file[d].state, nextKey) /\ StateBelow(tmp[d].state, nextKey)
    /\ \A p \in Process : SlotBelow(slot[p], nextKey)
    /\ sent \in Seq(Envelope)
    /\ \A i \in DOMAIN sent : EnvelopeBelow(sent[i], nextKey)

LEMMA StateMono ==
    ASSUME NEW st, NEW b \in Nat, NEW c \in Nat, b <= c, StateBelow(st, b)
    PROVE  StateBelow(st, c)
  BY SessionMono DEF StateBelow

LEMMA EnvelopeMono ==
    ASSUME NEW e, NEW b \in Nat, NEW c \in Nat, b <= c, EnvelopeBelow(e, b)
    PROVE  EnvelopeBelow(e, c)
  <1>1. /\ e.key.root \in RootKey /\ e.header.dh \in Nat /\ e.handshake \in Nat
    BY DEF EnvelopeBelow, Envelope, ChainKey, Header, KeyPair
  <1> QED BY <1>1, BelowMono DEF EnvelopeBelow

LEMMA SlotMono ==
    ASSUME NEW s, NEW b \in Nat, NEW c \in Nat, b <= c, SlotBelow(s, b)
    PROVE  SlotBelow(s, c)
  BY StateMono, EnvelopeMono DEF SlotBelow

LEMMA NoStateBelow ==
    ASSUME NEW b \in Nat, b >= 3
    PROVE  StateBelow(NoState, b) /\ SlotBelow(Idle, b)
  BY DEF NoState, Idle, Fresh, NoKey, StateBelow, SlotBelow

LEMMA MarshalledIs ==
    ASSUME NEW st, StateShaped(st)
    PROVE  /\ Marshalled(st).form = "whole" /\ Marshalled(st).state.prekey = st.prekey
           /\ Marshalled(st).state.sessions = {ExportImport(s) : s \in st.sessions}
  BY DEF Marshalled, StateShaped

LEMMA MarshalledBelow ==
    ASSUME NEW st, StateShaped(st), NEW b, StateBelow(st, b)
    PROVE  StateBelow(Marshalled(st).state, b)
  BY MarshalledIs, ExportInv DEF StateBelow

LEMMA WrittenBelow ==
    ASSUME NEW old, NEW st, StateShaped(st), NEW b \in Nat, b >= 3, StateBelow(st, b),
           NEW c \in Written(old, st)
    PROVE  StateBelow(c.state, b)
  <1>1. c = Marshalled(st) \/ c = Bad("torn")
    BY Zenon DEF Written
  <1>2. Bad("torn").state = NoState
    BY DEF Bad
  <1> QED BY <1>1, <1>2, MarshalledBelow, NoStateBelow

\* handleInbound leaves the state as it is, or with the session it read in.
LEMMA HandleInboundIs ==
    ASSUME NEW st, StateShaped(st), NEW env, NEW out \in HandleInbound(st, env)
    PROVE  \/ /\ out.state = st /\ out.result # "read"
           \/ \E s \in ReadIn(st, env) : \E o \in Decrypt(s, Message(env)) :
                /\ out.state.prekey = st.prekey /\ out.state.sessions = {o.session}
                /\ out.result = o.result
  <1>1. CASE ReadIn(st, env) = {}
    <2> PICK x : x = "no handshake"
      OBVIOUS
    <2>1. out = [state |-> st, result |-> x]
      BY <1>1, Zenon DEF HandleInbound
    <2>2. x # "read"
      OBVIOUS
    <2>3. out.state = st /\ out.result = x
      BY <2>1
    <2> QED BY <2>2, <2>3
  <1>2. CASE ReadIn(st, env) # {}
    <2>1. PICK o \in UNION {Decrypt(s, Message(env)) : s \in ReadIn(st, env)} :
            out = [state |-> [st EXCEPT !.sessions = {o.session}], result |-> o.result]
      BY <1>2 DEF HandleInbound
    <2>2. PICK s \in ReadIn(st, env) : o \in Decrypt(s, Message(env))
      BY <2>1
    <2>3. /\ out.state.prekey = st.prekey /\ out.state.sessions = {o.session}
          /\ out.result = o.result
      BY <2>1 DEF StateShaped
    <2> QED BY <2>2, <2>3
  <1> QED BY <1>1, <1>2

\* The session an envelope is read in.
LEMMA ReadInBelow ==
    ASSUME NEW st, NEW b \in Nat, StateBelow(st, b), NEW env, EnvelopeBelow(env, b),
           NEW s \in ReadIn(st, env)
    PROVE  /\ SessionInv(s, b)
           /\ \/ s \in st.sessions
              \/ /\ st.sessions = {} /\ env.handshake \in Nat
                 /\ s = AcceptSession(st.prekey, env.handshake)
  <1>1. env.handshake \in Nat /\ env.handshake < b
    BY DEF EnvelopeBelow, Envelope
  <1>2. CASE st.sessions # {}
    BY <1>2 DEF ReadIn, StateBelow
  <1>3. CASE st.sessions = {}
    <2>1. s = AcceptSession(st.prekey, env.handshake)
      BY <1>3 DEF ReadIn
    <2> QED BY <1>1, <1>3, <2>1, AcceptSessionInv DEF StateBelow
  <1> QED BY <1>2, <1>3

LEMMA MessageBelow ==
    ASSUME NEW b, NEW env, EnvelopeBelow(env, b)
    PROVE  /\ Message(env).header \in Header /\ Message(env).header.dh < b
           /\ Message(env).key = env.key /\ env.key \in ChainKey
  BY DEF EnvelopeBelow, Envelope, Message

\* What an envelope leaves in the state it is read in.
LEMMA HandleInboundBelow ==
    ASSUME NEW st, StateShaped(st), NEW b \in Nat, StateBelow(st, b),
           NEW env, EnvelopeBelow(env, b), NEW out \in HandleInbound(st, env)
    PROVE  StateBelow(out.state, b)
  <1>1. ASSUME NEW s \in ReadIn(st, env), NEW o \in Decrypt(s, Message(env))
        PROVE  SessionInv(o.session, b)
    BY ReadInBelow, MessageBelow, DecryptInv
  <1> QED BY <1>1, HandleInboundIs DEF StateBelow

\* A step that stores nothing, and what it puts into the files and the slots.
LEMMA KeysKept ==
    ASSUME KeysInv, UNCHANGED sent, nextKey' \in Nat, nextKey <= nextKey',
           registered' \in [Device -> Nat], \A d \in Device : registered'[d] < nextKey',
           \A d \in Device : /\ StateBelow(file'[d].state, nextKey')
                             /\ StateBelow(tmp'[d].state, nextKey'),
           \A p \in Process : SlotBelow(slot'[p], nextKey')
    PROVE  KeysInv'
  <1>1. nextKey \in Nat /\ nextKey' >= 3
    BY DEF KeysInv
  <1>2. ASSUME NEW i \in DOMAIN sent PROVE EnvelopeBelow(sent[i], nextKey')
    BY <1>1, EnvelopeMono DEF KeysInv
  <1> QED BY <1>1, <1>2 DEF KeysInv

\* A step that only slot p, the generator and the Keys service see.
LEMMA KeysSlot ==
    ASSUME PathInv, KeysInv, NEW p \in Process, NEW t, Gets(p, t), SlotBelow(t, nextKey'),
           UNCHANGED <<sent, file, tmp>>, nextKey' \in Nat, nextKey <= nextKey',
           registered' \in [Device -> Nat], \A d \in Device : registered'[d] < nextKey'
    PROVE  KeysInv'
  <1>1. nextKey \in Nat
    BY DEF KeysInv
  <1>2. ASSUME NEW q \in Process PROVE SlotBelow(slot'[q], nextKey')
    <2>1. slot'[q] = IF q = p THEN t ELSE slot[q]
      BY DEF Gets, PathInv, SlotsInv
    <2> QED BY <1>1, <2>1, SlotMono DEF KeysInv
  <1>3. \A d \in Device : /\ StateBelow(file'[d].state, nextKey')
                          /\ StateBelow(tmp'[d].state, nextKey')
    BY <1>1, StateMono DEF KeysInv
  <1> QED BY <1>2, <1>3, KeysKept

LEMMA InitKeys == Init => KeysInv
  <1> SUFFICES ASSUME Init PROVE KeysInv
    OBVIOUS
  <1>1. /\ nextKey \in Nat /\ nextKey >= 3 /\ registered \in [Device -> Nat]
        /\ \A d \in Device : registered[d] < nextKey
    BY DEF Init, NoKey, Device
  <1>2. ASSUME NEW d \in Device
        PROVE  StateBelow(file[d].state, nextKey) /\ StateBelow(tmp[d].state, nextKey)
    <2>1. file[d] = Bad("absent") \/ file[d] = Marshalled(Fresh(d))
      BY DEF Init
    <2>2. tmp[d] = Bad("absent") /\ Bad("absent").state = NoState
      BY DEF Init, Bad
    <2>3. StateShaped(Fresh(d)) /\ StateBelow(Fresh(d), nextKey)
      BY <1>1 DEF Fresh, StateShaped, StateBelow, Device
    <2> QED BY <1>1, <2>1, <2>2, <2>3, NoStateBelow, MarshalledBelow
  <1>3. \A p \in Process : SlotBelow(slot[p], nextKey)
    BY <1>1, NoStateBelow DEF Init
  <1>4. sent \in Seq(Envelope) /\ DOMAIN sent = {}
    BY DEF Init
  <1> QED BY <1>1, <1>2, <1>3, <1>4 DEF KeysInv

LEMMA StartKeys ==
    ASSUME PathInv, KeysInv, NEW p \in Process, NEW d \in Device,
           StartInit(p, d) \/ StartSend(p, d) \/ StartListen(p, d)
    PROVE  KeysInv'
  <1>1. /\ UNCHANGED <<sent, file, tmp, registered>> /\ SlotsInv /\ FilesShaped
        /\ nextKey \in Nat /\ nextKey' \in {nextKey, nextKey + 1} /\ nextKey' >= 3
        /\ registered' \in [Device -> Nat] /\ \A e \in Device : registered'[e] < nextKey'
    BY DEF StartInit, StartSend, StartListen, PathInv, KeysInv
  <1>2. CASE StartInit(p, d)
    <2>1. PICK t : Gets(p, t) /\ t.stage = "registering" /\ t.mem = Fresh(nextKey)
      BY <1>1, <1>2, StartInitSlot
    <2>2. nextKey' = nextKey + 1
      BY <1>2 DEF StartInit
    <2>3. StateBelow(Fresh(nextKey), nextKey')
      BY <1>1, <2>2 DEF Fresh, StateBelow
    <2> QED BY <1>1, <2>1, <2>3, KeysSlot DEF SlotBelow
  <1>3. CASE StartSend(p, d)
    <2>1. PICK t : Gets(p, t) /\ t.stage = "loaded" /\ t.mem = file[d].state
      BY <1>1, <1>3, StartSendSlot
    <2>2. StateBelow(file[d].state, nextKey')
      BY <1>1, StateMono DEF KeysInv
    <2> QED BY <1>1, <2>1, <2>2, KeysSlot DEF SlotBelow
  <1>4. CASE StartListen(p, d)
    <2>1. PICK t : /\ Gets(p, t) /\ t.stage = "listening"
                   /\ t.mem = IF d \in Cli THEN file[d].state ELSE NoState
      BY <1>1, <1>4, StartListenSlot
    <2>2. StateBelow(file[d].state, nextKey') /\ StateBelow(NoState, nextKey')
      BY <1>1, StateMono, NoStateBelow DEF KeysInv
    <2> QED BY <1>1, <2>1, <2>2, KeysSlot DEF SlotBelow
  <1> QED BY <1>2, <1>3, <1>4

LEMMA RegisterKeys ==
    ASSUME PathInv, KeysInv, NEW p \in Process, Register(p)
    PROVE  KeysInv'
  <1>1. /\ UNCHANGED <<sent, file, tmp, nextKey>> /\ SlotsInv
        /\ slot[p].stage = "registering"
        /\ registered' = [registered EXCEPT ![slot[p].dev] = slot[p].mem.prekey]
    BY DEF Register, PathInv
  <1>2. StateBelow(slot[p].mem, nextKey) /\ nextKey \in Nat /\ nextKey >= 3
    BY DEF KeysInv, SlotBelow
  <1>3. registered' \in [Device -> Nat] /\ \A e \in Device : registered'[e] < nextKey'
    BY <1>1, <1>2 DEF KeysInv, StateBelow
  <1>4. CASE \E t : Moves(p, t, "saving") /\ t.mem = slot[p].mem
    BY <1>1, <1>2, <1>3, <1>4, KeysSlot DEF SlotBelow, Moves
  <1>5. CASE Gets(p, Idle)
    BY <1>1, <1>2, <1>3, <1>5, NoStateBelow, KeysSlot
  <1> QED BY <1>1, <1>4, <1>5, RegisterSlot

\* Encrypt in a session whose sending chain is bounded once it is there.
LEMMA EncryptBelow ==
    ASSUME NEW s, Tidy(s), NEW fresh \in Nat, NEW b \in Nat,
           SessionInv(Sealing(s, fresh), b), ~NeedsRotation(Sealing(s, fresh))
    PROVE  LET e == Encrypt(s, fresh) IN
           /\ e.header \in Header /\ e.header.dh < b
           /\ e.key \in ChainKey /\ e.key = Sealing(s, fresh).send.key
           /\ RootBelow(e.key.root, b) /\ e.key.root # <<>>
           /\ SessionInv(e.session, b) /\ ~NeedsRotation(e.session)
           /\ e.session.send.key.root = e.key.root
           /\ e.session.send.key.step = e.key.step + 1
  <1> DEFINE r == Sealing(s, fresh)
             t == [r EXCEPT !.send = Advance(@)]
             e == Encrypt(s, fresh)
  <1>1. e.header \in Header /\ e.key \in ChainKey
    BY EncryptDead
  <1>2. e.header.dh = r.own /\ e.key = r.send.key /\ e.session = t
    BY DEF Encrypt
  <1> HIDE DEF e, r
  <1>3. /\ SessionInv(t, b) /\ ~NeedsRotation(t)
        /\ t.send.key.root = r.send.key.root
        /\ t.send.key.step = r.send.key.step + 1
    BY SealInv DEF r
  <1> HIDE DEF t
  <1>4. r.own < b /\ RootBelow(r.send.key.root, b) /\ r.send.key.root # <<>>
    BY DEF SessionInv, Below, r
  <1>5. /\ e.header \in Header /\ e.header.dh < b
        /\ e.key \in ChainKey /\ e.key = r.send.key
        /\ RootBelow(e.key.root, b) /\ e.key.root # <<>>
        /\ SessionInv(e.session, b) /\ ~NeedsRotation(e.session)
        /\ e.session.send.key.root = e.key.root
        /\ e.session.send.key.step = e.key.step + 1
    BY <1>1, <1>2, <1>3, <1>4
  <1> QED BY <1>5 DEF e, r

\* The session that Seal and SealFirst encrypt in: the one of the state, on
\* its own chain or on a new one, or the first one, on a new chain.
LEMMA SealsIs ==
    ASSUME PathInv, KeysInv, NEW p \in Process, Seal(p) \/ SealFirst(p)
    PROVE  \E s, handshake :
             /\ SealIn(p, s, nextKey, handshake)
             /\ Tidy(s) /\ handshake \in Nat /\ handshake < nextKey'
             /\ nextKey' \in {nextKey, nextKey + 1}
             /\ SessionInv(Sealing(s, nextKey), nextKey')
             /\ ~NeedsRotation(Sealing(s, nextKey))
             /\ \/ s \in slot[p].mem.sessions
                \/ /\ slot[p].mem.sessions = {}
                   /\ \E bundle \in Nat : s = InitSession(nextKey, bundle)
             /\ \/ s \in slot[p].mem.sessions /\ Sealing(s, nextKey) = s
                \/ ~RootBelow(Sealing(s, nextKey).send.key.root, nextKey)
  <1> PICK fresh : fresh = nextKey
    OBVIOUS
  <1>1. fresh \in Nat /\ fresh >= 3 /\ slot[p].dev \in Device
    BY DEF KeysInv, PathInv, SlotsInv, SlotShaped
  <1>2. CASE Seal(p)
    <2>1. PICK s \in slot[p].mem.sessions :
            /\ SealIn(p, s, fresh, NoKey)
            /\ nextKey' = IF NeedsRotation(s) THEN fresh + 1 ELSE fresh
      BY <1>2 DEF Seal, SealIn
    <2>2. SessionInv(s, fresh) /\ NoKey \in Nat /\ NoKey < nextKey'
      BY <1>1, <2>1 DEF KeysInv, SlotBelow, StateBelow, NoKey
    <2>3. CASE NeedsRotation(s)
      BY <1>1, <2>1, <2>2, <2>3, RotateOnSendInv DEF SessionInv
    <2>4. CASE ~NeedsRotation(s)
      BY <1>1, <2>1, <2>2, <2>4 DEF Sealing, SessionInv
    <2> QED BY <2>3, <2>4
  <1>3. CASE SealFirst(p)
    <2>1. PICK bundle \in FetchBundle(slot[p].dev) :
            SealIn(p, InitSession(fresh, bundle), fresh, fresh)
      BY <1>3 DEF SealFirst, SealIn
    <2>2. bundle \in Nat /\ bundle < fresh
      <3>1. Peer(slot[p].dev) \in Device
        BY <1>1 DEF Device, Peer
      <3> QED BY <2>1, <3>1 DEF FetchBundle, KeysInv
    <2>3. nextKey' = fresh + 1 /\ slot[p].mem.sessions = {}
      BY <1>3 DEF SealFirst
    <2> PICK s : s = InitSession(fresh, bundle)
      OBVIOUS
    <2>4. /\ SessionInv(s, fresh + 1) /\ ~NeedsRotation(s)
          /\ ~RootBelow(s.send.key.root, fresh)
      BY <1>1, <2>2, InitSessionInv
    <2>5. Sealing(s, fresh) = s
      BY <2>4 DEF Sealing
    <2> QED BY <1>1, <2>1, <2>2, <2>3, <2>4, <2>5 DEF SessionInv
  <1> QED BY <1>2, <1>3

LEMMA SealKeys ==
    ASSUME PathInv, KeysInv, NEW p \in Process, Seal(p) \/ SealFirst(p)
    PROVE  KeysInv'
  <1> PICK fresh, b : fresh = nextKey /\ b = nextKey'
    OBVIOUS
  <1>1. /\ UNCHANGED <<sent, file, tmp, registered>> /\ SlotsInv
        /\ slot[p].stage = "loaded" /\ fresh \in Nat
    BY DEF Seal, SealFirst, PathInv, KeysInv
  <1>2. PICK s, handshake :
             /\ SealIn(p, s, fresh, handshake)
             /\ Tidy(s) /\ handshake \in Nat /\ handshake < b
             /\ b \in {fresh, fresh + 1}
             /\ SessionInv(Sealing(s, fresh), b) /\ ~NeedsRotation(Sealing(s, fresh))
    BY SealsIs
  <1>3. b \in Nat /\ b >= 3 /\ fresh <= b
    BY <1>1, <1>2 DEF KeysInv
  <1>4. PICK t : SealsInto(p, t, Encrypt(s, fresh), handshake)
    BY <1>1, <1>2, SealInSlot
  <1> DEFINE e == Encrypt(s, fresh)
  <1>5. /\ e.header \in Header /\ e.header.dh < b
        /\ e.key \in ChainKey /\ RootBelow(e.key.root, b) /\ e.key.root # <<>>
        /\ SessionInv(e.session, b) /\ ~NeedsRotation(e.session)
        /\ e.session.send.key.root = e.key.root
        /\ e.session.send.key.step = e.key.step + 1
    BY <1>1, <1>2, <1>3, EncryptBelow
  <1> HIDE DEF e
  <1>6. /\ t.env = [from |-> slot[p].dev, header |-> e.header, key |-> e.key,
                    handshake |-> handshake]
        /\ t.mem.sessions = {e.session} /\ t.mem.prekey = slot[p].mem.prekey
        /\ t.dev = slot[p].dev /\ t.stage = "posting" /\ Gets(p, t)
    BY <1>4 DEF Sealed, SealsInto, Moves, e
  <1>7. slot[p].dev \in Device /\ StateBelow(slot[p].mem, b)
    BY <1>1, <1>3, StateMono DEF SlotsInv, SlotShaped, KeysInv, SlotBelow
  <1>8. EnvelopeBelow(t.env, b)
    BY <1>2, <1>5, <1>6, <1>7 DEF EnvelopeBelow, Envelope
  <1>9. InHand(t) /\ StateBelow(t.mem, b)
    BY <1>5, <1>6, <1>7 DEF InHand, StateBelow
  <1>10. registered' \in [Device -> Nat] /\ \A d \in Device : registered'[d] < b
    BY <1>1, <1>3 DEF KeysInv
  <1> QED BY <1>1, <1>3, <1>6, <1>8, <1>9, <1>10, KeysSlot DEF SlotBelow

LEMMA PostKeys ==
    ASSUME PathInv, KeysInv, NEW p \in Process, Post(p)
    PROVE  KeysInv'
  <1> PICK env : env = slot[p].env
    OBVIOUS
  <1>1. /\ UNCHANGED <<file, tmp, nextKey, registered>> /\ SlotsInv
        /\ slot[p].stage = "posting" /\ sent' = Append(sent, env)
    BY DEF Post, Stored, PathInv
  <1>2. EnvelopeBelow(env, nextKey) /\ env \in Envelope /\ nextKey \in Nat /\ nextKey >= 3
    BY <1>1 DEF KeysInv, SlotBelow, EnvelopeBelow
  <1>3. sent' \in Seq(Envelope) /\ \A i \in DOMAIN sent' : EnvelopeBelow(sent'[i], nextKey)
    BY <1>1, <1>2 DEF KeysInv
  <1>4. PICK t : Gets(p, t) /\ SlotBelow(t, nextKey)
    <2>1. CASE \E t : Moves(p, t, "saving") /\ t.mem = slot[p].mem
      BY <2>1 DEF Moves, SlotBelow, KeysInv
    <2>2. CASE Gets(p, Idle)
      BY <1>2, <2>2, NoStateBelow
    <2> QED BY <1>1, <2>1, <2>2, PostSlot
  <1>5. \A q \in Process : SlotBelow(slot'[q], nextKey)
    BY <1>1, <1>4 DEF Gets, SlotsInv, KeysInv
  <1> QED BY <1>1, <1>3, <1>5 DEF KeysInv

LEMMA ReadEnvelopeKeys ==
    ASSUME PathInv, KeysInv, NEW p \in Process, ReadEnvelope(p)
    PROVE  KeysInv'
  <1>1. /\ UNCHANGED <<sent, file, tmp, nextKey, registered>> /\ SlotsInv /\ FilesShaped
        /\ nextKey \in Nat
    BY DEF ReadEnvelope, PathInv, KeysInv
  <1>2. /\ SlotShaped(slot[p]) /\ slot[p].stage = "listening" /\ StateShaped(StateOf(p))
    BY <1>1, ReadEnvelopeSlot
  <1>3. StateBelow(StateOf(p), nextKey) /\ StateBelow(slot[p].mem, nextKey)
    BY <1>2 DEF StateOf, KeysInv, SlotBelow, SlotShaped
  <1> PICK i \in Pushed(p) : \E out \in HandleInbound(StateOf(p), sent[i]) :
              \E t : Handled(p, i, out, t)
    BY <1>1, ReadEnvelopeSlot
  <1>4. PICK out \in HandleInbound(StateOf(p), sent[i]) : \E t : Handled(p, i, out, t)
    OBVIOUS
  <1>5. PICK t : Handled(p, i, out, t)
    BY <1>4
  <1>6. StateBelow(out.state, nextKey)
    <2>1. EnvelopeBelow(sent[i], nextKey)
      BY DEF Pushed, KeysInv
    <2> QED BY <1>1, <1>2, <1>3, <2>1, HandleInboundBelow
  <1>7. Gets(p, t) /\ SlotBelow(t, nextKey)
    BY <1>3, <1>5, <1>6 DEF Handled, Moves, SlotBelow
  <1> QED BY <1>1, <1>7, KeysSlot DEF KeysInv

LEMMA QuietKeys ==
    ASSUME PathInv, KeysInv, NEW p \in Process,
           PrintText(p) \/ LoseAnswer(p) \/ Disconnect(p) \/ RenameFails(p) \/ Crash(p)
    PROVE  KeysInv'
  <1>1. /\ UNCHANGED <<sent, file, tmp, nextKey, registered>> /\ SlotsInv
        /\ nextKey \in Nat /\ nextKey >= 3
        /\ registered' \in [Device -> Nat] /\ \A d \in Device : registered'[d] < nextKey
    BY DEF PrintText, LoseAnswer, Disconnect, RenameFails, Crash, PathInv, KeysInv
  <1>2. CASE PrintText(p)
    <2>1. PICK t : Moves(p, t, "saving") /\ t.mem = slot[p].mem
      BY <1>1, <1>2, PrintTextSlot
    <2> QED BY <1>1, <2>1, KeysSlot DEF SlotBelow, Moves, KeysInv
  <1>3. CASE LoseAnswer(p)
    <2>1. PICK t : Moves(p, t, "listening") /\ t.mem = NoState
      BY <1>1, <1>3, LoseAnswerSlot
    <2> QED BY <1>1, <2>1, NoStateBelow, KeysSlot DEF SlotBelow, Moves
  <1>4. CASE Disconnect(p) \/ RenameFails(p) \/ Crash(p)
    <2>1. Gets(p, Idle) /\ SlotBelow(Idle, nextKey)
      BY <1>1, <1>4, EndsSlot, NoStateBelow
    <2> QED BY <1>1, <2>1, KeysSlot
  <1> QED BY <1>2, <1>3, <1>4

LEMMA OpenTmpKeys ==
    ASSUME PathInv, KeysInv, NEW p \in Process, OpenTmp(p)
    PROVE  KeysInv'
  <1>1. /\ UNCHANGED <<sent, file, nextKey, registered>> /\ SlotsInv
        /\ tmp' = [tmp EXCEPT ![slot[p].dev] = Bad("empty")] /\ slot[p].stage = "saving"
        /\ nextKey \in Nat /\ nextKey >= 3
    BY DEF OpenTmp, PathInv, KeysInv
  <1>2. PICK t : Moves(p, t, "writing") /\ t.mem = slot[p].mem
    BY <1>1, OpenTmpSlot
  <1>3. \A q \in Process : SlotBelow(slot'[q], nextKey)
    BY <1>1, <1>2 DEF Moves, Gets, SlotsInv, KeysInv, SlotBelow
  <1>4. Bad("empty").state = NoState
    BY DEF Bad
  <1>5. \A d \in Device : /\ StateBelow(file'[d].state, nextKey)
                          /\ StateBelow(tmp'[d].state, nextKey)
    BY <1>1, <1>4, NoStateBelow DEF KeysInv, PathInv, FilesShaped
  <1> QED BY <1>1, <1>3, <1>5, KeysKept DEF KeysInv

\* The contents that a process writes go to the file that it has open.
LEMMA WriteTmpIs ==
    ASSUME NEW p \in Process, WriteTmp(p)
    PROVE  \E c : /\ c = Marshalled(slot[p].mem) \/ c = Bad("torn")
                  /\ \/ tmp' = [tmp EXCEPT ![slot[p].dev] = c] /\ UNCHANGED file
                     \/ file' = [file EXCEPT ![slot[p].dev] = c] /\ UNCHANGED tmp
                     \/ UNCHANGED <<file, tmp>>
  <1>1. CASE slot[p].handle = "tmp"
    <2>1. PICK c \in Written(tmp[slot[p].dev], slot[p].mem) :
            tmp' = [tmp EXCEPT ![slot[p].dev] = c]
      BY <1>1 DEF WriteTmp
    <2>2. UNCHANGED file
      BY <1>1 DEF WriteTmp
    <2>3. c = Marshalled(slot[p].mem) \/ c = Bad("torn")
      BY <2>1, Zenon DEF Written
    <2> QED BY <2>1, <2>2, <2>3
  <1>2. CASE slot[p].handle = "file"
    <2>1. PICK c \in Written(file[slot[p].dev], slot[p].mem) :
            file' = [file EXCEPT ![slot[p].dev] = c]
      BY <1>2 DEF WriteTmp
    <2>2. UNCHANGED tmp
      BY <1>2 DEF WriteTmp
    <2>3. c = Marshalled(slot[p].mem) \/ c = Bad("torn")
      BY <2>1, Zenon DEF Written
    <2> QED BY <2>1, <2>2, <2>3
  <1>3. CASE slot[p].handle \notin {"tmp", "file"}
    BY <1>3 DEF WriteTmp
  <1> QED BY <1>1, <1>2, <1>3

LEMMA WriteTmpKeys ==
    ASSUME PathInv, KeysInv, NEW p \in Process, WriteTmp(p)
    PROVE  KeysInv'
  <1>1. /\ UNCHANGED <<sent, nextKey, registered>> /\ SlotsInv /\ slot[p].stage = "writing"
        /\ nextKey \in Nat /\ nextKey >= 3
    BY DEF WriteTmp, PathInv, KeysInv
  <1>2. PICK t : Moves(p, t, "renaming") /\ t.mem = slot[p].mem
    BY <1>1, WriteTmpSlot
  <1>3. \A q \in Process : SlotBelow(slot'[q], nextKey)
    BY <1>1, <1>2 DEF Moves, Gets, SlotsInv, KeysInv, SlotBelow
  <1>4. PICK c : /\ c = Marshalled(slot[p].mem) \/ c = Bad("torn")
                 /\ \/ tmp' = [tmp EXCEPT ![slot[p].dev] = c] /\ UNCHANGED file
                    \/ file' = [file EXCEPT ![slot[p].dev] = c] /\ UNCHANGED tmp
                    \/ UNCHANGED <<file, tmp>>
    BY WriteTmpIs
  <1>5. StateBelow(c.state, nextKey)
    <2>1. StateShaped(slot[p].mem) /\ StateBelow(slot[p].mem, nextKey)
      BY <1>1 DEF SlotsInv, SlotShaped, KeysInv, SlotBelow
    <2>2. Bad("torn").state = NoState
      BY DEF Bad
    <2> QED BY <1>1, <1>4, <2>1, <2>2, MarshalledBelow, NoStateBelow
  <1>6. \A d \in Device : /\ StateBelow(file'[d].state, nextKey)
                          /\ StateBelow(tmp'[d].state, nextKey)
    BY <1>4, <1>5 DEF KeysInv, PathInv, FilesShaped
  <1> QED BY <1>1, <1>3, <1>6, KeysKept DEF KeysInv

LEMMA RenameKeys ==
    ASSUME PathInv, KeysInv, NEW p \in Process, Rename(p)
    PROVE  KeysInv'
  <1>1. /\ UNCHANGED <<sent, nextKey, registered>> /\ SlotsInv /\ slot[p].stage = "renaming"
        /\ file' = [file EXCEPT ![slot[p].dev] = tmp[slot[p].dev]]
        /\ tmp' = [tmp EXCEPT ![slot[p].dev] = Bad("absent")] /\ slot[p].dev \in Device
        /\ nextKey \in Nat /\ nextKey >= 3
    BY DEF Rename, PathInv, SlotsInv, SlotShaped, KeysInv
  <1>2. ASSUME NEW q \in Process PROVE SlotBelow(slot'[q], nextKey)
    <2>1. CASE q = p
      <3>1. slot'[p] = Idle \/ (slot'[p].stage = "listening" /\ slot'[p].mem = slot[p].mem)
        BY <1>1, RenameSlots
      <3> QED BY <2>1, <3>1, <1>1, NoStateBelow DEF KeysInv, SlotBelow
    <2>2. CASE q # p
      <3>1. /\ slot'[q].stage = slot[q].stage /\ slot'[q].mem = slot[q].mem
            /\ slot'[q].env = slot[q].env /\ slot'[q].dev = slot[q].dev
        BY <1>1, <2>2, RenameSlots
      <3> QED BY <3>1 DEF KeysInv, SlotBelow, InHand
    <2> QED BY <2>1, <2>2
  <1>3. Bad("absent").state = NoState
    BY DEF Bad
  <1>4. \A d \in Device : /\ StateBelow(file'[d].state, nextKey)
                          /\ StateBelow(tmp'[d].state, nextKey)
    BY <1>1, <1>3, NoStateBelow DEF KeysInv, PathInv, FilesShaped
  <1> QED BY <1>1, <1>2, <1>4, KeysKept DEF KeysInv

LEMMA ReturnsKeys ==
    ASSUME PathInv, KeysInv, NEW p \in Process,
           ClientInitReturns(p) \/ ClientSendReturns(p) \/ ClientEnvelopeReturns(p)
    PROVE  KeysInv'
  <1>1. /\ UNCHANGED <<sent, tmp, nextKey, registered>> /\ SlotsInv
        /\ file' = [file EXCEPT ![slot[p].dev] = Marshalled(slot[p].mem)]
        /\ slot[p].stage = "saving" /\ nextKey \in Nat /\ nextKey >= 3
    BY DEF ClientInitReturns, ClientSendReturns, ClientEnvelopeReturns, Returns, PathInv,
           KeysInv
  <1>2. StateShaped(slot[p].mem) /\ StateBelow(slot[p].mem, nextKey)
    BY <1>1 DEF SlotsInv, SlotShaped, KeysInv, SlotBelow
  <1>3. PICK t : Gets(p, t) /\ SlotBelow(t, nextKey)
    <2>1. CASE Gets(p, Idle)
      BY <1>1, <2>1, NoStateBelow
    <2>2. CASE \E t : Moves(p, t, "listening") /\ t.mem = NoState
      BY <1>1, <2>2, NoStateBelow DEF Moves, SlotBelow
    <2> QED BY <1>1, <2>1, <2>2, ReturnsSlot
  <1>4. \A q \in Process : SlotBelow(slot'[q], nextKey)
    BY <1>1, <1>3 DEF Gets, SlotsInv, KeysInv
  <1>5. \A d \in Device : /\ StateBelow(file'[d].state, nextKey)
                          /\ StateBelow(tmp'[d].state, nextKey)
    BY <1>1, <1>2, MarshalledBelow DEF KeysInv, PathInv, FilesShaped
  <1> QED BY <1>1, <1>4, <1>5, KeysKept DEF KeysInv

LEMMA KeysStep ==
    ASSUME PathInv, KeysInv, [Next]_vars
    PROVE  KeysInv'
  <1>1. ASSUME NEW p \in Process, NEW d \in Device,
               StartInit(p, d) \/ StartSend(p, d) \/ StartListen(p, d)
        PROVE  KeysInv'
    BY <1>1, StartKeys
  <1>2. ASSUME NEW p \in Process, Register(p) PROVE KeysInv'
    BY <1>2, RegisterKeys
  <1>3. ASSUME NEW p \in Process, Seal(p) \/ SealFirst(p) PROVE KeysInv'
    BY <1>3, SealKeys
  <1>4. ASSUME NEW p \in Process, Post(p) PROVE KeysInv'
    BY <1>4, PostKeys
  <1>5. ASSUME NEW p \in Process, ReadEnvelope(p) PROVE KeysInv'
    BY <1>5, ReadEnvelopeKeys
  <1>6. ASSUME NEW p \in Process, PrintText(p) \/ LoseAnswer(p) \/ Disconnect(p)
                                  \/ RenameFails(p) \/ Crash(p)
        PROVE  KeysInv'
    BY <1>6, QuietKeys
  <1>7. ASSUME NEW p \in Process, OpenTmp(p) PROVE KeysInv'
    BY <1>7, OpenTmpKeys
  <1>8. ASSUME NEW p \in Process, WriteTmp(p) PROVE KeysInv'
    BY <1>8, WriteTmpKeys
  <1>9. ASSUME NEW p \in Process, Rename(p) PROVE KeysInv'
    BY <1>9, RenameKeys
  <1>10. ASSUME NEW p \in Process, ClientInitReturns(p) \/ ClientSendReturns(p)
                                   \/ ClientEnvelopeReturns(p)
         PROVE  KeysInv'
    BY <1>10, ReturnsKeys
  <1>11. CASE UNCHANGED vars
    BY <1>11 DEF vars, KeysInv
  <1> QED
    BY <1>1, <1>2, <1>3, <1>4, <1>5, <1>6, <1>7, <1>8, <1>9, <1>10, <1>11 DEF Next

-----------------------------------------------------------------------------
(* Sending chains: each belongs to one device.                             *)

\* Root r is that of the chain on which a session of state st sends.
SendsIn(st, r) == \E s \in st.sessions : ~NeedsRotation(s) /\ s.send.key.root = r

SendsOn(d, r) ==
    \/ SendsIn(file[d].state, r)
    \/ SendsIn(tmp[d].state, r)
    \/ \E p \in Process : slot[p].dev = d /\ SendsIn(slot[p].mem, r)
    \/ \E i \in DOMAIN sent : sent[i].from = d /\ sent[i].key.root = r

ChainsApart == \A d, e \in Device : \A r : SendsOn(d, r) /\ SendsOn(e, r) => d = e

\* State st sends on no chain that is not one of d already.
SendsFrom(d, st) == \A r : SendsIn(st, r) => SendsOn(d, r)

LEMMA SendsBelow ==
    ASSUME KeysInv, NEW d \in Device, NEW r, SendsOn(d, r)
    PROVE  RootBelow(r, nextKey)
  BY DEF SendsOn, SendsIn, KeysInv, SlotBelow, StateBelow, EnvelopeBelow, SessionInv, Below

LEMMA NoStateSends == ASSUME NEW d PROVE SendsFrom(d, NoState)
  BY DEF SendsFrom, SendsIn, NoState, Fresh

LEMMA MarshalledSends ==
    ASSUME NEW d, NEW st, StateShaped(st), NEW b, StateBelow(st, b), SendsFrom(d, st)
    PROVE  SendsFrom(d, Marshalled(st).state)
  <1> SUFFICES ASSUME NEW r, SendsIn(Marshalled(st).state, r) PROVE SendsIn(st, r)
    BY DEF SendsFrom
  <1>1. PICK s \in st.sessions : /\ ~NeedsRotation(ExportImport(s))
                                 /\ ExportImport(s).send.key.root = r
    BY MarshalledIs DEF SendsIn
  <1>2. ExportImport(s).send = s.send
    BY ExportSends DEF StateBelow, SessionInv
  <1> QED BY <1>1, <1>2 DEF SendsIn, NeedsRotation

\* A step after which every chain is one that its device had before.
LEMMA ChainsKept ==
    ASSUME ChainsApart,
           \A d \in Device : SendsFrom(d, file'[d].state) /\ SendsFrom(d, tmp'[d].state),
           \A p \in Process : SendsFrom(slot'[p].dev, slot'[p].mem),
           \A i \in DOMAIN sent' : SendsOn(sent'[i].from, sent'[i].key.root)
    PROVE  ChainsApart'
  <1>1. ASSUME NEW d \in Device, NEW r, SendsOn(d, r)' PROVE SendsOn(d, r)
    <2>1. CASE SendsIn(file'[d].state, r) \/ SendsIn(tmp'[d].state, r)
      BY <2>1 DEF SendsFrom
    <2>2. CASE \E p \in Process : slot'[p].dev = d /\ SendsIn(slot'[p].mem, r)
      BY <2>2 DEF SendsFrom
    <2>3. CASE \E i \in DOMAIN sent' : sent'[i].from = d /\ sent'[i].key.root = r
      BY <2>3
    <2> QED BY <1>1, <2>1, <2>2, <2>3 DEF SendsOn
  <1> QED BY <1>1 DEF ChainsApart

LEMMA SendsAlready ==
    /\ \A d \in Device : SendsFrom(d, file[d].state) /\ SendsFrom(d, tmp[d].state)
    /\ \A p \in Process : SendsFrom(slot[p].dev, slot[p].mem)
    /\ \A i \in DOMAIN sent : SendsOn(sent[i].from, sent[i].key.root)
  BY DEF SendsFrom, SendsOn

\* A step of slot p alone.
LEMMA ChainsSlot ==
    ASSUME PathInv, ChainsApart, NEW p \in Process, NEW t, Gets(p, t),
           SendsFrom(t.dev, t.mem), UNCHANGED <<sent, file, tmp>>
    PROVE  ChainsApart'
  <1>1. \A q \in Process : slot'[q] = IF q = p THEN t ELSE slot[q]
    BY DEF Gets, PathInv, SlotsInv
  <1> QED BY <1>1, SendsAlready, ChainsKept

LEMMA InitChains == Init => ChainsApart
  <1> SUFFICES ASSUME Init, NEW d \in Device, NEW r, SendsOn(d, r) PROVE FALSE
    BY DEF ChainsApart
  <1>1. NoState.sessions = {} /\ Idle.mem = NoState /\ Fresh(d).sessions = {}
    BY DEF NoState, Fresh, Idle
  <1>2. /\ file[d] = Bad("absent") \/ file[d] = Marshalled(Fresh(d))
        /\ tmp[d] = Bad("absent") /\ Bad("absent").state = NoState
        /\ \A p \in Process : slot[p] = Idle
    BY DEF Init, Bad
  <1>3. DOMAIN sent = {}
    BY DEF Init
  <1>4. Marshalled(Fresh(d)).state.sessions = {}
    <2>1. StateShaped(Fresh(d))
      BY DEF Fresh, StateShaped
    <2> QED BY <1>1, <2>1, MarshalledIs
  <1> QED BY <1>1, <1>2, <1>3, <1>4 DEF SendsOn, SendsIn

LEMMA StartChains ==
    ASSUME PathInv, ChainsApart, NEW p \in Process, NEW d \in Device,
           StartInit(p, d) \/ StartSend(p, d) \/ StartListen(p, d)
    PROVE  ChainsApart'
  <1>1. UNCHANGED <<sent, file, tmp>> /\ SlotsInv /\ FilesShaped
    BY DEF StartInit, StartSend, StartListen, PathInv
  <1>2. PICK t : /\ Gets(p, t) /\ t.dev = d
                 /\ t.mem \in {Fresh(nextKey), file[d].state, NoState}
    <2>1. CASE StartInit(p, d)
      BY <1>1, <2>1, StartInitSlot
    <2>2. CASE StartSend(p, d)
      BY <1>1, <2>2, StartSendSlot
    <2>3. CASE StartListen(p, d)
      <3>1. PICK t : /\ Gets(p, t) /\ t.dev = d
                     /\ t.mem = IF d \in Cli THEN file[d].state ELSE NoState
        BY <1>1, <2>3, StartListenSlot
      <3> QED BY <3>1
    <2> QED BY <2>1, <2>2, <2>3
  <1>3. SendsFrom(d, Fresh(nextKey))
    BY DEF SendsFrom, SendsIn, Fresh
  <1> QED BY <1>1, <1>2, <1>3, SendsAlready, NoStateSends, ChainsSlot

\* A new chain is split from a root unlike every root there is.
LEMMA SealChains ==
    ASSUME PathInv, KeysInv, ChainsApart, NEW p \in Process, Seal(p) \/ SealFirst(p)
    PROVE  ChainsApart'
  <1> PICK fresh, b : fresh = nextKey /\ b = nextKey'
    OBVIOUS
  <1>1. /\ UNCHANGED <<sent, file, tmp>> /\ SlotsInv
        /\ slot[p].stage = "loaded" /\ fresh \in Nat
    BY DEF Seal, SealFirst, PathInv, KeysInv
  <1>2. PICK s, handshake :
             /\ SealIn(p, s, fresh, handshake) /\ Tidy(s) /\ b \in {fresh, fresh + 1}
             /\ SessionInv(Sealing(s, fresh), b) /\ ~NeedsRotation(Sealing(s, fresh))
             /\ \/ s \in slot[p].mem.sessions /\ Sealing(s, fresh) = s
                \/ ~RootBelow(Sealing(s, fresh).send.key.root, fresh)
    BY SealsIs
  <1>3. PICK t : SealsInto(p, t, Encrypt(s, fresh), handshake)
    BY <1>1, <1>2, SealInSlot
  <1> DEFINE x == Sealing(s, fresh).send.key.root
  <1>4. Encrypt(s, fresh).session.send.key.root = x
    <2>1. b \in Nat
      BY <1>1, <1>2
    <2> QED BY <1>1, <1>2, <2>1, EncryptBelow
  <1>5. /\ Gets(p, t) /\ t.dev = slot[p].dev /\ slot[p].dev \in Device
        /\ \A r : SendsIn(t.mem, r) => r = x
    BY <1>1, <1>3, <1>4 DEF SealsInto, Moves, SendsIn, SlotsInv, SlotShaped
  <1>6. SendsOn(slot[p].dev, x) \/ ~RootBelow(x, fresh)
    BY <1>2 DEF SendsOn, SendsIn
  <1> HIDE DEF x
  <1>7. CASE SendsOn(slot[p].dev, x)
    <2>1. SendsFrom(t.dev, t.mem)
      BY <1>5, <1>7 DEF SendsFrom
    <2> QED BY <1>1, <1>5, <2>1, ChainsSlot
  <1>8. CASE ~RootBelow(x, fresh)
    <2>1. \A q \in Process : slot'[q] = IF q = p THEN t ELSE slot[q]
      BY <1>1, <1>5 DEF Gets, SlotsInv
    <2>2. ASSUME NEW d \in Device, NEW r, SendsOn(d, r)'
          PROVE  SendsOn(d, r) \/ (d = slot[p].dev /\ r = x)
      <3>1. CASE SendsIn(file'[d].state, r) \/ SendsIn(tmp'[d].state, r)
        BY <1>1, <3>1 DEF SendsOn
      <3>2. CASE \E q \in Process : slot'[q].dev = d /\ SendsIn(slot'[q].mem, r)
        BY <1>5, <2>1, <3>2 DEF SendsOn
      <3>3. CASE \E i \in DOMAIN sent' : sent'[i].from = d /\ sent'[i].key.root = r
        BY <1>1, <3>3 DEF SendsOn
      <3> QED BY <2>2, <3>1, <3>2, <3>3 DEF SendsOn
    <2>3. \A d \in Device : ~SendsOn(d, x)
      BY <1>8, SendsBelow
    <2> QED BY <2>2, <2>3 DEF ChainsApart
  <1> QED BY <1>6, <1>7, <1>8

LEMMA PostChains ==
    ASSUME PathInv, KeysInv, ChainsApart, NEW p \in Process, Post(p)
    PROVE  ChainsApart'
  <1> PICK env : env = slot[p].env
    OBVIOUS
  <1>1. /\ UNCHANGED <<file, tmp>> /\ SlotsInv
        /\ slot[p].stage = "posting" /\ sent' = Append(sent, env)
    BY DEF Post, Stored, PathInv
  <1>2. InHand(slot[p]) /\ sent \in Seq(Envelope) /\ env \in Envelope
    BY <1>1 DEF KeysInv, SlotBelow, EnvelopeBelow
  <1>3. SendsOn(env.from, env.key.root)
    BY <1>2 DEF InHand, SendsOn, SendsIn
  <1>4. \A i \in DOMAIN sent' : SendsOn(sent'[i].from, sent'[i].key.root)
    <2>1. \A i \in DOMAIN sent' : sent'[i] = env \/ (i \in DOMAIN sent /\ sent'[i] = sent[i])
      BY <1>1, <1>2
    <2> QED BY <1>3, <2>1, SendsAlready
  <1>5. PICK t : Gets(p, t) /\ (t.mem = NoState \/ (t.mem = slot[p].mem /\ t.dev = slot[p].dev))
    <2>1. CASE \E t : Moves(p, t, "saving") /\ t.mem = slot[p].mem
      BY <2>1 DEF Moves
    <2>2. CASE Gets(p, Idle)
      BY <2>2 DEF Idle
    <2> QED BY <1>1, <2>1, <2>2, PostSlot
  <1>6. \A q \in Process : SendsFrom(slot'[q].dev, slot'[q].mem)
    <2>1. \A q \in Process : slot'[q] = IF q = p THEN t ELSE slot[q]
      BY <1>1, <1>5 DEF Gets, SlotsInv
    <2> QED BY <1>5, <2>1, SendsAlready, NoStateSends
  <1>7. \A d \in Device : SendsFrom(d, file'[d].state) /\ SendsFrom(d, tmp'[d].state)
    BY <1>1, SendsAlready
  <1> QED BY <1>4, <1>6, <1>7, ChainsKept

\* Decrypt keeps the chain a session sends on, or drops it.
LEMMA HandleInboundSends ==
    ASSUME NEW d, NEW st, StateShaped(st), NEW b \in Nat, StateBelow(st, b), SendsFrom(d, st),
           NEW env, EnvelopeBelow(env, b), NEW out \in HandleInbound(st, env)
    PROVE  SendsFrom(d, out.state)
  <1>1. CASE out.state = st
    BY <1>1
  <1>2. ASSUME NEW s \in ReadIn(st, env), NEW o \in Decrypt(s, Message(env)),
               out.state.sessions = {o.session}
        PROVE  SendsFrom(d, out.state)
    <2>1. SessionInv(s, b)
      BY ReadInBelow
    <2>2. SendsAs(o.session, s)
      BY <2>1, DecryptSends DEF SessionInv
    <2>3. CASE s \in st.sessions
      BY <1>2, <2>2, <2>3 DEF SendsFrom, SendsIn, SendsAs, NeedsRotation
    <2>4. CASE s \notin st.sessions
      <3>1. PICK h : s = AcceptSession(st.prekey, h)
        BY <2>4, ReadInBelow
      <3>2. NeedsRotation(s)
        BY <3>1 DEF AcceptSession, NeedsRotation
      <3> QED BY <1>2, <2>2, <3>2 DEF SendsFrom, SendsIn, SendsAs, NeedsRotation
    <2> QED BY <2>3, <2>4
  <1> QED BY <1>1, <1>2, HandleInboundIs

LEMMA ReadEnvelopeChains ==
    ASSUME PathInv, KeysInv, ChainsApart, NEW p \in Process, ReadEnvelope(p)
    PROVE  ChainsApart'
  <1>1. /\ UNCHANGED <<sent, file, tmp>> /\ SlotsInv /\ FilesShaped /\ nextKey \in Nat
    BY DEF ReadEnvelope, PathInv, KeysInv
  <1>2. /\ SlotShaped(slot[p]) /\ StateShaped(StateOf(p))
    BY <1>1, ReadEnvelopeSlot
  <1>3. /\ StateBelow(StateOf(p), nextKey) /\ SendsFrom(slot[p].dev, StateOf(p))
        /\ SendsFrom(slot[p].dev, slot[p].mem)
    BY <1>2, SendsAlready DEF StateOf, KeysInv, SlotBelow, SlotShaped
  <1> PICK i \in Pushed(p) : \E out \in HandleInbound(StateOf(p), sent[i]) :
              \E t : Handled(p, i, out, t)
    BY <1>1, ReadEnvelopeSlot
  <1>4. PICK out \in HandleInbound(StateOf(p), sent[i]) : \E t : Handled(p, i, out, t)
    OBVIOUS
  <1>5. PICK t : Handled(p, i, out, t)
    BY <1>4
  <1>6. SendsFrom(slot[p].dev, out.state)
    <2>1. EnvelopeBelow(sent[i], nextKey)
      BY DEF Pushed, KeysInv
    <2> QED BY <1>1, <1>2, <1>3, <2>1, HandleInboundSends
  <1>7. Gets(p, t) /\ SendsFrom(t.dev, t.mem)
    BY <1>3, <1>5, <1>6 DEF Handled, Moves
  <1> QED BY <1>1, <1>7, ChainsSlot

\* The steps that go on with the state in memory, or end.
LEMMA QuietChains ==
    ASSUME PathInv, ChainsApart, NEW p \in Process,
           \/ Register(p) \/ PrintText(p) \/ LoseAnswer(p)
           \/ Disconnect(p) \/ RenameFails(p) \/ Crash(p)
    PROVE  ChainsApart'
  <1>1. UNCHANGED <<sent, file, tmp>> /\ SlotsInv
    BY DEF Register, PrintText, LoseAnswer, Disconnect, RenameFails, Crash, PathInv
  <1>2. PICK t : Gets(p, t) /\ (t.mem = NoState \/ (t.mem = slot[p].mem /\ t.dev = slot[p].dev))
    <2>1. Idle.mem = NoState
      BY DEF Idle
    <2>2. CASE Register(p)
      <3>1. CASE \E t : Moves(p, t, "saving") /\ t.mem = slot[p].mem
        BY <3>1 DEF Moves
      <3>2. CASE Gets(p, Idle)
        BY <2>1, <3>2
      <3> QED BY <1>1, <2>2, <3>1, <3>2, RegisterSlot
    <2>3. CASE PrintText(p)
      BY <1>1, <2>3, PrintTextSlot DEF Moves
    <2>4. CASE LoseAnswer(p)
      BY <1>1, <2>4, LoseAnswerSlot DEF Moves
    <2>5. CASE Disconnect(p) \/ RenameFails(p) \/ Crash(p)
      BY <1>1, <2>1, <2>5, EndsSlot
    <2> QED BY <2>2, <2>3, <2>4, <2>5
  <1> QED BY <1>1, <1>2, SendsAlready, NoStateSends, ChainsSlot

\* The steps that put the state in memory into a file, or a file in place.
LEMMA SaveChains ==
    ASSUME PathInv, KeysInv, ChainsApart, NEW p \in Process,
           \/ OpenTmp(p) \/ WriteTmp(p) \/ Rename(p) \/ ClientInitReturns(p)
           \/ ClientSendReturns(p) \/ ClientEnvelopeReturns(p)
    PROVE  ChainsApart'
  <1> DEFINE d == slot[p].dev
             saved == Marshalled(slot[p].mem)
  <1>1. UNCHANGED sent /\ SlotsInv /\ FilesShaped /\ SlotShaped(slot[p])
    BY DEF OpenTmp, WriteTmp, Rename, ClientInitReturns, ClientSendReturns,
           ClientEnvelopeReturns, Returns, PathInv, SlotsInv
  <1>2. \A form : Bad(form).state = NoState
    BY DEF Bad
  <1>3. SendsFrom(d, saved.state)
    <2>1. StateBelow(slot[p].mem, nextKey) /\ StateShaped(slot[p].mem)
      BY <1>1 DEF KeysInv, SlotBelow, SlotShaped
    <2> QED BY <2>1, SendsAlready, MarshalledSends
  <1> HIDE DEF saved
  <1>4. PICK c, e : /\ SendsFrom(d, c.state) /\ SendsFrom(d, e.state)
                    /\ file' = file \/ file' = [file EXCEPT ![d] = c]
                    /\ tmp' = tmp \/ tmp' = [tmp EXCEPT ![d] = e]
    <2>1. CASE OpenTmp(p)
      BY <1>2, <2>1, NoStateSends DEF OpenTmp
    <2>2. CASE WriteTmp(p)
      <3>1. PICK c : /\ c = saved \/ c = Bad("torn")
                     /\ \/ tmp' = [tmp EXCEPT ![d] = c] /\ UNCHANGED file
                        \/ file' = [file EXCEPT ![d] = c] /\ UNCHANGED tmp
                        \/ UNCHANGED <<file, tmp>>
        BY <2>2, WriteTmpIs DEF saved
      <3>2. SendsFrom(d, c.state)
        BY <1>2, <1>3, <3>1, NoStateSends
      <3> QED BY <3>1, <3>2
    <2>3. CASE Rename(p)
      <3>1. /\ file' = [file EXCEPT ![d] = tmp[d]]
            /\ tmp' = [tmp EXCEPT ![d] = Bad("absent")]
        BY <2>3 DEF Rename
      <3>2. SendsFrom(d, tmp[d].state) /\ SendsFrom(d, Bad("absent").state)
        BY <1>1, <1>2, SendsAlready, NoStateSends DEF SlotShaped
      <3> QED BY <3>1, <3>2
    <2>4. CASE ClientInitReturns(p) \/ ClientSendReturns(p) \/ ClientEnvelopeReturns(p)
      <3>1. file' = [file EXCEPT ![d] = saved] /\ UNCHANGED tmp
        BY <2>4 DEF ClientInitReturns, ClientSendReturns, ClientEnvelopeReturns, Returns, saved
      <3> QED BY <1>3, <3>1
    <2> QED BY <2>1, <2>2, <2>3, <2>4
  <1>5. \A g \in Device : SendsFrom(g, file'[g].state) /\ SendsFrom(g, tmp'[g].state)
    BY <1>1, <1>4, SendsAlready DEF FilesShaped
  <1>6. \A q \in Process :
           \/ slot'[q].mem = NoState
           \/ slot'[q].mem = slot[q].mem /\ slot'[q].dev = slot[q].dev
    <2>1. Idle.mem = NoState
      BY DEF Idle
    <2>2. CASE OpenTmp(p)
      BY <1>1, <2>2, OpenTmpSlot DEF Moves, Gets, SlotsInv
    <2>3. CASE WriteTmp(p)
      BY <1>1, <2>3, WriteTmpSlot DEF Moves, Gets, SlotsInv
    <2>4. CASE Rename(p)
      BY <1>1, <2>1, <2>4, RenameSlots
    <2>5. CASE ClientInitReturns(p) \/ ClientSendReturns(p) \/ ClientEnvelopeReturns(p)
      BY <1>1, <2>1, <2>5, ReturnsSlot DEF Moves, Gets, SlotsInv
    <2> QED BY <2>2, <2>3, <2>4, <2>5
  <1>7. \A q \in Process : SendsFrom(slot'[q].dev, slot'[q].mem)
    BY <1>6, SendsAlready, NoStateSends
  <1> QED BY <1>1, <1>5, <1>7, SendsAlready, ChainsKept

LEMMA ChainsStep ==
    ASSUME PathInv, KeysInv, ChainsApart, [Next]_vars
    PROVE  ChainsApart'
  <1>1. ASSUME NEW p \in Process, NEW d \in Device,
               StartInit(p, d) \/ StartSend(p, d) \/ StartListen(p, d)
        PROVE  ChainsApart'
    BY <1>1, StartChains
  <1>2. ASSUME NEW p \in Process, Seal(p) \/ SealFirst(p) PROVE ChainsApart'
    BY <1>2, SealChains
  <1>3. ASSUME NEW p \in Process, Post(p) PROVE ChainsApart'
    BY <1>3, PostChains
  <1>4. ASSUME NEW p \in Process, ReadEnvelope(p) PROVE ChainsApart'
    BY <1>4, ReadEnvelopeChains
  <1>5. ASSUME NEW p \in Process, \/ Register(p) \/ PrintText(p) \/ LoseAnswer(p)
                                  \/ Disconnect(p) \/ RenameFails(p) \/ Crash(p)
        PROVE  ChainsApart'
    BY <1>5, QuietChains
  <1>6. ASSUME NEW p \in Process, \/ OpenTmp(p) \/ WriteTmp(p) \/ Rename(p)
                                  \/ ClientInitReturns(p) \/ ClientSendReturns(p)
                                  \/ ClientEnvelopeReturns(p)
        PROVE  ChainsApart'
    BY <1>6, SaveChains
  <1>7. CASE UNCHANGED vars
    BY <1>7, SendsAlready, ChainsKept DEF vars
  <1> QED BY <1>1, <1>2, <1>3, <1>4, <1>5, <1>6, <1>7 DEF Next

-----------------------------------------------------------------------------
(* Saved states: what a command goes on from is not behind what it did.    *)

\* State st cannot be made to open an envelope that was sealed with key k.
StateDead(st, k) ==
    /\ \A s \in st.sessions : Dead(s, k)
    /\ st.sessions = {} => st.prekey \notin Head(k.root)

\* Every envelope that is stored was sealed before key k was taken.
Ahead(k) ==
    \A i \in DOMAIN sent : sent[i].key.root = k.root => sent[i].key.step < k.step

Shown(d) == {i \in DOMAIN sent : sent[i].from = Peer(d) /\ printed[i] > 0}

\* State st is not behind what the commands of device d of that kind did.
Good(cmd, d, st) ==
    IF cmd = "listen" THEN \A i \in Shown(d) : StateDead(st, sent[i].key)
    ELSE \A s \in st.sessions : Ahead(s.send.key)

\* A slot whose process or call is about to replace what the path of d names.
Replaces(s, d, cmd) ==
    /\ s.dev = d /\ s.cmd = cmd
    /\ s.stage \in {"saving", "writing", "renaming"}
    /\ cmd = "listen" => d \in Cli

Intact(d, cmd) == d \notin overlapped /\ <<d, cmd>> \notin cut

Kinds == {"send", "listen"}

HeldGood(d, cmd) ==
    \A p \in Process : IsBusy(slot[p]) /\ slot[p].dev = d => Good(cmd, d, slot[p].mem)

PathGood(d, cmd) ==
    \/ file[d].form # "whole"
    \/ Good(cmd, d, file[d].state)
    \/ \E p \in Process : Replaces(slot[p], d, cmd)

SavedInv ==
    /\ \A d \in Device, cmd \in Kinds : Intact(d, cmd) => HeldGood(d, cmd) /\ PathGood(d, cmd)
    /\ \A p \in Process : slot[p].dev \notin overlapped /\ slot[p].stage = "renaming" =>
         tmp[slot[p].dev] = Marshalled(slot[p].mem)
    /\ \A p \in Process : slot[p].cmd = "listen" =>
         slot[p].dev \in Cli \/ file[slot[p].dev].form = "whole"

\* A slot that holds a text which is shown next.
Shows(s) ==
    \/ s.stage = "printing"
    \/ s.stage = "saving" /\ s.cmd = "listen" /\ s.dev \notin Cli

ShowInv ==
    /\ printed \in Seq(Nat) /\ Len(printed) = Len(sent)
    /\ \A d \in Device : Intact(d, "listen") => \A i \in Shown(d) : printed[i] = 1
    /\ \A p \in Process : Shows(slot[p]) =>
         /\ slot[p].at \in DOMAIN sent /\ sent[slot[p].at].from = Peer(slot[p].dev)
         /\ Intact(slot[p].dev, "listen") =>
              printed[slot[p].at] = 0 /\ StateDead(slot[p].mem, sent[slot[p].at].key)

PostInv ==
    \A d \in Device : Intact(d, "send") =>
        /\ \A p \in Process : slot[p].dev = d /\ slot[p].stage = "posting" =>
             Ahead(slot[p].env.key)
        /\ \A i, j \in DOMAIN sent : sent[i].from = d /\ sent[i].key = sent[j].key => i = j

LEMMA SentKeys ==
    ASSUME KeysInv, NEW i \in DOMAIN sent
    PROVE  /\ EnvelopeBelow(sent[i], nextKey) /\ sent[i].from \in Device
           /\ sent[i].key \in ChainKey /\ sent[i].key.root \in RootKey
           /\ sent[i].key.root # <<>> /\ sent[i].key.step \in Nat
           /\ nextKey \notin Head(sent[i].key.root)
  <1>1. /\ EnvelopeBelow(sent[i], nextKey) /\ sent[i].from \in Device
        /\ sent[i].key \in ChainKey /\ sent[i].key.root \in RootKey
        /\ sent[i].key.root # <<>> /\ sent[i].key.step \in Nat
        /\ RootBelow(sent[i].key.root, nextKey) /\ nextKey \in Nat
    BY DEF KeysInv, EnvelopeBelow, Envelope, ChainKey
  <1>2. 1 \in DOMAIN sent[i].key.root /\ Head(sent[i].key.root) = sent[i].key.root[1]
    BY <1>1 DEF RootKey
  <1>3. nextKey \notin Head(sent[i].key.root)
    BY <1>1, <1>2 DEF RootBelow
  <1> QED BY <1>1, <1>3

\* A session whose first secret key k does not begin with.
LEMMA FirstDead ==
    ASSUME NEW k \in ChainKey, k.root # <<>>, NEW x \in Nat, NEW y \in Nat,
           x \notin Head(k.root)
    PROVE  Dead(InitSession(x, y), k) /\ Dead(AcceptSession(x, y), k)
  <1>1. /\ Head(<<DH(x, y)>>) # Head(k.root) /\ Head(<<DH(y, x)>>) # Head(k.root)
        /\ <<DH(y, x)>> # k.root
    BY DEF DH
  <1>2. /\ InitSession(x, y).root = <<DH(x, y)>> /\ InitSession(x, y).recv.key = ZeroKey
        /\ InitSession(x, y).skipped = {}
    BY DEF InitSession
  <1>3. /\ AcceptSession(x, y).root = <<DH(y, x)>>
        /\ AcceptSession(x, y).recv.key.root = <<DH(y, x)>>
        /\ AcceptSession(x, y).skipped = {}
    BY DEF AcceptSession, FirstChainKey
  <1>4. ZeroKey.root = <<>>
    BY DEF ZeroKey
  <1> QED BY <1>1, <1>2, <1>3, <1>4 DEF Dead, Passed, Behind

LEMMA FreshGood ==
    ASSUME KeysInv, NEW d, NEW cmd
    PROVE  Good(cmd, d, Fresh(nextKey))
  <1>1. Fresh(nextKey).sessions = {} /\ Fresh(nextKey).prekey = nextKey
    BY DEF Fresh
  <1> QED BY <1>1, SentKeys DEF Good, StateDead, Shown

\* What is saved opens nothing that the state in memory does not.
LEMMA MarshalledDead ==
    ASSUME NEW st, StateShaped(st), NEW b, StateBelow(st, b),
           NEW k \in ChainKey, StateDead(st, k)
    PROVE  StateDead(Marshalled(st).state, k)
  <1>1. ASSUME NEW s \in st.sessions PROVE Dead(ExportImport(s), k)
    BY <1>1, ExportDead DEF StateDead, StateBelow, SessionInv
  <1> QED BY <1>1, MarshalledIs DEF StateDead

LEMMA MarshalledGood ==
    ASSUME KeysInv, NEW d, NEW cmd, NEW st, StateShaped(st), StateBelow(st, nextKey),
           Good(cmd, d, st)
    PROVE  Good(cmd, d, Marshalled(st).state)
  <1> DEFINE mst == Marshalled(st).state
  <1>1. mst.prekey = st.prekey /\ mst.sessions = {ExportImport(s) : s \in st.sessions}
    BY MarshalledIs
  <1> HIDE DEF mst
  <1>2. CASE cmd = "listen"
    <2>1. ASSUME NEW i \in Shown(d) PROVE StateDead(mst, sent[i].key)
      <3>1. sent[i].key \in ChainKey /\ StateDead(st, sent[i].key)
        BY <1>2, SentKeys DEF Good, Shown
      <3> QED BY <3>1, MarshalledDead DEF mst
    <2> QED BY <1>2, <2>1 DEF Good, mst
  <1>3. CASE cmd # "listen"
    <2>1. ASSUME NEW s \in st.sessions PROVE Ahead(ExportImport(s).send.key)
      <3>1. ExportImport(s).send = s.send
        BY ExportSends DEF StateBelow, SessionInv
      <3> QED BY <1>3, <3>1 DEF Good
    <2> QED BY <1>1, <1>3, <2>1 DEF Good, mst
  <1> QED BY <1>2, <1>3

\* Encrypt leaves no sending chain behind, and no key alive.
LEMMA SealGood ==
    ASSUME KeysInv, NEW d, NEW st, StateBelow(st, nextKey), NEW fresh, fresh = nextKey,
           NEW s, Tidy(s), NEW b \in Nat,
           SessionInv(Sealing(s, fresh), b), ~NeedsRotation(Sealing(s, fresh)),
           \/ s \in st.sessions
           \/ st.sessions = {} /\ \E bundle \in Nat : s = InitSession(fresh, bundle),
           \/ s \in st.sessions /\ Sealing(s, fresh) = s
           \/ ~RootBelow(Sealing(s, fresh).send.key.root, fresh),
           NEW mem, mem.sessions = {Encrypt(s, fresh).session}
    PROVE  /\ Good("listen", d, st) => Good("listen", d, mem)
           /\ Good("send", d, st) => Ahead(Encrypt(s, fresh).key) /\ Good("send", d, mem)
  <1> DEFINE e == Encrypt(s, fresh)
             r == Sealing(s, fresh)
  <1>1. fresh \in Nat
    BY DEF KeysInv
  <1>2. /\ e.key \in ChainKey /\ e.key = r.send.key
        /\ e.session.send.key.root = e.key.root
        /\ e.session.send.key.step = e.key.step + 1
    BY <1>1, EncryptBelow
  <1>3. \A k \in ChainKey : Dead(s, k) => Dead(e.session, k)
    BY <1>1, EncryptDead
  <1> HIDE DEF e, r
  <1>4. ASSUME Good("listen", d, st), NEW i \in Shown(d)
        PROVE  StateDead(mem, sent[i].key)
    <2>1. /\ sent[i].key \in ChainKey /\ sent[i].key.root # <<>>
          /\ fresh \notin Head(sent[i].key.root) /\ StateDead(st, sent[i].key)
      BY <1>4, SentKeys DEF Good, Shown
    <2>2. Dead(s, sent[i].key)
      BY <1>1, <2>1, FirstDead DEF StateDead
    <2> QED BY <1>3, <2>1, <2>2 DEF StateDead, e
  <1>5. ASSUME Good("send", d, st) PROVE Ahead(e.key) /\ Ahead(e.session.send.key)
    <2>1. ASSUME NEW i \in DOMAIN sent, sent[i].key.root = e.key.root
          PROVE  sent[i].key.step < e.key.step
      <3>1. RootBelow(sent[i].key.root, fresh)
        BY SentKeys DEF EnvelopeBelow
      <3>2. s \in st.sessions /\ e.key = s.send.key
        BY <1>2, <2>1, <3>1 DEF r
      <3> QED BY <1>5, <2>1, <3>2 DEF Good, Ahead
    <2>2. ASSUME NEW i \in DOMAIN sent PROVE sent[i].key.step \in Nat
      BY SentKeys
    <2>3. e.key.step \in Nat
      BY <1>2 DEF ChainKey
    <2> QED BY <1>2, <2>1, <2>2, <2>3 DEF Ahead
  <1> QED BY <1>4, <1>5 DEF Good, e

\* A text is read from an envelope only if it was not shown before, and then
\* its key is dead; reading leaves no sending chain behind.
LEMMA HandleGood ==
    ASSUME KeysInv, printed \in Seq(Nat), Len(printed) = Len(sent), NEW d, NEW cmd,
           NEW st, StateShaped(st), StateBelow(st, nextKey), Good(cmd, d, st),
           NEW i \in DOMAIN sent, sent[i].from = Peer(d),
           NEW out \in HandleInbound(st, sent[i])
    PROVE  /\ Good(cmd, d, out.state)
           /\ cmd = "listen" /\ out.result = "read" =>
                printed[i] = 0 /\ StateDead(out.state, sent[i].key)
  <1>1. CASE out.state = st /\ out.result # "read"
    BY <1>1
  <1>2. ASSUME NEW s \in ReadIn(st, sent[i]), NEW o \in Decrypt(s, Message(sent[i])),
               out.state.sessions = {o.session}, out.result = o.result
        PROVE  /\ Good(cmd, d, out.state)
               /\ cmd = "listen" /\ out.result = "read" =>
                    printed[i] = 0 /\ StateDead(out.state, sent[i].key)
    <2>1. nextKey \in Nat /\ EnvelopeBelow(sent[i], nextKey) /\ sent[i].key \in ChainKey
      BY SentKeys DEF KeysInv
    <2>2. /\ SessionInv(s, nextKey) /\ Tidy(s)
          /\ \/ s \in st.sessions
             \/ /\ st.sessions = {} /\ sent[i].handshake \in Nat
                /\ s = AcceptSession(st.prekey, sent[i].handshake)
      BY <2>1, ReadInBelow DEF SessionInv
    <2>3. /\ \A k \in ChainKey : Dead(s, k) => Dead(o.session, k)
          /\ o.result = "read" => ~Dead(s, sent[i].key) /\ Dead(o.session, sent[i].key)
      BY <2>1, <2>2, MessageBelow, DecryptDead
    <2>4. ASSUME NEW j \in DOMAIN sent, StateDead(st, sent[j].key)
          PROVE  Dead(s, sent[j].key)
      <3>1. sent[j].key \in ChainKey /\ sent[j].key.root # <<>> /\ st.prekey \in Nat
        BY SentKeys DEF StateBelow
      <3> QED BY <2>2, <2>4, <3>1, FirstDead DEF StateDead
    <2>5. CASE cmd = "listen"
      <3>1. ASSUME NEW j \in Shown(d) PROVE StateDead(out.state, sent[j].key)
        <4>1. j \in DOMAIN sent /\ sent[j].key \in ChainKey /\ StateDead(st, sent[j].key)
          BY <2>5, SentKeys DEF Shown, Good
        <4> QED BY <1>2, <2>3, <2>4, <4>1 DEF StateDead
      <3>2. ASSUME out.result = "read"
            PROVE  printed[i] = 0 /\ StateDead(out.state, sent[i].key)
        <4>1. ~StateDead(st, sent[i].key) /\ StateDead(out.state, sent[i].key)
          BY <1>2, <2>3, <2>4, <3>2 DEF StateDead
        <4>2. i \notin Shown(d)
          BY <2>5, <4>1 DEF Good
        <4>3. printed[i] \in Nat
          OBVIOUS
        <4> QED BY <4>1, <4>2, <4>3 DEF Shown
      <3> QED BY <2>5, <3>1, <3>2 DEF Good
    <2>6. CASE cmd # "listen"
      <3>1. SendsAs(o.session, s)
        BY <2>2, DecryptSends
      <3>2. ASSUME NEW t, NeedsRotation(t) PROVE Ahead(t.send.key)
        BY <3>2, SentKeys DEF NeedsRotation, ZeroKey, Ahead
      <3>3. NeedsRotation(s) \/ Ahead(s.send.key)
        <4>1. CASE s \in st.sessions
          BY <2>6, <4>1 DEF Good
        <4>2. CASE s = AcceptSession(st.prekey, sent[i].handshake)
          BY <4>2 DEF AcceptSession, NeedsRotation
        <4> QED BY <2>2, <4>1, <4>2
      <3>4. Ahead(o.session.send.key)
        BY <3>1, <3>2, <3>3 DEF SendsAs, NeedsRotation
      <3> QED BY <1>2, <2>6, <3>4 DEF Good
    <2> QED BY <2>5, <2>6
  <1> QED BY <1>1, <1>2, HandleInboundIs

-----------------------------------------------------------------------------
(* Saved states: the steps of one slot.                                    *)

\* Slot p gets t.  Whoever held a good state keeps it good, or t is about to
\* replace it and nobody else of that device holds one.
LEMMA SavedSlot ==
    ASSUME PathInv, SavedInv, NEW p \in Process, NEW t, Gets(p, t),
           UNCHANGED <<file, tmp>>, overlapped \subseteq overlapped', cut \subseteq cut',
           t.stage # "renaming",
           t.cmd = "listen" => t.dev \in Cli \/ file[t.dev].form = "whole",
           \A d \in Device, cmd \in Kinds : Intact(d, cmd)' =>
             /\ \/ \A st : SendsFrom(d, st) /\ Good(cmd, d, st) => Good(cmd, d, st)'
                \/ slot[p].dev = d /\ IsBusy(slot[p]) /\ Replaces(t, d, cmd)
             /\ t.dev = d /\ IsBusy(t) => Good(cmd, d, t.mem)'
             /\ Replaces(slot[p], d, cmd) => Replaces(t, d, cmd)
    PROVE  SavedInv'
  <1>1. \A q \in Process : slot'[q] = IF q = p THEN t ELSE slot[q]
    BY DEF Gets, PathInv, SlotsInv
  <1>2. ASSUME NEW d \in Device, NEW cmd \in Kinds, Intact(d, cmd)'
        PROVE  HeldGood(d, cmd)' /\ PathGood(d, cmd)'
    <2>1. Intact(d, cmd) /\ HeldGood(d, cmd) /\ PathGood(d, cmd) /\ d \notin overlapped
      BY <1>2 DEF Intact, SavedInv
    <2>2. t.dev = d /\ IsBusy(t) => Good(cmd, d, t.mem)'
      BY <1>2
    <2>3. ASSUME NEW q \in Process, q # p, IsBusy(slot[q]), slot[q].dev = d
          PROVE  Good(cmd, d, slot[q].mem)'
      <3> PICK st : st = slot[q].mem
        OBVIOUS
      <3>1. ~(slot[p].dev = d /\ IsBusy(slot[p]))
        BY <2>1, <2>3 DEF PathInv, SlotsInv, OneAtATime
      <3>2. Good(cmd, d, st) /\ SendsFrom(d, st)
        BY <2>1, <2>3, SendsAlready DEF HeldGood
      <3>3. Good(cmd, d, st)'
        BY <1>2, <3>1, <3>2
      <3>4. st = slot'[q].mem
        BY <1>1, <2>3
      <3> QED BY <1>1, <2>3, <3>3, <3>4 DEF Good, Shown, Ahead
    <2>4. HeldGood(d, cmd)'
      <3> SUFFICES ASSUME NEW q \in Process, IsBusy(slot'[q]), slot'[q].dev = d
                   PROVE  Good(cmd, d, slot[q].mem)'
        BY DEF HeldGood, IsBusy
      <3>1. CASE q = p
        BY <1>1, <2>2, <3>1 DEF Good, Shown, Ahead
      <3>2. CASE q # p
        BY <1>1, <2>3, <3>2 DEF Good, Shown, Ahead
      <3> QED BY <3>1, <3>2
    <2>5. PathGood(d, cmd)'
      <3>1. CASE \E q \in Process : Replaces(slot[q], d, cmd)
        <4>1. PICK q \in Process : Replaces(slot[q], d, cmd)
          BY <3>1
        <4>2. Replaces(slot'[q], d, cmd)
          BY <1>1, <1>2, <4>1
        <4> QED BY <4>2 DEF PathGood, Replaces
      <3>2. CASE file[d].form # "whole"
        BY <3>2 DEF PathGood
      <3>3. CASE Good(cmd, d, file[d].state)
        <4> PICK st : st = file[d].state
          OBVIOUS
        <4>1. CASE Good(cmd, d, st)'
          <5>1. st = file'[d].state
            OBVIOUS
          <5> QED BY <4>1, <5>1 DEF PathGood, Good, Shown, Ahead
        <4>2. CASE Replaces(t, d, cmd)
          <5>1. Replaces(slot'[p], d, cmd)
            BY <1>1, <4>2
          <5> QED BY <5>1 DEF PathGood, Replaces
        <4>3. SendsFrom(d, st)
          BY SendsAlready
        <4> QED BY <1>2, <3>3, <4>1, <4>2, <4>3
      <3> QED BY <2>1, <3>1, <3>2, <3>3 DEF PathGood
    <2> QED BY <2>4, <2>5
  <1>3. \A q \in Process : slot'[q].dev \notin overlapped' /\ slot'[q].stage = "renaming" =>
          tmp'[slot'[q].dev] = Marshalled(slot'[q].mem)
    BY <1>1 DEF SavedInv
  <1>4. \A q \in Process : slot'[q].cmd = "listen" =>
          slot'[q].dev \in Cli \/ file'[slot'[q].dev].form = "whole"
    BY <1>1 DEF SavedInv
  <1> QED BY <1>2, <1>3, <1>4 DEF SavedInv

\* What is good depends on what is stored and shown alone.
LEMMA GoodSame ==
    ASSUME UNCHANGED <<sent, printed>>
    PROVE  /\ \A cmd, d, st : Good(cmd, d, st)' <=> Good(cmd, d, st)
           /\ \A k : Ahead(k)' <=> Ahead(k)
           /\ \A d : Shown(d)' = Shown(d)
  BY DEF Good, Ahead, Shown

\* Slot p gets t; nothing is stored or shown.
LEMMA SavedQuietly ==
    ASSUME PathInv, SavedInv, NEW p \in Process, NEW t, Gets(p, t),
           UNCHANGED <<file, tmp, sent, printed>>,
           overlapped \subseteq overlapped', cut \subseteq cut', t.stage # "renaming",
           t.cmd = "listen" => t.dev \in Cli \/ file[t.dev].form = "whole",
           \A d \in Device, cmd \in Kinds : Intact(d, cmd)' =>
             /\ t.dev = d /\ IsBusy(t) => Good(cmd, d, t.mem)
             /\ Replaces(slot[p], d, cmd) => Replaces(t, d, cmd)
    PROVE  SavedInv'
  <1> PICK mem : mem = t.mem
    OBVIOUS
  <1>1. \A d \in Device, cmd \in Kinds : Intact(d, cmd)' =>
             /\ \/ \A st : SendsFrom(d, st) /\ Good(cmd, d, st) => Good(cmd, d, st)'
                \/ slot[p].dev = d /\ IsBusy(slot[p]) /\ Replaces(t, d, cmd)
             /\ t.dev = d /\ IsBusy(t) => Good(cmd, d, mem)'
             /\ Replaces(slot[p], d, cmd) => Replaces(t, d, cmd)
    BY GoodSame
  <1> QED BY <1>1, SavedSlot

\* The texts that slots hold stay the ones they held.
LEMMA ShowKept ==
    ASSUME KeysInv, ShowInv, UNCHANGED <<sent, printed>>,
           overlapped \subseteq overlapped', cut \subseteq cut',
           \A q \in Process : Shows(slot'[q]) =>
             /\ Shows(slot[q]) /\ slot'[q].at = slot[q].at /\ slot'[q].dev = slot[q].dev
             /\ slot'[q].mem = slot[q].mem
    PROVE  ShowInv'
  <1>1. \A d, cmd : Intact(d, cmd)' => Intact(d, cmd)
    BY DEF Intact
  <1>2. \A d \in Device : Intact(d, "listen")' => \A i \in Shown(d)' : printed'[i] = 1
    BY <1>1, GoodSame DEF ShowInv
  <1>3. ASSUME NEW q \in Process, Shows(slot'[q])
        PROVE  /\ slot'[q].at \in DOMAIN sent'
               /\ sent'[slot'[q].at].from = Peer(slot'[q].dev)
               /\ Intact(slot[q].dev, "listen")' =>
                    /\ printed'[slot'[q].at] = 0
                    /\ StateDead(slot'[q].mem, sent'[slot'[q].at].key)
    <2>1. Shows(slot[q]) /\ slot'[q].at = slot[q].at /\ slot'[q].dev = slot[q].dev
          /\ slot'[q].mem = slot[q].mem
      BY <1>3
    <2>2. Intact(slot[q].dev, "listen")' => Intact(slot[q].dev, "listen")
      BY <2>1 DEF Intact
    <2> QED BY <2>1, <2>2 DEF ShowInv
  <1> QED BY <1>2, <1>3 DEF ShowInv

\* The envelopes to be posted stay the ones there were.
LEMMA PostKept ==
    ASSUME PostInv, UNCHANGED sent, overlapped \subseteq overlapped', cut \subseteq cut',
           \A q \in Process : slot'[q].stage = "posting" =>
             /\ slot[q].stage = "posting" /\ slot'[q].env = slot[q].env
             /\ slot'[q].dev = slot[q].dev
    PROVE  PostInv'
  <1>1. \A k : Ahead(k)' <=> Ahead(k)
    BY DEF Ahead
  <1>2. ASSUME NEW d \in Device, Intact(d, "send")'
        PROVE  /\ \A p \in Process : slot'[p].dev = d /\ slot'[p].stage = "posting" =>
                    Ahead(slot[p].env.key)'
               /\ \A i, j \in DOMAIN sent :
                    sent[i].from = d /\ sent[i].key = sent[j].key => i = j
    <2>1. Intact(d, "send")
      BY <1>2 DEF Intact
    <2>2. ASSUME NEW p \in Process, slot'[p].dev = d, slot'[p].stage = "posting"
          PROVE  Ahead(slot[p].env.key)'
      <3> PICK k : k = slot[p].env.key
        OBVIOUS
      <3>1. Ahead(k)'
        BY <1>1, <2>1, <2>2 DEF PostInv
      <3>2. k = slot'[p].env.key
        BY <2>2
      <3> QED BY <3>1, <3>2 DEF Ahead
    <2> QED BY <2>1, <2>2 DEF PostInv
  <1> QED BY <1>2 DEF PostInv

LEMMA InitSaved == Init => SavedInv /\ ShowInv /\ PostInv
  <1> SUFFICES ASSUME Init PROVE SavedInv /\ ShowInv /\ PostInv
    OBVIOUS
  <1>1. DOMAIN sent = {} /\ sent = <<>> /\ printed = <<>> /\ \A d : Shown(d) = {}
    BY DEF Init, Shown
  <1>2. \A k : Ahead(k)
    BY <1>1 DEF Ahead
  <1>3. \A cmd, d, st : Good(cmd, d, st)
    BY <1>1, <1>2 DEF Good
  <1>4. \A p \in Process : slot[p].stage = "idle" /\ slot[p].cmd = "init"
    BY DEF Init, Idle
  <1>5. SavedInv
    BY <1>3, <1>4 DEF SavedInv, HeldGood, PathGood
  <1>6. ShowInv
    BY <1>1, <1>4 DEF ShowInv, Shows
  <1>7. PostInv
    BY <1>1, <1>4 DEF PostInv
  <1> QED BY <1>5, <1>6, <1>7

-----------------------------------------------------------------------------
(* Saved states: the actions.                                              *)

\* Where NoteOverlap notes nothing, nobody else of the device is busy.
LEMMA NoOther ==
    ASSUME NEW p \in Process, NEW d, NoteOverlap(p, d)
    PROVE  /\ overlapped \subseteq overlapped'
           /\ d \notin overlapped' =>
                \A q \in Process \ {p} : ~(IsBusy(slot[q]) /\ slot[q].dev = d)
  <1>1. CASE Busy(d) \ {p} = {}
    <2>1. ASSUME NEW q \in Process \ {p}, IsBusy(slot[q]), slot[q].dev = d
          PROVE  FALSE
      <3>1. q \in Busy(d)
        BY <2>1 DEF Busy, IsBusy
      <3> QED BY <3>1, <1>1
    <2> QED BY <1>1, <2>1 DEF NoteOverlap
  <1>2. CASE Busy(d) \ {p} # {}
    BY <1>2 DEF NoteOverlap
  <1> QED BY <1>1, <1>2

LEMMA ReplacesBusy ==
    ASSUME NEW s, NEW d, NEW cmd, Replaces(s, d, cmd), SlotShaped(s)
    PROVE  IsBusy(s) /\ s.dev = d /\ s.cmd = cmd
  BY DEF Replaces, IsBusy, SlotShaped

\* Slot p gets t, which has no text to show and no envelope to post.
LEMMA ShownQuietly ==
    ASSUME PathInv, KeysInv, ShowInv, PostInv, NEW p \in Process, NEW t, Gets(p, t),
           UNCHANGED <<sent, printed>>, overlapped \subseteq overlapped', cut \subseteq cut',
           ~Shows(t), t.stage # "posting"
    PROVE  ShowInv' /\ PostInv'
  <1>1. \A q \in Process : slot'[q] = IF q = p THEN t ELSE slot[q]
    BY DEF Gets, PathInv, SlotsInv
  <1>2. ShowInv'
    BY <1>1, ShowKept
  <1>3. PostInv'
    BY <1>1, PostKept
  <1> QED BY <1>2, <1>3

\* What a command starts from is what the file has, which is good unless
\* somebody else is about to replace it.
LEMMA FileGood ==
    ASSUME PathInv, SavedInv, NEW p \in Process, ~IsBusy(slot[p]), NEW d \in Device,
           NoteOverlap(p, d), file[d].form = "whole", cut \subseteq cut',
           NEW cmd \in Kinds, Intact(d, cmd)'
    PROVE  Good(cmd, d, file[d].state)
  <1>1. Intact(d, cmd) /\ \A q \in Process \ {p} : ~(IsBusy(slot[q]) /\ slot[q].dev = d)
    BY NoOther DEF Intact
  <1>2. \A q \in Process : ~Replaces(slot[q], d, cmd)
    BY <1>1, ReplacesBusy DEF PathInv, SlotsInv
  <1> QED BY <1>1, <1>2 DEF SavedInv, PathGood

LEMMA StartSaved ==
    ASSUME PathInv, KeysInv, SavedInv, ShowInv, PostInv,
           NEW p \in Process, NEW d \in Device,
           StartInit(p, d) \/ StartSend(p, d) \/ StartListen(p, d)
    PROVE  SavedInv' /\ ShowInv' /\ PostInv'
  <1>1. /\ UNCHANGED <<file, tmp, sent, printed, cut>> /\ SlotsInv /\ FilesShaped
        /\ slot[p].stage = "idle" /\ ~IsBusy(slot[p])
    BY DEF StartInit, StartSend, StartListen, Start, PathInv, IsBusy
  <1>2. PICK t : /\ Gets(p, t) /\ t.dev = d /\ overlapped \subseteq overlapped'
                 /\ t.stage \in {"registering", "loaded", "listening"}
                 /\ t.cmd = "listen" => d \in Cli \/ file[d].form = "whole"
                 /\ IsBusy(t) => /\ NoteOverlap(p, d)
                                 /\ \/ t.mem = Fresh(nextKey)
                                    \/ t.mem = file[d].state /\ file[d].form = "whole"
    <2>1. CASE StartInit(p, d)
      <3>1. PICK t : /\ Gets(p, t) /\ NoteOverlap(p, t.dev) /\ t.stage = "registering"
                     /\ t.cmd = "init" /\ t.dev = d /\ t.mem = Fresh(nextKey)
        BY <1>1, <2>1, StartInitSlot
      <3> QED BY <3>1, NoOther
    <2>2. CASE StartSend(p, d)
      <3>1. PICK t : /\ Gets(p, t) /\ NoteOverlap(p, t.dev) /\ t.stage = "loaded"
                     /\ t.cmd = "send" /\ t.dev = d /\ t.mem = file[d].state
        BY <1>1, <2>2, StartSendSlot
      <3>2. file[d].form = "whole"
        BY <2>2 DEF StartSend, Loads
      <3> QED BY <3>1, <3>2, NoOther
    <2>3. CASE StartListen(p, d)
      <3>1. PICK t : /\ Gets(p, t) /\ t.stage = "listening" /\ t.cmd = "listen" /\ t.dev = d
                     /\ t.mem = IF d \in Cli THEN file[d].state ELSE NoState
                     /\ IF d \in Cli THEN NoteOverlap(p, t.dev) ELSE UNCHANGED overlapped
        BY <1>1, <2>3, StartListenSlot
      <3>2. file[d].form = "whole"
        BY <2>3 DEF StartListen, Loads
      <3> QED BY <3>1, <3>2, NoOther DEF IsBusy
    <2> QED BY <2>1, <2>2, <2>3
  <1>3. SavedInv'
    <2>1. ASSUME NEW e \in Device, NEW cmd \in Kinds, Intact(e, cmd)', t.dev = e, IsBusy(t)
          PROVE  Good(cmd, e, t.mem)
      BY <1>1, <1>2, <2>1, FreshGood, FileGood
    <2>2. \A e, cmd : ~Replaces(slot[p], e, cmd)
      BY <1>1 DEF Replaces
    <2> QED BY <1>1, <1>2, <2>1, <2>2, SavedQuietly
  <1>4. ~Shows(t) /\ t.stage # "posting"
    BY <1>2 DEF Shows
  <1> QED BY <1>1, <1>2, <1>3, <1>4, ShownQuietly

\* A process or call that keeps its state in memory, or ends; if it was about
\* to replace what the path names, it still is, or its end is noted.
LEMMA GoesOnSaved ==
    ASSUME PathInv, KeysInv, SavedInv, ShowInv, PostInv, NEW p \in Process, NEW t,
           Gets(p, t), UNCHANGED <<file, tmp, sent, printed, overlapped>>, cut \subseteq cut',
           ~Shows(t), t.stage \notin {"posting", "renaming"},
           t.cmd = "listen" => slot[p].cmd = "listen" /\ t.dev = slot[p].dev,
           IsBusy(t) => IsBusy(slot[p]) /\ t.dev = slot[p].dev /\ t.mem = slot[p].mem,
           \A d, cmd : Replaces(slot[p], d, cmd) =>
             Replaces(t, d, cmd) \/ <<d, cmd>> \in cut'
    PROVE  SavedInv' /\ ShowInv' /\ PostInv'
  <1>1. \A d \in Device, cmd \in Kinds : Intact(d, cmd)' =>
             /\ t.dev = d /\ IsBusy(t) => Good(cmd, d, t.mem)
             /\ Replaces(slot[p], d, cmd) => Replaces(t, d, cmd)
    BY DEF Intact, SavedInv, HeldGood
  <1>2. t.cmd = "listen" => t.dev \in Cli \/ file[t.dev].form = "whole"
    BY DEF SavedInv
  <1>3. SavedInv'
    BY <1>1, <1>2, SavedQuietly
  <1> QED BY <1>3, ShownQuietly

LEMMA RegisterSaved ==
    ASSUME PathInv, KeysInv, SavedInv, ShowInv, PostInv, NEW p \in Process, Register(p)
    PROVE  SavedInv' /\ ShowInv' /\ PostInv'
  <1>1. /\ UNCHANGED <<file, tmp, sent, printed, overlapped>> /\ SlotsInv
        /\ slot[p].stage = "registering"
    BY DEF Register, PathInv
  <1>2. slot[p].cmd = "init" /\ IsBusy(slot[p]) /\ \A d, cmd : ~Replaces(slot[p], d, cmd)
    BY <1>1, RegisterSlot DEF Replaces
  <1>3. CASE \E t : Moves(p, t, "saving") /\ t.mem = slot[p].mem /\ cut' = cut
    <2>1. PICK t : Moves(p, t, "saving") /\ t.mem = slot[p].mem /\ cut' = cut
      BY <1>3
    <2>2. /\ Gets(p, t) /\ ~Shows(t) /\ t.stage \notin {"posting", "renaming"}
          /\ t.cmd = slot[p].cmd /\ t.dev = slot[p].dev
      BY <1>2, <2>1 DEF Moves, Shows
    <2> QED BY <1>1, <1>2, <2>1, <2>2, GoesOnSaved
  <1>4. CASE Gets(p, Idle) /\ cut \subseteq cut'
    <2>1. ~Shows(Idle) /\ Idle.stage = "idle" /\ Idle.cmd = "init" /\ ~IsBusy(Idle)
      BY DEF Idle, Shows, IsBusy
    <2> QED BY <1>1, <1>2, <1>4, <2>1, GoesOnSaved
  <1> QED BY <1>1, <1>3, <1>4, RegisterSlot

\* A listener of msgctl that ends after it showed a text is noted; the others
\* of the endpoints had not shown it.
LEMMA EndsSaved ==
    ASSUME PathInv, KeysInv, SavedInv, ShowInv, PostInv, NEW p \in Process,
           LoseAnswer(p) \/ Disconnect(p) \/ RenameFails(p) \/ Crash(p)
    PROVE  SavedInv' /\ ShowInv' /\ PostInv'
  <1>1. UNCHANGED <<file, tmp, sent, printed, overlapped>> /\ SlotsInv /\ SlotShaped(slot[p])
    BY DEF LoseAnswer, Disconnect, RenameFails, Crash, PathInv, SlotsInv
  <1>2. CASE LoseAnswer(p)
    <2>1. PICK t : Moves(p, t, "listening") /\ t.mem = NoState /\ slot[p].cmd = "listen"
      BY <1>1, <1>2, LoseAnswerSlot
    <2>2. /\ Gets(p, t) /\ ~Shows(t) /\ t.stage \notin {"posting", "renaming"}
          /\ t.cmd = slot[p].cmd /\ t.dev = slot[p].dev
      BY <2>1 DEF Moves, Shows
    <2>3. slot[p].dev \notin Cli /\ cut' = cut
      BY <1>2 DEF LoseAnswer
    <2>4. ~IsBusy(t) /\ \A d, cmd : ~Replaces(slot[p], d, cmd)
      BY <2>1, <2>2, <2>3 DEF IsBusy, Replaces, Moves
    <2> QED BY <1>1, <2>1, <2>2, <2>3, <2>4, GoesOnSaved
  <1>3. CASE Disconnect(p) \/ RenameFails(p) \/ Crash(p)
    <2>1. Gets(p, Idle) /\ cut \subseteq cut'
      BY <1>1, <1>3, EndsSlot
    <2>2. ~Shows(Idle) /\ Idle.stage = "idle" /\ Idle.cmd = "init" /\ ~IsBusy(Idle)
      BY DEF Idle, Shows, IsBusy
    <2>3. ASSUME NEW d, NEW cmd, Replaces(slot[p], d, cmd) PROVE <<d, cmd>> \in cut'
      <3>1. slot[p].dev = d /\ slot[p].cmd = cmd /\ Unsaved(p)
        BY <1>1, <2>3 DEF Replaces, Unsaved
      <3>2. CASE Disconnect(p)
        BY <2>3, <3>2 DEF Disconnect, Replaces
      <3>3. CASE RenameFails(p)
        BY <3>1, <3>3 DEF RenameFails, End
      <3>4. CASE Crash(p)
        BY <3>1, <3>4 DEF Crash, End
      <3> QED BY <1>3, <3>2, <3>3, <3>4
    <2> QED BY <1>1, <2>1, <2>2, <2>3, GoesOnSaved
  <1> QED BY <1>2, <1>3

LEMMA SealSaved ==
    ASSUME PathInv, KeysInv, SavedInv, ShowInv, PostInv, NEW p \in Process,
           Seal(p) \/ SealFirst(p)
    PROVE  SavedInv' /\ ShowInv' /\ PostInv'
  <1> PICK fresh, b, d, st : fresh = nextKey /\ b = nextKey' /\ d = slot[p].dev
                             /\ st = slot[p].mem
    OBVIOUS
  <1>1. /\ UNCHANGED <<file, tmp, sent, printed, overlapped, cut>> /\ SlotsInv
        /\ slot[p].stage = "loaded" /\ d \in Device /\ fresh \in Nat
    BY DEF Seal, SealFirst, PathInv, SlotsInv, SlotShaped, KeysInv
  <1>2. PICK s, handshake :
          /\ SealIn(p, s, fresh, handshake) /\ Tidy(s) /\ b \in {fresh, fresh + 1}
          /\ SessionInv(Sealing(s, fresh), b) /\ ~NeedsRotation(Sealing(s, fresh))
          /\ s \in st.sessions \/ (st.sessions = {}
                                   /\ \E bundle \in Nat : s = InitSession(fresh, bundle))
          /\ (s \in st.sessions /\ Sealing(s, fresh) = s)
             \/ ~RootBelow(Sealing(s, fresh).send.key.root, fresh)
    BY SealsIs
  <1>3. PICK t : SealsInto(p, t, Encrypt(s, fresh), handshake)
    BY <1>1, <1>2, SealInSlot
  <1>4. /\ Gets(p, t) /\ t.stage = "posting" /\ t.cmd = "send" /\ t.dev = d
        /\ t.mem.sessions = {Encrypt(s, fresh).session}
        /\ t.env.key = Encrypt(s, fresh).key /\ IsBusy(slot[p])
    BY <1>1, <1>2, <1>3, SealInSlot DEF SealsInto, Moves, Sealed
  <1>5. /\ Good("listen", d, st) => Good("listen", d, t.mem)
        /\ Good("send", d, st) => Ahead(t.env.key) /\ Good("send", d, t.mem)
    <2>1. StateBelow(st, nextKey) /\ b \in Nat
      BY <1>1, <1>2 DEF KeysInv, SlotBelow
    <2> QED BY <1>1, <1>2, <1>4, <2>1, SealGood
  <1>6. ASSUME NEW cmd \in Kinds, Intact(d, cmd) PROVE Good(cmd, d, st)
    BY <1>1, <1>4, <1>6 DEF SavedInv, HeldGood
  <1>7. \A e, cmd : ~Replaces(slot[p], e, cmd)
    BY <1>1 DEF Replaces
  <1>8. SavedInv'
    <2>1. ASSUME NEW e \in Device, NEW cmd \in Kinds, Intact(e, cmd)', t.dev = e
          PROVE  Good(cmd, e, t.mem)
      <3>1. Good(cmd, d, st)
        BY <1>1, <1>4, <1>6, <2>1 DEF Intact
      <3> QED BY <1>4, <1>5, <2>1, <3>1 DEF Kinds
    <2> QED BY <1>1, <1>4, <1>7, <2>1, SavedQuietly
  <1>9. \A q \in Process : slot'[q] = IF q = p THEN t ELSE slot[q]
    BY <1>1, <1>4 DEF Gets, SlotsInv
  <1>10. ShowInv'
    <2>1. ~Shows(t)
      BY <1>4 DEF Shows
    <2> QED BY <1>1, <1>9, <2>1, ShowKept
  <1>11. PostInv'
    <2>1. ASSUME NEW e \in Device, Intact(e, "send")', NEW q \in Process,
                 slot'[q].dev = e, slot'[q].stage = "posting"
          PROVE  Ahead(slot'[q].env.key)
      <3>1. Intact(e, "send")
        BY <1>1, <2>1 DEF Intact
      <3>2. CASE q = p
        BY <1>4, <1>5, <1>6, <1>9, <2>1, <3>1, <3>2 DEF Kinds
      <3>3. CASE q # p
        BY <1>9, <2>1, <3>1, <3>3 DEF PostInv
      <3> QED BY <3>2, <3>3
    <2> QED BY <1>1, <2>1 DEF PostInv, Ahead, Intact
  <1> QED BY <1>8, <1>10, <1>11

\* What storing an envelope that shows nothing yet does to the histories.
LEMMA Appended ==
    ASSUME KeysInv, ShowInv, NEW env \in Envelope,
           sent' = Append(sent, env), printed' = Append(printed, 0)
    PROVE  /\ \A i \in DOMAIN sent' :
                 \/ i \in DOMAIN sent /\ sent'[i] = sent[i] /\ printed'[i] = printed[i]
                 \/ i = Len(sent) + 1 /\ sent'[i] = env /\ printed'[i] = 0
           /\ \A i \in DOMAIN sent :
                 i \in DOMAIN sent' /\ sent'[i] = sent[i] /\ printed'[i] = printed[i]
           /\ printed' \in Seq(Nat) /\ Len(printed') = Len(sent')
           /\ \A d : Shown(d)' = Shown(d)
           /\ \A k : Ahead(k)' <=>
                       Ahead(k) /\ (env.key.root = k.root => env.key.step < k.step)
           /\ \A d, st : Good("listen", d, st)' <=> Good("listen", d, st)
  <1>1. sent \in Seq(Envelope) /\ printed \in Seq(Nat) /\ Len(printed) = Len(sent)
    BY DEF KeysInv, ShowInv
  <1>2. /\ \A i \in DOMAIN sent' :
              \/ i \in DOMAIN sent /\ sent'[i] = sent[i] /\ printed'[i] = printed[i]
              \/ i = Len(sent) + 1 /\ sent'[i] = env /\ printed'[i] = 0
        /\ \A i \in DOMAIN sent :
              i \in DOMAIN sent' /\ sent'[i] = sent[i] /\ printed'[i] = printed[i]
        /\ Len(sent) + 1 \in DOMAIN sent' /\ sent'[Len(sent) + 1] = env
    <2>1. /\ DOMAIN sent = 1 .. Len(sent) /\ DOMAIN sent' = 1 .. Len(sent) + 1
          /\ Len(sent) \in Nat
      BY <1>1
    <2>2. /\ \A i \in 1 .. Len(sent) : sent'[i] = sent[i] /\ printed'[i] = printed[i]
          /\ sent'[Len(sent) + 1] = env /\ printed'[Len(sent) + 1] = 0
      BY <1>1
    <2>3. ASSUME NEW i \in DOMAIN sent'
          PROVE  \/ i \in DOMAIN sent /\ sent'[i] = sent[i] /\ printed'[i] = printed[i]
                 \/ i = Len(sent) + 1 /\ sent'[i] = env /\ printed'[i] = 0
      <3>1. i \in 1 .. Len(sent) \/ i = Len(sent) + 1
        BY <2>1
      <3> QED BY <2>1, <2>2, <3>1
    <2>4. ASSUME NEW i \in DOMAIN sent
          PROVE  i \in DOMAIN sent' /\ sent'[i] = sent[i] /\ printed'[i] = printed[i]
      <3>1. i \in 1 .. Len(sent) /\ i \in 1 .. Len(sent) + 1
        BY <2>1
      <3> QED BY <2>1, <2>2, <3>1
    <2>5. Len(sent) + 1 \in DOMAIN sent' /\ sent'[Len(sent) + 1] = env
      BY <2>1, <2>2
    <2> QED BY <2>3, <2>4, <2>5
  <1>3. printed' \in Seq(Nat) /\ Len(printed') = Len(sent')
    BY <1>1
  <1>4. ASSUME NEW d PROVE Shown(d)' = Shown(d)
    <2>1. ASSUME NEW i \in Shown(d) PROVE i \in Shown(d)'
      BY <1>2 DEF Shown
    <2>2. ASSUME NEW i \in Shown(d)' PROVE i \in Shown(d)
      <3>1. i \in DOMAIN sent' /\ sent'[i].from = Peer(d) /\ printed'[i] > 0
        BY DEF Shown
      <3>2. printed'[i] # 0
        BY <1>3, <3>1
      <3>3. i \in DOMAIN sent /\ sent'[i] = sent[i] /\ printed'[i] = printed[i]
        BY <1>2, <3>1, <3>2, Zenon
      <3> QED BY <3>1, <3>3 DEF Shown
    <2> QED BY <2>1, <2>2
  <1>5. ASSUME NEW k
        PROVE  Ahead(k)' <=> Ahead(k) /\ (env.key.root = k.root => env.key.step < k.step)
    BY <1>2 DEF Ahead
  <1>6. ASSUME NEW d, NEW st
        PROVE  Good("listen", d, st)' <=> Good("listen", d, st)
    <2>1. \A i \in Shown(d) : sent'[i] = sent[i]
      BY <1>2 DEF Shown
    <2> QED BY <1>4, <2>1 DEF Good
  <1> QED BY <1>2, <1>3, <1>4, <1>5, <1>6

\* Post stores the envelope of slot p; nobody's chain but that of the slot's
\* device is behind it, and the slot itself is past it.
LEMMA PostSaved ==
    ASSUME PathInv, KeysInv, ChainsApart, SavedInv, ShowInv, PostInv,
           NEW p \in Process, Post(p)
    PROVE  SavedInv' /\ ShowInv' /\ PostInv'
  <1> PICK d, env, mem : d = slot[p].dev /\ env = slot[p].env /\ mem = slot[p].mem
    OBVIOUS
  <1>1. /\ UNCHANGED <<file, tmp, overlapped>> /\ SlotsInv /\ slot[p].stage = "posting"
        /\ sent' = Append(sent, env) /\ printed' = Append(printed, 0)
    BY DEF Post, Stored, PathInv
  <1>2. /\ env \in Envelope /\ env.from = d /\ env.key.root # <<>> /\ d \in Device
        /\ SendsOn(d, env.key.root) /\ env.key.step \in Nat
        /\ \A e \in mem.sessions : /\ e.send.key.root = env.key.root
                                   /\ e.send.key.step = env.key.step + 1
    <2>1. EnvelopeBelow(env, nextKey) /\ InHand(slot[p])
      BY <1>1 DEF KeysInv, SlotBelow
    <2>2. SendsOn(d, env.key.root)
      BY <2>1 DEF InHand, SendsOn, SendsIn
    <2>3. d \in Device
      BY <1>1 DEF SlotsInv, SlotShaped
    <2> QED BY <2>1, <2>2, <2>3 DEF EnvelopeBelow, InHand, Envelope, ChainKey
  <1>3. /\ \A j \in DOMAIN sent' :
             \/ j \in DOMAIN sent /\ sent'[j] = sent[j] /\ printed'[j] = printed[j]
             \/ j = Len(sent) + 1 /\ sent'[j] = env /\ printed'[j] = 0
        /\ \A j \in DOMAIN sent :
             j \in DOMAIN sent' /\ sent'[j] = sent[j] /\ printed'[j] = printed[j]
        /\ printed' \in Seq(Nat) /\ Len(printed') = Len(sent')
        /\ \A e : Shown(e)' = Shown(e)
        /\ \A k : Ahead(k)' <=>
                    Ahead(k) /\ (env.key.root = k.root => env.key.step < k.step)
        /\ \A e, st : Good("listen", e, st)' <=> Good("listen", e, st)
    BY <1>1, <1>2, Appended
  <1>4. slot[p].cmd = "send" /\ IsBusy(slot[p])
    BY <1>1, PostSlot
  <1>5. PICK t : /\ Gets(p, t) /\ cut \subseteq cut' /\ t.cmd # "listen"
                 /\ \/ /\ t.stage = "saving" /\ t.cmd = "send" /\ t.dev = d /\ t.mem = mem
                    \/ t = Idle /\ <<d, "send">> \in cut'
    <2>1. CASE \E t : Moves(p, t, "saving") /\ t.mem = slot[p].mem /\ cut' = cut
      <3>1. PICK t : Moves(p, t, "saving") /\ t.mem = slot[p].mem /\ cut' = cut
        BY <2>1
      <3> QED BY <1>4, <3>1 DEF Moves
    <2>2. CASE Gets(p, Idle) /\ cut' = cut \cup {<<slot[p].dev, "send">>}
      BY <2>2 DEF Idle
    <2> QED BY <1>1, <2>1, <2>2, PostSlot
  <1>6. /\ Idle.stage = "idle" /\ ~IsBusy(Idle)
    BY DEF Idle, IsBusy
  <1>7. t.stage \in {"saving", "idle"} /\ ~Shows(t)
    BY <1>5, <1>6 DEF Shows
  <1>8. \A q \in Process : slot'[q] = IF q = p THEN t ELSE slot[q]
    BY <1>1, <1>5 DEF Gets, SlotsInv
  \* Chains of another device are not those of the envelope.
  <1>9. ASSUME NEW e \in Device, e # d, NEW r, SendsOn(e, r) PROVE r # env.key.root
    BY <1>2, <1>9 DEF ChainsApart
  <1>10. ASSUME NEW e \in Device, e # d, NEW st, SendsFrom(e, st), Good("send", e, st)
         PROVE  Good("send", e, st)'
    <2>1. ASSUME NEW s \in st.sessions PROVE Ahead(s.send.key)'
      <3>1. Ahead(s.send.key)
        BY <1>10 DEF Good
      <3>2. env.key.root # s.send.key.root
        <4>1. CASE NeedsRotation(s)
          BY <1>2, <4>1 DEF NeedsRotation, ZeroKey
        <4>2. CASE ~NeedsRotation(s)
          BY <1>9, <1>10, <4>2 DEF SendsFrom, SendsIn
        <4> QED BY <4>1, <4>2
      <3> QED BY <1>3, <3>1, <3>2
    <2> QED BY <2>1 DEF Good, Ahead
  <1>11. SavedInv'
    <2>1. ASSUME NEW e \in Device, NEW cmd \in Kinds, Intact(e, cmd)'
          PROVE  /\ \/ \A st : SendsFrom(e, st) /\ Good(cmd, e, st) => Good(cmd, e, st)'
                    \/ slot[p].dev = e /\ IsBusy(slot[p]) /\ Replaces(t, e, cmd)
                 /\ t.dev = e /\ IsBusy(t) => Good(cmd, e, mem)'
                 /\ Replaces(slot[p], e, cmd) => Replaces(t, e, cmd)
      <3>1. ~Replaces(slot[p], e, cmd) /\ Intact(e, cmd)
        BY <1>1, <1>5, <2>1 DEF Replaces, Intact
      <3>2. CASE cmd = "listen"
        <4>1. t.dev = e /\ IsBusy(t) => Good(cmd, e, mem)
          BY <1>4, <1>5, <1>6, <3>1 DEF SavedInv, HeldGood
        <4> QED BY <1>3, <3>1, <3>2, <4>1
      <3>3. CASE cmd = "send" /\ e # d
        <4>1. t.dev = e /\ IsBusy(t) => FALSE
          BY <1>5, <1>6, <3>3
        <4>2. ASSUME NEW st, SendsFrom(e, st), Good(cmd, e, st) PROVE Good(cmd, e, st)'
          BY <1>10, <3>3, <4>2
        <4> QED BY <3>1, <4>1, <4>2
      <3>4. CASE cmd = "send" /\ e = d
        <4>1. t.stage = "saving" /\ t.cmd = "send" /\ t.dev = d /\ t.mem = mem
          BY <1>5, <2>1, <3>4 DEF Intact
        <4>2. Replaces(t, e, cmd)
          BY <3>4, <4>1 DEF Replaces
        <4>3. Good(cmd, e, mem)
          BY <1>4, <3>1, <3>4 DEF SavedInv, HeldGood
        <4>4. ASSUME NEW s \in mem.sessions PROVE Ahead(s.send.key)'
          <5>1. Ahead(s.send.key)
            BY <3>4, <4>3 DEF Good
          <5> QED BY <1>2, <1>3, <5>1
        <4>5. Good(cmd, e, mem)'
          BY <3>4, <4>4 DEF Good, Ahead
        <4> QED BY <1>4, <3>1, <3>4, <4>2, <4>5
      <3> QED BY <3>2, <3>3, <3>4 DEF Kinds
    <2>2. \A e \in Device, cmd \in Kinds : Intact(e, cmd)' =>
             (t.dev = e /\ IsBusy(t) => Good(cmd, e, t.mem)')
      BY <1>5, <1>6, <2>1 DEF Good, Shown, Ahead
    <2> QED BY <1>1, <1>5, <1>7, <2>1, <2>2, SavedSlot
  <1>12. ShowInv'
    <2>1. \A e \in Device : Intact(e, "listen")' => \A j \in Shown(e)' : printed'[j] = 1
      BY <1>1, <1>3, <1>5 DEF ShowInv, Intact, Shown
    <2>2. ASSUME NEW q \in Process, Shows(slot'[q])
          PROVE  /\ slot'[q].at \in DOMAIN sent'
                 /\ sent'[slot'[q].at].from = Peer(slot'[q].dev)
                 /\ Intact(slot[q].dev, "listen")' =>
                      /\ printed'[slot'[q].at] = 0
                      /\ StateDead(slot'[q].mem, sent'[slot'[q].at].key)
      <3>1. slot'[q] = slot[q] /\ Shows(slot[q])
        BY <1>7, <1>8, <2>2
      <3>2. Intact(slot[q].dev, "listen")' => Intact(slot[q].dev, "listen")
        BY <1>1, <1>5, <3>1 DEF Intact
      <3> QED BY <1>3, <3>1, <3>2 DEF ShowInv
    <2> QED BY <1>3, <2>1, <2>2 DEF ShowInv
  <1>13. PostInv'
    <2>1. ASSUME NEW e \in Device, Intact(e, "send")', NEW q \in Process,
                 slot'[q].dev = e, slot'[q].stage = "posting"
          PROVE  Ahead(slot[q].env.key)'
      <3> PICK k : k = slot[q].env.key
        OBVIOUS
      <3>1. q # p /\ slot'[q] = slot[q] /\ IsBusy(slot[q]) /\ Intact(e, "send")
        BY <1>1, <1>5, <1>7, <1>8, <2>1 DEF Intact, IsBusy
      <3>2. e # d
        BY <1>4, <2>1, <3>1 DEF PathInv, SlotsInv, OneAtATime, Intact
      <3>3. Ahead(k) /\ SendsOn(e, k.root)
        <4>1. InHand(slot[q])
          BY <2>1, <3>1 DEF KeysInv, SlotBelow
        <4> QED BY <2>1, <3>1, <4>1 DEF PostInv, InHand, SendsOn, SendsIn
      <3>4. Ahead(k)'
        BY <1>3, <1>9, <3>2, <3>3
      <3>5. k = slot'[q].env.key
        BY <3>1
      <3> QED BY <3>4, <3>5 DEF Ahead
    <2>2. ASSUME NEW e \in Device, Intact(e, "send")', NEW i \in DOMAIN sent',
                 NEW j \in DOMAIN sent', sent'[i].from = e, sent'[i].key = sent'[j].key
          PROVE  i = j
      <3>1. Intact(e, "send")
        BY <1>1, <1>5, <2>2 DEF Intact
      <3>2. CASE i \in DOMAIN sent /\ j \in DOMAIN sent
        BY <1>3, <2>2, <3>1, <3>2 DEF PostInv
      <3>3. ASSUME NEW l \in DOMAIN sent, sent[l].key = env.key PROVE e # d
        <4>1. CASE e = d
          <5>1. Ahead(env.key)
            BY <1>1, <1>2, <3>1, <4>1 DEF PostInv
          <5>2. env.key.step < env.key.step
            BY <3>3, <5>1 DEF Ahead
          <5> QED BY <1>2, <5>2
        <4> QED BY <4>1
      <3>4. CASE i = Len(sent) + 1 /\ sent'[i] = env
        <4>1. e = d
          BY <1>2, <2>2, <3>4
        <4>2. CASE j \in DOMAIN sent /\ sent'[j] = sent[j]
          BY <2>2, <3>3, <3>4, <4>1, <4>2
        <4> QED BY <1>3, <3>4, <4>2
      <3>5. CASE j = Len(sent) + 1 /\ sent'[j] = env /\ i \in DOMAIN sent /\ sent'[i] = sent[i]
        <4>1. e # d
          BY <2>2, <3>3, <3>5
        <4>2. SendsOn(e, env.key.root)
          BY <2>2, <3>5 DEF SendsOn
        <4> QED BY <1>9, <4>1, <4>2
      <3> QED BY <1>3, <3>2, <3>4, <3>5
    <2> QED BY <2>1, <2>2 DEF PostInv, Ahead, Intact
  <1> QED BY <1>11, <1>12, <1>13

\* An envelope is handled in a state that is not behind, and leaves such a one.
LEMMA ReadEnvelopeSaved ==
    ASSUME PathInv, KeysInv, SavedInv, ShowInv, PostInv, NEW p \in Process,
           ReadEnvelope(p)
    PROVE  SavedInv' /\ ShowInv' /\ PostInv'
  <1> PICK d, st : d = slot[p].dev /\ st = StateOf(p)
    OBVIOUS
  <1>1. /\ UNCHANGED <<file, tmp, sent, printed, cut>> /\ SlotsInv /\ FilesShaped
        /\ nextKey \in Nat
    BY DEF ReadEnvelope, PathInv, KeysInv
  <1>2. /\ SlotShaped(slot[p]) /\ slot[p].stage = "listening" /\ slot[p].cmd = "listen"
        /\ StateShaped(st) /\ d \in Device /\ NoteOverlap(p, d)
    BY <1>1, ReadEnvelopeSlot DEF SlotShaped
  <1>3. StateBelow(st, nextKey)
    BY <1>2 DEF StateOf, KeysInv, SlotBelow
  <1> PICK i \in Pushed(p) : \E out \in HandleInbound(StateOf(p), sent[i]) :
              \E t : Handled(p, i, out, t)
    BY <1>1, ReadEnvelopeSlot
  <1>4. PICK out \in HandleInbound(st, sent[i]) : \E t : Handled(p, i, out, t)
    OBVIOUS
  <1>5. PICK t : Handled(p, i, out, t)
    BY <1>4
  <1>6. i \in DOMAIN sent /\ sent[i].from = Peer(d)
    BY DEF Pushed
  <1>7. /\ Gets(p, t) /\ t.cmd = "listen" /\ t.dev = d
        /\ t.stage \in {"listening", "printing", "saving"}
        /\ IsBusy(t) => t.mem = out.state
        /\ Shows(t) => t.mem = out.state /\ t.at = i /\ out.result = "read"
    BY <1>2, <1>5 DEF Handled, Moves, IsBusy, Shows
  <1>8. overlapped \subseteq overlapped'
    BY <1>2, NoOther
  <1>9. d \in Cli \/ file[d].form = "whole"
    BY <1>2 DEF SavedInv
  <1>10. ASSUME NEW cmd \in Kinds, Intact(d, cmd)' PROVE Good(cmd, d, st)
    <2>1. CASE d \in Cli
      <3>1. Intact(d, cmd) /\ IsBusy(slot[p]) /\ st = slot[p].mem
        BY <1>1, <1>2, <1>8, <1>10, <2>1 DEF Intact, IsBusy, StateOf
      <3> QED BY <1>2, <3>1 DEF SavedInv, HeldGood
    <2>2. CASE d \notin Cli
      <3>1. ~IsBusy(slot[p]) /\ st = file[d].state
        BY <1>2, <2>2 DEF IsBusy, StateOf
      <3> QED BY <1>1, <1>2, <1>9, <1>10, <2>2, <3>1, FileGood
    <2> QED BY <2>1, <2>2
  <1>11. ASSUME NEW cmd \in Kinds, Intact(d, cmd)'
         PROVE  /\ Good(cmd, d, out.state)
                /\ cmd = "listen" /\ out.result = "read" =>
                     printed[i] = 0 /\ StateDead(out.state, sent[i].key)
    <2>1. Good(cmd, d, st) /\ printed \in Seq(Nat) /\ Len(printed) = Len(sent)
      BY <1>10, <1>11 DEF ShowInv
    <2> QED BY <1>2, <1>3, <1>6, <2>1, HandleGood
  <1>12. SavedInv'
    <2>1. \A e \in Device, cmd \in Kinds : Intact(e, cmd)' =>
             /\ t.dev = e /\ IsBusy(t) => Good(cmd, e, t.mem)
             /\ Replaces(slot[p], e, cmd) => Replaces(t, e, cmd)
      BY <1>2, <1>7, <1>11 DEF Replaces
    <2> QED BY <1>1, <1>7, <1>8, <1>9, <2>1, SavedQuietly
  <1>13. \A q \in Process : slot'[q] = IF q = p THEN t ELSE slot[q]
    BY <1>1, <1>7 DEF Gets, SlotsInv
  <1>14. ShowInv'
    <2>1. \A e \in Device : Intact(e, "listen")' => \A j \in Shown(e)' : printed'[j] = 1
      BY <1>1, <1>8 DEF ShowInv, Intact, Shown
    <2>2. ASSUME NEW q \in Process, Shows(slot'[q])
          PROVE  /\ slot'[q].at \in DOMAIN sent'
                 /\ sent'[slot'[q].at].from = Peer(slot'[q].dev)
                 /\ Intact(slot[q].dev, "listen")' =>
                      /\ printed'[slot'[q].at] = 0
                      /\ StateDead(slot'[q].mem, sent'[slot'[q].at].key)
      <3>1. CASE q = p
        <4>1. slot'[q] = t /\ Shows(t)
          BY <1>13, <2>2, <3>1
        <4>2. t.at = i /\ t.mem = out.state /\ t.dev = d /\ out.result = "read"
          BY <1>7, <4>1
        <4>3. Intact(slot[q].dev, "listen")' =>
                printed[i] = 0 /\ StateDead(out.state, sent[i].key)
          BY <1>11, <4>1, <4>2 DEF Kinds, Intact
        <4> QED BY <1>1, <1>6, <4>1, <4>2, <4>3
      <3>2. CASE q # p
        <4>1. slot'[q] = slot[q] /\ Shows(slot[q])
          BY <1>13, <2>2, <3>2
        <4>2. Intact(slot[q].dev, "listen")' => Intact(slot[q].dev, "listen")
          BY <1>1, <1>8, <4>1 DEF Intact
        <4> QED BY <1>1, <4>1, <4>2 DEF ShowInv
      <3> QED BY <3>1, <3>2
    <2> QED BY <1>1, <2>1, <2>2 DEF ShowInv
  <1>15. PostInv'
    BY <1>1, <1>7, <1>8, <1>13, PostKept
  <1> QED BY <1>12, <1>14, <1>15

\* What showing the text of sent[a] to device d does to the histories.
LEMMA Showing ==
    ASSUME KeysInv, ShowInv, NEW d \in Device, NEW a \in DOMAIN sent,
           sent[a].from = Peer(d), UNCHANGED sent,
           printed' = [printed EXCEPT ![a] = @ + 1]
    PROVE  /\ printed' \in Seq(Nat) /\ Len(printed') = Len(sent')
           /\ \A i \in DOMAIN sent :
                printed'[i] = IF i = a THEN printed[i] + 1 ELSE printed[i]
           /\ \A e \in Device : Shown(e)' \subseteq Shown(e) \cup {a}
           /\ \A e \in Device : e # d => sent[a].from # Peer(e)
           /\ \A e \in Device : e # d => Shown(e)' = Shown(e)
           /\ \A e \in Device : \A cmd, st : e # d => (Good(cmd, e, st)' <=> Good(cmd, e, st))
           /\ \A st : Good("listen", d, st) /\ StateDead(st, sent[a].key)
                        => Good("listen", d, st)'
           /\ \A st : Good("send", d, st)' <=> Good("send", d, st)
  <1>1. /\ sent \in Seq(Envelope) /\ printed \in Seq(Nat) /\ Len(printed) = Len(sent)
    BY DEF KeysInv, ShowInv
  <1>2. /\ printed' \in Seq(Nat) /\ Len(printed') = Len(sent')
        /\ \A i \in DOMAIN sent :
                printed'[i] = IF i = a THEN printed[i] + 1 ELSE printed[i]
    BY <1>1
  <1>3. \A e \in Device : e # d => sent[a].from # Peer(e)
    BY DEF Peer, Device
  <1>4. ASSUME NEW e \in Device, NEW i \in Shown(e)'
        PROVE  i = a \/ i \in Shown(e)
    BY <1>2 DEF Shown
  <1>5. ASSUME NEW e \in Device, e # d PROVE Shown(e)' = Shown(e)
    <2>1. ASSUME NEW i \in Shown(e)' PROVE i \in Shown(e)
      BY <1>3, <1>4, <1>5 DEF Shown
    <2>2. ASSUME NEW i \in Shown(e) PROVE i \in Shown(e)'
      BY <1>2, <1>3, <1>5 DEF Shown
    <2> QED BY <2>1, <2>2
  <1>6. ASSUME NEW e \in Device, NEW cmd, NEW st, e # d
        PROVE  Good(cmd, e, st)' <=> Good(cmd, e, st)
    BY <1>5, <1>6 DEF Good, Ahead
  <1>7. ASSUME NEW st, Good("listen", d, st), StateDead(st, sent[a].key)
        PROVE  Good("listen", d, st)'
    BY <1>4, <1>7 DEF Good
  <1>8. \A st : Good("send", d, st)' <=> Good("send", d, st)
    BY DEF Good, Ahead
  <1> QED BY <1>2, <1>3, <1>4, <1>5, <1>6, <1>7, <1>8

\* The text of a slot is shown for the first time, unless its device was
\* disturbed, and no other slot of the device holds one.
LEMMA ShowsText ==
    ASSUME PathInv, KeysInv, ShowInv, NEW p \in Process, NEW t, Gets(p, t),
           Shows(slot[p]), ~Shows(t), UNCHANGED <<sent, overlapped, cut>>,
           printed' = [printed EXCEPT ![slot[p].at] = @ + 1]
    PROVE  ShowInv'
  <1> PICK a, d : a = slot[p].at /\ d = slot[p].dev
    OBVIOUS
  <1>1. /\ a \in DOMAIN sent /\ sent[a].from = Peer(d) /\ d \in Device
        /\ Intact(d, "listen") => printed[a] = 0
    BY DEF ShowInv, PathInv, SlotsInv, SlotShaped
  <1>2. /\ printed' \in Seq(Nat) /\ Len(printed') = Len(sent')
        /\ \A i \in DOMAIN sent :
             printed'[i] = IF i = a THEN printed[i] + 1 ELSE printed[i]
        /\ \A e \in Device : Shown(e)' \subseteq Shown(e) \cup {a}
        /\ \A e \in Device : e # d => sent[a].from # Peer(e)
        /\ \A e \in Device : e # d => Shown(e)' = Shown(e)
    BY <1>1, Showing, ZenonT(60)
  <1>3. \A q \in Process : slot'[q] = IF q = p THEN t ELSE slot[q]
    BY DEF Gets, PathInv, SlotsInv
  <1>4. \A e, cmd : Intact(e, cmd)' <=> Intact(e, cmd)
    BY DEF Intact
  <1>5. ASSUME NEW e \in Device, Intact(e, "listen")', NEW i \in Shown(e)'
        PROVE  printed'[i] = 1
    <2>1. Intact(e, "listen") /\ i \in DOMAIN sent /\ sent[i].from = Peer(e)
      BY <1>4, <1>5 DEF Shown
    <2>2. CASE i = a
      <3>1. e = d
        BY <1>2, <2>1, <2>2
      <3> QED BY <1>1, <1>2, <2>1, <2>2, <3>1
    <2>3. CASE i # a
      <3>1. i \in Shown(e)
        BY <1>2, <2>3
      <3> QED BY <1>2, <2>1, <2>3, <3>1 DEF ShowInv
    <2> QED BY <2>2, <2>3
  <1>6. ASSUME NEW q \in Process, Shows(slot'[q])
        PROVE  /\ slot'[q].at \in DOMAIN sent'
               /\ sent'[slot'[q].at].from = Peer(slot'[q].dev)
               /\ Intact(slot[q].dev, "listen")' =>
                    /\ printed'[slot'[q].at] = 0
                    /\ StateDead(slot'[q].mem, sent'[slot'[q].at].key)
    <2>1. q # p /\ slot'[q] = slot[q] /\ Shows(slot[q]) /\ slot[q].dev \in Device
      BY <1>3, <1>6 DEF PathInv, SlotsInv, SlotShaped
    <2>2. Intact(slot[q].dev, "listen")' => Intact(slot[q].dev, "listen")
      BY <2>1 DEF Intact
    <2>3. /\ slot[q].at \in DOMAIN sent /\ sent[slot[q].at].from = Peer(slot[q].dev)
          /\ Intact(slot[q].dev, "listen") =>
               printed[slot[q].at] = 0 /\ StateDead(slot[q].mem, sent[slot[q].at].key)
      BY <2>1 DEF ShowInv
    <2>4. Intact(slot[q].dev, "listen") => slot[q].at # a
      <3>1. IsBusy(slot[p]) /\ IsBusy(slot[q])
        BY <2>1 DEF Shows, IsBusy
      <3>2. slot[q].at = a => slot[q].dev = d
        BY <1>2, <2>1, <2>3
      <3> QED BY <2>1, <3>1, <3>2 DEF PathInv, SlotsInv, OneAtATime, Intact
    <2> QED BY <1>2, <2>1, <2>2, <2>3, <2>4
  <1> QED BY <1>2, <1>5, <1>6 DEF ShowInv

LEMMA PrintTextSaved ==
    ASSUME PathInv, KeysInv, SavedInv, ShowInv, PostInv, NEW p \in Process, PrintText(p)
    PROVE  SavedInv' /\ ShowInv' /\ PostInv'
  <1> PICK a, d, mem : a = slot[p].at /\ d = slot[p].dev /\ mem = slot[p].mem
    OBVIOUS
  <1>1. /\ UNCHANGED <<file, tmp, sent, overlapped, cut>> /\ SlotsInv
        /\ slot[p].stage = "printing" /\ d \in Cli
        /\ printed' = [printed EXCEPT ![a] = @ + 1]
    BY DEF PrintText, PathInv
  <1>2. slot[p].cmd = "listen" /\ IsBusy(slot[p]) /\ d \in Device
    BY <1>1, PrintTextSlot DEF SlotShaped
  <1>3. PICK t : /\ Gets(p, t) /\ t.stage = "saving" /\ t.cmd = "listen" /\ t.dev = d
                 /\ t.mem = mem
    BY <1>1, <1>2, PrintTextSlot DEF Moves
  <1>4. Shows(slot[p]) /\ ~Shows(t)
    BY <1>1, <1>3 DEF Shows
  <1>5. /\ a \in DOMAIN sent /\ sent[a].from = Peer(d)
        /\ Intact(d, "listen") => StateDead(mem, sent[a].key)
    BY <1>4 DEF ShowInv
  <1>6. /\ \A e \in Device : \A cmd, st : e # d => (Good(cmd, e, st)' <=> Good(cmd, e, st))
        /\ \A st : Good("listen", d, st) /\ StateDead(st, sent[a].key)
                     => Good("listen", d, st)'
        /\ \A st : Good("send", d, st)' <=> Good("send", d, st)
    BY <1>1, <1>2, <1>5, Showing
  <1>7. SavedInv'
    <2>1. ASSUME NEW e \in Device, NEW cmd \in Kinds, Intact(e, cmd)'
          PROVE  /\ \/ \A st : SendsFrom(e, st) /\ Good(cmd, e, st) => Good(cmd, e, st)'
                    \/ slot[p].dev = e /\ IsBusy(slot[p]) /\ Replaces(t, e, cmd)
                 /\ t.dev = e /\ IsBusy(t) => Good(cmd, e, mem)'
                 /\ Replaces(slot[p], e, cmd) => Replaces(t, e, cmd)
      <3>1. ~Replaces(slot[p], e, cmd) /\ Intact(e, cmd)
        BY <1>1, <2>1 DEF Replaces, Intact
      <3>2. t.dev = e => Good(cmd, e, mem)
        BY <1>2, <1>3, <3>1 DEF SavedInv, HeldGood
      <3>3. CASE e # d
        BY <1>3, <1>6, <3>1, <3>3
      <3>4. CASE e = d /\ cmd = "listen"
        <4>1. Replaces(t, e, cmd)
          BY <1>1, <1>3, <3>4 DEF Replaces
        <4> QED BY <1>2, <1>5, <1>6, <3>1, <3>2, <3>4, <4>1
      <3>5. CASE e = d /\ cmd = "send"
        BY <1>6, <3>1, <3>2, <3>5
      <3> QED BY <3>3, <3>4, <3>5 DEF Kinds
    <2>2. \A e \in Device, cmd \in Kinds : Intact(e, cmd)' =>
             (t.dev = e /\ IsBusy(t) => Good(cmd, e, t.mem)')
      BY <1>3, <2>1 DEF Good, Shown, Ahead
    <2> QED BY <1>1, <1>3, <2>1, <2>2, SavedSlot
  <1>8. ShowInv'
    BY <1>1, <1>3, <1>4, ShowsText
  <1>9. PostInv'
    <2>1. \A q \in Process : slot'[q] = IF q = p THEN t ELSE slot[q]
      BY <1>1, <1>3 DEF Gets, SlotsInv
    <2> QED BY <1>1, <1>3, <2>1, PostKept
  <1> QED BY <1>7, <1>8, <1>9

\* Slot p writes, or replaces what the path of its device names by what it has
\* in memory; it goes on with that or ends.
LEMMA SavesGood ==
    ASSUME PathInv, KeysInv, SavedInv, NEW p \in Process, IsBusy(slot[p]),
           NEW d, d = slot[p].dev, NEW mem, mem = slot[p].mem,
           UNCHANGED <<overlapped, cut>>,
           \A q \in Process \ {p} :
             /\ slot'[q].stage = slot[q].stage /\ slot'[q].cmd = slot[q].cmd
             /\ slot'[q].dev = slot[q].dev /\ slot'[q].mem = slot[q].mem,
           IsBusy(slot'[p]) => slot'[p].dev = d /\ slot'[p].mem = mem,
           slot'[p].cmd = "listen" => slot[p].cmd = "listen" /\ slot'[p].dev = d,
           \A e \in Device \ {d} : file'[e] = file[e] /\ tmp'[e] = tmp[e],
           d \in Cli \/ file'[d].form = "whole" \/ file'[d] = file[d],
           d \notin overlapped =>
             /\ slot'[p].stage = "renaming" =>
                  slot'[p].dev = d /\ tmp'[d] = Marshalled(slot'[p].mem)
             /\ \/ file'[d] = Marshalled(mem)
                \/ /\ UNCHANGED <<sent, printed>> /\ file'[d] = file[d]
                   /\ \A cmd : Replaces(slot[p], d, cmd) => Replaces(slot'[p], d, cmd),
           slot'[p].stage = "renaming" => slot'[p].dev = d,
           \A e \in Device \ {d} : \A cmd, st : Good(cmd, e, st) => Good(cmd, e, st)',
           \A cmd \in Kinds : Intact(d, cmd) =>
             Good(cmd, d, mem)' /\ Good(cmd, d, Marshalled(mem).state)'
    PROVE  SavedInv'
  <1>1. /\ d \in Device /\ \A q \in Process : slot[q].dev \in Device /\ SlotShaped(slot[q])
    BY DEF PathInv, SlotsInv, SlotShaped
  <1>2. ASSUME NEW e \in Device, NEW cmd \in Kinds, Intact(e, cmd)'
        PROVE  HeldGood(e, cmd)' /\ PathGood(e, cmd)'
    <2>1. Intact(e, cmd) /\ HeldGood(e, cmd) /\ PathGood(e, cmd) /\ e \notin overlapped
      BY <1>2 DEF Intact, SavedInv
    <2>2. CASE e = d
      <3>1. ASSUME NEW q \in Process, IsBusy(slot[q]), slot[q].dev = d PROVE q = p
        BY <2>1, <2>2, <3>1 DEF PathInv, SlotsInv, OneAtATime
      <3>2. HeldGood(e, cmd)'
        <4> SUFFICES ASSUME NEW q \in Process, IsBusy(slot'[q]), slot'[q].dev = e
                     PROVE  Good(cmd, e, slot[q].mem)'
          BY DEF HeldGood, IsBusy
        <4>1. q = p
          <5>1. q # p => IsBusy(slot[q]) /\ slot[q].dev = d
            BY <2>2 DEF IsBusy
          <5> QED BY <3>1, <5>1
        <4>2. slot'[q].mem = mem
          BY <4>1
        <4>3. Good(cmd, d, mem)'
          BY <2>1, <2>2
        <4> QED BY <2>2, <4>2, <4>3 DEF Good, Shown, Ahead
      <3>3. PathGood(e, cmd)'
        <4>1. CASE file'[d] = Marshalled(mem)
          <5> PICK st : st = Marshalled(mem).state
            OBVIOUS
          <5>1. Good(cmd, d, st)'
            BY <2>1, <2>2
          <5>2. st = file'[d].state
            BY <4>1
          <5> QED BY <2>2, <5>1, <5>2 DEF PathGood, Good, Shown, Ahead
        <4>2. CASE /\ UNCHANGED <<sent, printed>> /\ file'[d] = file[d]
                   /\ \A c : Replaces(slot[p], d, c) => Replaces(slot'[p], d, c)
          <5>1. CASE \E q \in Process : Replaces(slot[q], d, cmd)
            <6>1. PICK q \in Process : Replaces(slot[q], d, cmd)
              BY <5>1
            <6>2. q = p
              BY <1>1, <3>1, <6>1, ReplacesBusy
            <6>3. Replaces(slot'[p], d, cmd)
              BY <4>2, <6>1, <6>2
            <6> QED BY <2>2, <6>3 DEF PathGood, Replaces
          <5>2. CASE file[d].form # "whole"
            BY <2>2, <4>2, <5>2 DEF PathGood
          <5>3. CASE Good(cmd, d, file[d].state)
            <6> PICK st : st = file[d].state
              OBVIOUS
            <6>1. Good(cmd, d, st)'
              BY <4>2, <5>3, GoodSame
            <6>2. st = file'[d].state
              BY <4>2
            <6> QED BY <2>2, <6>1, <6>2 DEF PathGood, Good, Shown, Ahead
          <5> QED BY <2>1, <2>2, <5>1, <5>2, <5>3 DEF PathGood
        <4> QED BY <2>1, <2>2, <4>1, <4>2
      <3> QED BY <3>2, <3>3
    <2>3. CASE e # d
      <3>1. ASSUME NEW st, Good(cmd, e, st) PROVE Good(cmd, e, st)'
        BY <2>3, <3>1
      <3>2. HeldGood(e, cmd)'
        <4> SUFFICES ASSUME NEW q \in Process, IsBusy(slot'[q]), slot'[q].dev = e
                     PROVE  Good(cmd, e, slot[q].mem)'
          BY DEF HeldGood, IsBusy
        <4>1. q # p
          BY <2>3
        <4> PICK st : st = slot[q].mem
          OBVIOUS
        <4>2. IsBusy(slot[q]) /\ slot[q].dev = e /\ slot'[q].mem = st
          BY <4>1 DEF IsBusy
        <4>3. Good(cmd, e, st)'
          BY <2>1, <3>1, <4>2 DEF HeldGood
        <4> QED BY <4>2, <4>3 DEF Good, Shown, Ahead
      <3>3. PathGood(e, cmd)'
        <4>1. file'[e] = file[e]
          BY <2>3
        <4>2. CASE \E q \in Process : Replaces(slot[q], e, cmd)
          <5>1. PICK q \in Process : Replaces(slot[q], e, cmd)
            BY <4>2
          <5>2. q # p
            BY <2>3, <5>1 DEF Replaces
          <5>3. Replaces(slot'[q], e, cmd)
            BY <5>1, <5>2 DEF Replaces
          <5> QED BY <5>3 DEF PathGood, Replaces
        <4>3. CASE file[e].form # "whole"
          BY <4>1, <4>3 DEF PathGood
        <4>4. CASE Good(cmd, e, file[e].state)
          <5> PICK st : st = file[e].state
            OBVIOUS
          <5>1. Good(cmd, e, st)' /\ st = file'[e].state
            BY <3>1, <4>1, <4>4
          <5> QED BY <5>1 DEF PathGood, Good, Shown, Ahead
        <4> QED BY <2>1, <4>2, <4>3, <4>4 DEF PathGood
      <3> QED BY <3>2, <3>3
    <2> QED BY <2>2, <2>3
  <1>3. ASSUME NEW q \in Process, slot'[q].dev \notin overlapped', slot'[q].stage = "renaming"
        PROVE  tmp'[slot'[q].dev] = Marshalled(slot'[q].mem)
    <2>1. CASE q = p
      BY <1>3, <2>1
    <2>2. CASE q # p
      <3>1. slot[q].dev # d
        BY <1>3, <2>2, SavesAlone
      <3> QED BY <1>1, <1>3, <2>2, <3>1 DEF SavedInv
    <2> QED BY <2>1, <2>2
  <1>4. ASSUME NEW q \in Process, slot'[q].cmd = "listen"
        PROVE  slot'[q].dev \in Cli \/ file'[slot'[q].dev].form = "whole"
    <2>1. slot[q].cmd = "listen" /\ slot'[q].dev = slot[q].dev
      BY <1>4
    <2>2. slot[q].dev \in Cli \/ file[slot[q].dev].form = "whole"
      BY <2>1 DEF SavedInv
    <2> QED BY <1>1, <2>1, <2>2
  <1> QED BY <1>2, <1>3, <1>4 DEF SavedInv

\* A busy slot whose device was not disturbed is good, as saved, too.
LEMMA HeldAsSaved ==
    ASSUME PathInv, KeysInv, SavedInv, NEW p \in Process, IsBusy(slot[p]),
           NEW cmd \in Kinds, Intact(slot[p].dev, cmd)
    PROVE  /\ Good(cmd, slot[p].dev, slot[p].mem)
           /\ Good(cmd, slot[p].dev, Marshalled(slot[p].mem).state)
  <1>1. /\ slot[p].dev \in Device /\ StateShaped(slot[p].mem)
        /\ StateBelow(slot[p].mem, nextKey)
    BY DEF PathInv, SlotsInv, SlotShaped, KeysInv, SlotBelow
  <1>2. Good(cmd, slot[p].dev, slot[p].mem)
    BY <1>1 DEF SavedInv, HeldGood
  <1> QED BY <1>1, <1>2, MarshalledGood

\* A process that writes keeps its state, and nobody else's file is touched;
\* without an overlap it writes into a temporary file that it truncated.
LEMMA WritesSaved ==
    ASSUME PathInv, KeysInv, SavedInv, ShowInv, PostInv, NEW p \in Process,
           OpenTmp(p) \/ WriteTmp(p)
    PROVE  SavedInv' /\ ShowInv' /\ PostInv'
  <1> PICK d, mem : d = slot[p].dev /\ mem = slot[p].mem
    BY Zenon
  <1>1. /\ UNCHANGED <<sent, printed, overlapped, cut>> /\ SlotsInv /\ FilesShaped
        /\ SlotShaped(slot[p]) /\ IsBusy(slot[p]) /\ d \in Device /\ d \in Cli
        /\ slot[p].stage \in {"saving", "writing"}
    BY OpenTmpSlot, WriteTmpSlot DEF OpenTmp, WriteTmp, PathInv, SlotsInv, SlotShaped
  <1>2. PICK t : /\ Gets(p, t) /\ t.stage \in {"writing", "renaming"}
                 /\ t.cmd = slot[p].cmd /\ t.dev = d /\ t.mem = mem
                 /\ t.stage = "renaming" => WriteTmp(p)
    <2>1. CASE OpenTmp(p)
      BY <1>1, <2>1, OpenTmpSlot DEF Moves
    <2>2. CASE WriteTmp(p)
      BY <1>1, <2>2, WriteTmpSlot DEF Moves
    <2> QED BY <2>1, <2>2
  <1>3. /\ \A e \in Device \ {d} : file'[e] = file[e] /\ tmp'[e] = tmp[e]
        /\ d \notin overlapped => file'[d] = file[d]
        /\ d \notin overlapped /\ WriteTmp(p) => tmp'[d] = Marshalled(mem)
    <2>1. CASE OpenTmp(p)
      <3>1. file' = file /\ tmp' = [tmp EXCEPT ![d] = Bad("empty")] /\ ~WriteTmp(p)
        BY <2>1 DEF OpenTmp, WriteTmp
      <3> QED BY <1>1, <3>1 DEF FilesShaped
    <2>2. CASE WriteTmp(p)
      <3>1. \E c : \/ tmp' = [tmp EXCEPT ![d] = c] /\ UNCHANGED file
                   \/ file' = [file EXCEPT ![d] = c] /\ UNCHANGED tmp
                   \/ UNCHANGED <<file, tmp>>
        BY <2>2, WriteTmpIs
      <3>2. \A e \in Device \ {d} : file'[e] = file[e] /\ tmp'[e] = tmp[e]
        BY <1>1, <3>1 DEF FilesShaped
      <3>3. CASE d \notin overlapped
        <4>1. slot[p].handle = "tmp" /\ tmp[d].form = "empty"
          BY <2>2, <3>3 DEF WriteTmp, PathInv, TmpIsOwn
        <4>2. PICK c \in Written(tmp[d], mem) : tmp' = [tmp EXCEPT ![d] = c]
          BY <2>2, <4>1 DEF WriteTmp
        <4>3. UNCHANGED file
          BY <2>2, <4>1 DEF WriteTmp
        <4>4. c = Marshalled(mem)
          BY <4>1, <4>2, Zenon DEF Written
        <4> QED BY <1>1, <3>2, <4>2, <4>3, <4>4 DEF FilesShaped
      <3> QED BY <3>2, <3>3
    <2> QED BY <2>1, <2>2
  <1>4. \A q \in Process : slot'[q] = IF q = p THEN t ELSE slot[q]
    BY <1>1, <1>2 DEF Gets, SlotsInv
  <1>5. \A cmd : Replaces(slot[p], d, cmd) => Replaces(t, d, cmd)
    BY <1>2 DEF Replaces
  <1>6. \A cmd \in Kinds : Intact(d, cmd) =>
             Good(cmd, d, mem)' /\ Good(cmd, d, Marshalled(mem).state)'
    <2>1. \A cmd \in Kinds : Intact(d, cmd) =>
             Good(cmd, d, mem) /\ Good(cmd, d, Marshalled(mem).state)
      BY <1>1, HeldAsSaved
    <2> QED BY <1>1, <2>1, GoodSame
  <1>7. \A e \in Device \ {d} : \A cmd, st : Good(cmd, e, st) => Good(cmd, e, st)'
    BY <1>1, GoodSame
  <1>8. SavedInv'
    <2>1. slot'[p] = t
      BY <1>4
    <2>2. \A q \in Process \ {p} :
             /\ slot'[q].stage = slot[q].stage /\ slot'[q].cmd = slot[q].cmd
             /\ slot'[q].dev = slot[q].dev /\ slot'[q].mem = slot[q].mem
      BY <1>4
    <2>3. d \notin overlapped =>
             /\ slot'[p].stage = "renaming" =>
                  slot'[p].dev = d /\ tmp'[d] = Marshalled(slot'[p].mem)
             /\ UNCHANGED <<sent, printed>> /\ file'[d] = file[d]
             /\ \A cmd : Replaces(slot[p], d, cmd) => Replaces(slot'[p], d, cmd)
      BY <1>1, <1>2, <1>3, <1>5, <2>1
    <2> QED BY <1>1, <1>2, <1>3, <1>6, <1>7, <2>1, <2>2, <2>3, SavesGood
  <1>9. ~Shows(t) /\ t.stage # "posting"
    BY <1>2 DEF Shows
  <1> QED BY <1>1, <1>2, <1>8, <1>9, ShownQuietly

\* A state is put in place, by a rename or by the answer to a call whose
\* caller keeps it.
LEMMA ReplacesSaved ==
    ASSUME PathInv, KeysInv, SavedInv, ShowInv, PostInv, NEW p \in Process,
           \/ Rename(p) \/ ClientInitReturns(p) \/ ClientSendReturns(p)
           \/ ClientEnvelopeReturns(p)
    PROVE  SavedInv' /\ ShowInv' /\ PostInv'
  <1> PICK d, mem, a : d = slot[p].dev /\ mem = slot[p].mem /\ a = slot[p].at
    OBVIOUS
  <1> DEFINE saved == Marshalled(mem)
  <1>1. /\ UNCHANGED <<sent, overlapped, cut>> /\ SlotsInv /\ FilesShaped
        /\ SlotShaped(slot[p]) /\ IsBusy(slot[p]) /\ d \in Device
        /\ StateShaped(mem) /\ StateBelow(mem, nextKey)
        /\ slot[p].stage \in {"saving", "renaming"}
    <2>1. /\ UNCHANGED <<sent, overlapped, cut>>
          /\ slot[p].stage \in {"saving", "renaming"}
      BY DEF Rename, ClientInitReturns, ClientSendReturns, ClientEnvelopeReturns, Returns
    <2>2. SlotShaped(slot[p]) /\ SlotsInv /\ FilesShaped /\ SlotBelow(slot[p], nextKey)
      BY DEF PathInv, SlotsInv, KeysInv
    <2> QED BY <2>1, <2>2 DEF SlotShaped, IsBusy, SlotBelow
  <1>2. saved.form = "whole"
    BY <1>1, MarshalledIs
  <1> HIDE DEF saved
  <1>3. /\ \A e \in Device \ {d} : file'[e] = file[e] /\ tmp'[e] = tmp[e]
        /\ d \notin Cli \/ d \notin overlapped => file'[d] = saved
        /\ Rename(p) => d \in Cli
    <2>1. CASE Rename(p)
      <3>1. /\ file' = [file EXCEPT ![d] = tmp[d]]
            /\ tmp' = [tmp EXCEPT ![d] = Bad("absent")] /\ slot[p].stage = "renaming"
        BY <2>1 DEF Rename
      <3>2. d \in Cli
        BY <1>1, <3>1 DEF SlotShaped
      <3>3. d \notin overlapped => tmp[d] = saved
        BY <3>1 DEF SavedInv, saved
      <3> QED BY <1>1, <3>1, <3>2, <3>3 DEF FilesShaped
    <2>2. CASE ClientInitReturns(p) \/ ClientSendReturns(p) \/ ClientEnvelopeReturns(p)
      <3>1. /\ file' = [file EXCEPT ![d] = saved] /\ UNCHANGED tmp
            /\ slot[p].stage = "saving"
        BY <2>2 DEF ClientInitReturns, ClientSendReturns, ClientEnvelopeReturns, Returns,
                    saved
      <3>2. ~Rename(p)
        BY <3>1 DEF Rename
      <3> QED BY <1>1, <3>1, <3>2 DEF FilesShaped
    <2> QED BY <2>1, <2>2
  <1>4. \A q \in Process \ {p} :
             /\ slot'[q].stage = slot[q].stage /\ slot'[q].cmd = slot[q].cmd
             /\ slot'[q].dev = slot[q].dev /\ slot'[q].mem = slot[q].mem
             /\ slot'[q].env = slot[q].env /\ slot'[q].at = slot[q].at
    <2>1. CASE Rename(p)
      BY <1>1, <2>1, RenameSlots
    <2>2. CASE ClientInitReturns(p) \/ ClientSendReturns(p) \/ ClientEnvelopeReturns(p)
      <3>1. PICK t : slot' = [slot EXCEPT ![p] = t]
        BY <2>2 DEF ClientInitReturns, ClientSendReturns, ClientEnvelopeReturns, Returns
      <3> QED BY <1>1, <3>1 DEF SlotsInv
    <2> QED BY <2>1, <2>2
  <1>5. /\ slot'[p].stage \in {"idle", "listening"}
        /\ IsBusy(slot'[p]) => slot'[p].dev = d /\ slot'[p].mem = mem
        /\ slot'[p].cmd = "listen" => slot[p].cmd = "listen" /\ slot'[p].dev = d
    <2>1. Idle.stage = "idle" /\ ~IsBusy(Idle) /\ Idle.cmd # "listen"
      BY DEF Idle, IsBusy
    <2>2. CASE Rename(p)
      <3>1. \/ slot'[p] = Idle
            \/ /\ slot[p].cmd = "listen" /\ slot'[p].stage = "listening"
               /\ slot'[p].dev = d /\ slot'[p].mem = mem
        BY <1>1, <2>2, RenameSlots
      <3> QED BY <2>1, <3>1
    <2>3. CASE ClientInitReturns(p) \/ ClientSendReturns(p) \/ ClientEnvelopeReturns(p)
      <3>1. d \notin Cli /\ (Gets(p, Idle) \/ \E t : Moves(p, t, "listening")
                                                     /\ slot[p].cmd = "listen")
        BY <1>1, <2>3, ReturnsSlot
      <3>2. CASE Gets(p, Idle)
        <4>1. slot'[p] = Idle
          BY <1>1, <3>2 DEF Gets, SlotsInv
        <4> QED BY <2>1, <4>1
      <3>3. CASE \E t : Moves(p, t, "listening") /\ slot[p].cmd = "listen"
        <4>1. PICK t : Moves(p, t, "listening") /\ slot[p].cmd = "listen"
          BY <3>3
        <4>2. slot'[p] = t /\ t.stage = "listening" /\ t.dev = d
          BY <1>1, <4>1 DEF Moves, Gets, SlotsInv
        <4> QED BY <3>1, <4>1, <4>2 DEF IsBusy
      <3> QED BY <3>1, <3>2, <3>3
    <2> QED BY <2>2, <2>3
  <1>6. \/ UNCHANGED printed
        \/ /\ printed' = [printed EXCEPT ![a] = @ + 1] /\ Shows(slot[p])
           /\ \E t : Gets(p, t) /\ ~Shows(t)
    <2>1. CASE ClientEnvelopeReturns(p)
      <3>1. /\ printed' = [printed EXCEPT ![a] = @ + 1] /\ Shows(slot[p])
        BY <2>1 DEF ClientEnvelopeReturns, Returns, Shows
      <3>2. slot' = [slot EXCEPT ![p] = Waiting(slot[p])] /\ slot[p].cmd = "listen"
        BY <2>1 DEF ClientEnvelopeReturns, Returns
      <3>3. Gets(p, Waiting(slot[p])) /\ ~Shows(Waiting(slot[p]))
        BY <1>1, <3>2, WaitingShaped DEF Gets, Shows
      <3> QED BY <3>1, <3>3
    <2>2. CASE Rename(p) \/ ClientInitReturns(p) \/ ClientSendReturns(p)
      BY <2>2 DEF Rename, ClientInitReturns, ClientSendReturns
    <2> QED BY <2>1, <2>2
  <1>7. \A cmd \in Kinds : Intact(d, cmd) => Good(cmd, d, mem) /\ Good(cmd, d, saved.state)
    BY <1>1, HeldAsSaved DEF saved
  <1>8. /\ \A e \in Device \ {d} : \A cmd, st : Good(cmd, e, st) => Good(cmd, e, st)'
        /\ \A cmd \in Kinds : Intact(d, cmd) =>
             Good(cmd, d, mem)' /\ Good(cmd, d, saved.state)'
        /\ ShowInv'
    <2>1. CASE UNCHANGED printed
      <3>1. ASSUME NEW q \in Process, Shows(slot'[q])
            PROVE  /\ Shows(slot[q]) /\ slot'[q].at = slot[q].at
                   /\ slot'[q].dev = slot[q].dev /\ slot'[q].mem = slot[q].mem
        BY <1>4, <1>5, <3>1 DEF Shows
      <3> QED BY <1>1, <1>7, <2>1, <3>1, GoodSame, ShowKept
    <2>2. CASE /\ printed' = [printed EXCEPT ![a] = @ + 1] /\ Shows(slot[p])
               /\ \E t : Gets(p, t) /\ ~Shows(t)
      <3>1. ShowInv'
        BY <1>1, <2>2, ShowsText
      <3>2. /\ a \in DOMAIN sent /\ sent[a].from = Peer(d)
            /\ Intact(d, "listen") => StateDead(mem, sent[a].key)
        BY <2>2 DEF ShowInv
      <3>3. /\ \A e \in Device : \A cmd, st : e # d => (Good(cmd, e, st)' <=> Good(cmd, e, st))
            /\ \A st : Good("listen", d, st) /\ StateDead(st, sent[a].key)
                         => Good("listen", d, st)'
            /\ \A st : Good("send", d, st)' <=> Good("send", d, st)
        BY <1>1, <2>2, <3>2, Showing
      <3>4. Intact(d, "listen") => StateDead(saved.state, sent[a].key)
        BY <1>1, <3>2, SentKeys, MarshalledDead DEF saved
      <3> QED BY <1>7, <3>1, <3>2, <3>3, <3>4 DEF Kinds
    <2> QED BY <1>6, <2>1, <2>2
  <1>9. SavedInv'
    <2>1. d \in Cli \/ file'[d].form = "whole"
      BY <1>2, <1>3
    <2>2. d \notin overlapped => file'[d] = Marshalled(mem)
      BY <1>3 DEF saved
    <2>3. \A cmd \in Kinds : Intact(d, cmd) =>
             Good(cmd, d, mem)' /\ Good(cmd, d, Marshalled(mem).state)'
      BY <1>8 DEF saved
    <2> QED BY <1>1, <1>3, <1>4, <1>5, <1>8, <2>1, <2>2, <2>3, SavesGood
  <1>10. PostInv'
    <2>1. \A q \in Process : slot'[q].stage = "posting" =>
             /\ slot[q].stage = "posting" /\ slot'[q].env = slot[q].env
             /\ slot'[q].dev = slot[q].dev
      BY <1>4, <1>5
    <2> QED BY <1>1, <2>1, PostKept
  <1> QED BY <1>8, <1>9, <1>10

LEMMA SavedStep ==
    ASSUME PathInv, KeysInv, ChainsApart, SavedInv, ShowInv, PostInv, [Next]_vars
    PROVE  SavedInv' /\ ShowInv' /\ PostInv'
  <1>1. ASSUME NEW p \in Process, NEW d \in Device,
               StartInit(p, d) \/ StartSend(p, d) \/ StartListen(p, d)
        PROVE  SavedInv' /\ ShowInv' /\ PostInv'
    BY <1>1, StartSaved
  <1>2. ASSUME NEW p \in Process, Register(p) PROVE SavedInv' /\ ShowInv' /\ PostInv'
    BY <1>2, RegisterSaved
  <1>3. ASSUME NEW p \in Process, Seal(p) \/ SealFirst(p)
        PROVE  SavedInv' /\ ShowInv' /\ PostInv'
    BY <1>3, SealSaved
  <1>4. ASSUME NEW p \in Process, Post(p) PROVE SavedInv' /\ ShowInv' /\ PostInv'
    BY <1>4, PostSaved
  <1>5. ASSUME NEW p \in Process, ReadEnvelope(p) PROVE SavedInv' /\ ShowInv' /\ PostInv'
    BY <1>5, ReadEnvelopeSaved
  <1>6. ASSUME NEW p \in Process, PrintText(p) PROVE SavedInv' /\ ShowInv' /\ PostInv'
    BY <1>6, PrintTextSaved
  <1>7. ASSUME NEW p \in Process,
               LoseAnswer(p) \/ Disconnect(p) \/ RenameFails(p) \/ Crash(p)
        PROVE  SavedInv' /\ ShowInv' /\ PostInv'
    BY <1>7, EndsSaved
  <1>8. ASSUME NEW p \in Process, OpenTmp(p) \/ WriteTmp(p)
        PROVE  SavedInv' /\ ShowInv' /\ PostInv'
    BY <1>8, WritesSaved
  <1>9. ASSUME NEW p \in Process, \/ Rename(p) \/ ClientInitReturns(p)
                                  \/ ClientSendReturns(p) \/ ClientEnvelopeReturns(p)
        PROVE  SavedInv' /\ ShowInv' /\ PostInv'
    BY <1>9, ReplacesSaved
  <1>10. CASE UNCHANGED vars
    <2>1. PostInv'
      BY <1>10, PostKept DEF vars
    <2>2. ShowInv'
      BY <1>10, ShowKept DEF vars
    <2>3. SavedInv'
      BY <1>10 DEF vars, SavedInv, HeldGood, PathGood, Replaces, IsBusy, Intact, Good, Ahead,
                   Shown
    <2> QED BY <2>1, <2>2, <2>3
  <1> QED BY <1>1, <1>2, <1>3, <1>4, <1>5, <1>6, <1>7, <1>8, <1>9, <1>10 DEF Next

ClientInv == PathInv /\ KeysInv /\ ChainsApart /\ SavedInv /\ ShowInv /\ PostInv

LEMMA ClientInvariant == Spec => []ClientInv
  <1>1. Init => ClientInv
    BY InitPath, InitKeys, InitChains, InitSaved DEF ClientInv
  <1>2. ClientInv /\ [Next]_vars => ClientInv'
    BY PathStep, KeysStep, ChainsStep, SavedStep DEF ClientInv
  <1> QED BY <1>1, <1>2, PTL DEF Spec

\* A device is not shown a text twice, however often its envelope is pushed
\* and wherever processes and calls end, unless a listener ended between
\* showing and saving (runListen prints before it saves, handleClientEnvelope
\* leaves the saving to its caller) or two of the device overlapped.
THEOREM TextsAreShownOnce == Spec => []ShownOnce
  <1>1. ClientInv => ShownOnce
    <2> SUFFICES ASSUME ClientInv, NEW i \in DOMAIN sent,
                        Intact(Peer(sent[i].from), "listen")
                 PROVE  printed[i] <= 1
      BY DEF ShownOnce, Intact
    <2> PICK d : d = Peer(sent[i].from)
      OBVIOUS
    <2>1. KeysInv /\ ShowInv /\ printed[i] \in Nat
      BY DEF ClientInv, ShowInv
    <2>2. d \in Device /\ sent[i].from = Peer(d)
      BY <2>1, SentKeys DEF Peer, Device
    <2>3. CASE printed[i] > 0
      <3>1. i \in Shown(d)
        BY <2>2, <2>3 DEF Shown
      <3> QED BY <2>1, <2>2, <3>1 DEF ShowInv
    <2>4. CASE ~(printed[i] > 0)
      BY <2>1, <2>4
    <2> QED BY <2>3, <2>4
  <1> QED BY <1>1, ClientInvariant, PTL

\* No two stored envelopes have the same message key (runSend and
\* handleClientSend seal, post and only then save the advanced session),
\* unless a send of the device ended between the POST and the save, or two of
\* its commands overlapped.
THEOREM KeysAreNotReused == Spec => []KeyReuseOnlyAfterBreak
  <1>1. ClientInv => KeyReuseOnlyAfterBreak
    <2> SUFFICES ASSUME ClientInv, NEW i \in DOMAIN sent, NEW j \in DOMAIN sent,
                        sent[i].key = sent[j].key, Intact(sent[i].from, "send")
                 PROVE  i = j
      BY DEF KeyReuseOnlyAfterBreak, Intact
    <2>1. sent[i].from \in Device
      BY SentKeys DEF ClientInv
    <2> QED BY <2>1 DEF ClientInv, PostInv
  <1> QED BY <1>1, ClientInvariant, PTL

-----------------------------------------------------------------------------
(* Nothing is swallowed: every key that was gone past is accounted for.     *)

\* Book V has a line <<d, r, k>> for every chain that device d ever sent on:
\* its root is r, and its key pair is k.
On(V, d, r, k) == <<d, r, k>> \in V

LastSecret(r) == IF r = <<>> THEN {} ELSE r[Len(r)]

\* Each key pair was generated before b, is in the last secret of its root,
\* and has one chain.
OneChain(V, b) ==
    \A d, r, k : On(V, d, r, k) =>
        /\ k \in Nat /\ k < b /\ k # NoKey
        /\ k \in LastSecret(r)
        /\ \A q : On(V, d, q, k) => q = r

\* The peer of d sends under no key pair k, and on no chain with root r.
Mine(V, d, k) == \A r : ~On(V, Peer(d), r, k)
Foreign(V, d, r) == \A k : ~On(V, Peer(d), r, k)

\* The last secret of the receiving chain has a key pair of d and that of the
\* peer, under which the keys of the chain are kept.
Follows(V, b, d, s) ==
    /\ s.recv.key.root # <<>> =>
         \E o \in Nat : /\ o < b /\ Mine(V, d, o)
                        /\ LastSecret(s.recv.key.root) = {o, s.remote}
    /\ \A e \in s.skipped :
         ~e.mangled /\ e.key.root = s.recv.key.root => e.dh = s.remote

\* What session s went past is kept, or in G, or its peer seals nothing with it.
Accounted(V, d, s, G) ==
    \A k \in ChainKey :
        k.root = s.recv.key.root /\ k.step < s.recv.key.step =>
            \/ \E e \in s.skipped : e.key = k
            \/ k \in G
            \/ Foreign(V, d, k.root)

Lossless(V, b, d, s, G) ==
    /\ Numbered(s)
    /\ NeedsRotation(s) \/ On(V, d, s.send.key.root, s.own)
    /\ Mine(V, d, s.own)
    /\ Follows(V, b, d, s)
    /\ Accounted(V, d, s, G)

Kept(V, b, d, st, G) ==
    /\ Mine(V, d, st.prekey)
    /\ \A s \in st.sessions : Lossless(V, b, d, s, G)

LEMMA KeptMore ==
    ASSUME NEW V, NEW b \in Nat, NEW c \in Nat, b <= c, NEW d, NEW st,
           NEW G, NEW H, G \subseteq H, Kept(V, b, d, st, G)
    PROVE  Kept(V, c, d, st, H)
  <1> SUFFICES ASSUME NEW s \in st.sessions PROVE Lossless(V, c, d, s, H)
    BY DEF Kept
  <1>1. Lossless(V, b, d, s, G)
    BY DEF Kept
  <1>2. Follows(V, c, d, s)
    BY <1>1 DEF Lossless, Follows
  <1>3. Accounted(V, d, s, H)
    BY <1>1 DEF Lossless, Accounted
  <1> QED BY <1>1, <1>2, <1>3 DEF Lossless

LEMMA NoStateKept ==
    ASSUME NEW V, NEW b, OneChain(V, b), NEW d, NEW G
    PROVE  Kept(V, b, d, NoState, G) /\ Kept(V, b, d, Idle.mem, G)
  <1>1. NoState.prekey = NoKey /\ NoState.sessions = {} /\ Idle.mem = NoState
    BY DEF NoState, Fresh, Idle
  <1> QED BY <1>1 DEF Kept, Mine, OneChain

\* A save and a load lose the headers of what is kept, not the keys.
LEMMA MarshalledKept ==
    ASSUME NEW V, NEW b, NEW d, NEW st, StateShaped(st), NEW c, StateBelow(st, c), NEW G,
           Kept(V, b, d, st, G)
    PROVE  Kept(V, b, d, Marshalled(st).state, G)
  <1>1. ASSUME NEW s \in st.sessions PROVE Lossless(V, b, d, ExportImport(s), G)
    <2> PICK t : t = ExportImport(s)
      OBVIOUS
    <2>1. Tidy(s) /\ Lossless(V, b, d, s, G)
      BY DEF Kept, StateBelow, SessionInv
    <2>2. Numbered(t) /\ t.send = s.send
      BY <2>1, ExportNumbered, ExportSends DEF Lossless
    <2>3. /\ t.own = s.own /\ t.remote = s.remote /\ t.recv = s.recv
          /\ \A e \in t.skipped : e.mangled
          /\ \A e \in s.skipped : \E f \in t.skipped : f.key = e.key
      <3> DEFINE K == {[e EXCEPT !.mangled = TRUE] : e \in s.skipped}
      <3>1. t = [s EXCEPT !.skipped = K]
        BY DEF ExportImport
      <3>2. \A e \in K : e.mangled
        BY <2>1 DEF Tidy, Session, SkippedEntry
      <3>3. ASSUME NEW e \in s.skipped PROVE \E f \in K : f.key = e.key
        <4>1. [e EXCEPT !.mangled = TRUE] \in K
          OBVIOUS
        <4>2. [e EXCEPT !.mangled = TRUE].key = e.key
          BY <2>1 DEF Tidy, Session, SkippedEntry
        <4> QED BY <4>1, <4>2
      <3> HIDE DEF K
      <3> QED BY <2>1, <3>1, <3>2, <3>3 DEF Tidy, Session
    <2>4. Follows(V, b, d, t)
      BY <2>1, <2>3 DEF Lossless, Follows
    <2>5. Accounted(V, d, t, G)
      BY <2>1, <2>3, Zenon DEF Lossless, Accounted
    <2> QED BY <2>1, <2>2, <2>3, <2>4, <2>5 DEF Lossless, NeedsRotation
  <1> QED BY <1>1, MarshalledIs DEF Kept

\* The peer seals with one chain under the key pair of a header, so a session
\* that follows another one there follows none of the peer's.
LEMMA ForeignChain ==
    ASSUME NEW V, NEW b, OneChain(V, b), NEW d, NEW s, Follows(V, b, d, s),
           NEW q, On(V, Peer(d), q, s.remote), q # s.recv.key.root
    PROVE  Foreign(V, d, s.recv.key.root)
  <1> SUFFICES ASSUME NEW k, On(V, Peer(d), s.recv.key.root, k) PROVE FALSE
    BY DEF Foreign
  <1>1. k \in LastSecret(s.recv.key.root)
    BY DEF OneChain
  <1>2. s.recv.key.root # <<>>
    BY <1>1 DEF LastSecret
  <1>3. k = s.remote
    BY <1>1, <1>2 DEF Follows, Mine
  <1> QED BY <1>3 DEF OneChain

\* A rotation begins a chain with a key pair of the device itself.
LEMMA RotateLossless ==
    ASSUME NEW V, NEW b \in Nat, NEW d, NEW s, SessionInv(s, b), NEW G,
           Lossless(V, b, d, s, G), NEW h \in Header
    PROVE  LET r == RotateRatchetOnRecv(s, h)
           IN  Lossless(V, b, d, r, G) /\ Tidy(r) /\ r.remote = h.dh /\ r.skipped = s.skipped
  <1> PICK r : r = RotateRatchetOnRecv(s, h)
    OBVIOUS
  <1>1. Tidy(s) /\ Tidy(r) /\ Numbered(s) /\ Numbered(r)
    BY RotateDead, RotateNumbered DEF SessionInv, Lossless
  <1>2. CASE h.dh = s.remote
    BY <1>1, <1>2 DEF RotateRatchetOnRecv
  <1>3. CASE h.dh # s.remote
    <2> PICK q : q = KdfRoot(s.root, DH(s.own, h.dh))
      OBVIOUS
    <2>1. /\ r.own = s.own /\ r.remote = h.dh /\ r.skipped = s.skipped
          /\ r.recv.key.root = q /\ r.recv.key.step = 0
          /\ NeedsRotation(r)
          /\ q # <<>> /\ q[Len(q)] = {s.own, h.dh}
          /\ \A e \in s.skipped : e.key.root # q
      BY <1>1, <1>3, RotatedIs
    <2>2. s.own \in Nat /\ s.own < b
      BY DEF SessionInv, Below, Tidy, Session, KeyPair
    <2>3. Follows(V, b, d, r)
      BY <2>1, <2>2 DEF Follows, Lossless, LastSecret
    <2>4. Accounted(V, d, r, G)
      BY <2>1 DEF Accounted, ChainKey
    <2> QED BY <1>1, <2>1, <2>3, <2>4 DEF Lossless
  <1> QED BY <1>2, <1>3

\* The keys of the gap that Dropped does not name are still there.
LEMMA DroppedIs ==
    ASSUME NEW s, NEW m, SkippedFor(s, m.header) = {},
           NEW r, r = RotateRatchetOnRecv(s, m.header), r.skipped = s.skipped,
           Tidy(r), Numbered(r), m.header.n \in Nat, r.recv.index <= m.header.n,
           NEW st \in StoresUpTo(r, m.header.n), NEW t, t.skipped = st,
           NEW e \in Gap(r, m.header.n), e.key.root = r.recv.key.root
    PROVE  e \in st \/ e.key \in Dropped(s, m, t)
  <1> PICK n, F : n = m.header.n /\ F = Gap(r, n)
    OBVIOUS
  <1>1. F = s.skipped \cup {SkippedAt(r, i) : i \in r.recv.index .. n - 1}
    BY DEF Gap
  <1>2. CASE Cardinality(F) <= MaxSkipped
    BY <1>2, GapKept
  <1>3. CASE ~(Cardinality(F) <= MaxSkipped)
    <2>1. Dropped(s, m, t) = {g.key : g \in F \ t.skipped}
      BY <1>1, <1>3 DEF Dropped
    <2> QED BY <2>1
  <1> QED BY <1>2, <1>3

LEMMA LosslessMore ==
    ASSUME NEW V, NEW b, NEW d, NEW s, NEW G, NEW H, G \subseteq H, Lossless(V, b, d, s, G)
    PROVE  Lossless(V, b, d, s, H)
  BY DEF Lossless, Accounted

\* A kept key is used up: it opened the envelope, or was of another chain.
LEMMA ConsumesLossless ==
    ASSUME NEW V, NEW b \in Nat, OneChain(V, b), NEW d, NEW s, Tidy(s), NEW G,
           Lossless(V, b, d, s, G), NEW m, m.header \in Header, m.key \in ChainKey,
           m.header.n = m.key.step, On(V, Peer(d), m.key.root, m.header.dh),
           NEW out, Consumes(s, m, out), NEW H, G \subseteq H,
           out.result = "read" => m.key \in H
    PROVE  Lossless(V, b, d, out.session, H)
  <1> PICK e \in SkippedFor(s, m.header) :
          /\ out.session = [s EXCEPT !.skipped = s.skipped \ {e}]
          /\ out.result = IF e.key = m.key THEN "read" ELSE "failed"
    BY DEF Consumes
  <1> PICK t : t = out.session
    OBVIOUS
  <1>1. /\ t.send = s.send /\ t.recv = s.recv /\ t.own = s.own /\ t.remote = s.remote
        /\ t.skipped = s.skipped \ {e}
    BY DEF Tidy, Session
  <1>2. e \in s.skipped /\ ~e.mangled /\ e.dh = m.header.dh /\ e.n = m.header.n
        /\ e.n = e.key.step /\ e.key \in ChainKey
    BY DEF SkippedFor, SameSlot, Lossless, Numbered, Tidy, Session, SkippedEntry
  <1>3. ASSUME NEW k \in ChainKey, k.root = s.recv.key.root, k.step < s.recv.key.step
        PROVE  \/ \E f \in t.skipped : f.key = k
               \/ k \in H
               \/ Foreign(V, d, k.root)
    <2>1. CASE e.key # k
      BY <1>1, <1>3, <2>1 DEF Lossless, Accounted
    <2>2. CASE e.key = k /\ k = m.key
      BY <2>2
    <2>3. CASE e.key = k /\ k # m.key
      <3>1. k.root # m.key.root
        BY <1>2, <2>3, SameKey
      <3>2. e.dh = s.remote
        BY <1>2, <1>3, <2>3 DEF Lossless, Follows
      <3> QED BY <1>2, <1>3, <3>1, <3>2, ForeignChain, SMTT(30) DEF Lossless
    <2> QED BY <2>1, <2>2, <2>3
  <1>4. Follows(V, b, d, t)
    BY <1>1 DEF Lossless, Follows
  <1>5. Numbered(t)
    BY <1>1 DEF Lossless, Numbered
  <1> QED BY <1>1, <1>3, <1>4, <1>5 DEF Lossless, Accounted, NeedsRotation

\* The chain goes on to the envelope: what it passes on the way is kept, or
\* dropped for want of room, and the last key opened the envelope, or was of
\* another chain.
LEMMA JumpsLossless ==
    ASSUME NEW V, NEW b \in Nat, OneChain(V, b), NEW d, NEW s, NEW m,
           SkippedFor(s, m.header) = {}, NEW r, r = RotateRatchetOnRecv(s, m.header), Tidy(r), NEW G,
           Lossless(V, b, d, r, G), r.remote = m.header.dh, r.skipped = s.skipped,
           m.header \in Header, m.key \in ChainKey,
           m.header.n = m.key.step, On(V, Peer(d), m.key.root, m.header.dh),
           NEW out, Jumps(r, m, out), NEW H, G \subseteq H,
           Dropped(s, m, out.session) \subseteq H, out.result = "read" => m.key \in H
    PROVE  Lossless(V, b, d, out.session, H)
  <1> PICK n, a, t : n = m.header.n /\ a = r.recv.index /\ t = out.session
    OBVIOUS
  <1>1. /\ n \in Nat /\ a \in Nat /\ a <= n /\ Numbered(r) /\ a = r.recv.key.step
    BY DEF Jumps, Header, Tidy, Session, ChainState, Lossless, Numbered
  <1>2. PICK st \in StoresUpTo(r, n) : t = Jumped(r, n, st)
    BY DEF Jumps
  <1> PICK at : at = ChainAt(r.recv, n).key
    OBVIOUS
  <1>3. /\ t.own = r.own /\ t.remote = r.remote /\ t.send = r.send /\ t.skipped = st
        /\ t.recv.key.root = r.recv.key.root /\ t.recv.key.step = n + 1
        /\ t.recv.index = n + 1
        /\ at.root = r.recv.key.root /\ at.step = n /\ at \in ChainKey
        /\ \A e \in st : \/ e \in r.skipped
                         \/ \E i \in r.recv.index .. n - 1 : e = SkippedAt(r, i)
    <2>1. r.recv.index <= n
      BY <1>1
    <2>2. Numbered(r) /\ n \in Nat
      BY <1>1
    <2>3. Tidy(r) /\ st \in StoresUpTo(r, n) /\ t = Jumped(r, n, st) /\ at = ChainAt(r.recv, n).key
      BY <1>2
    <2>4. t.own = r.own /\ t.remote = r.remote /\ t.send = r.send /\ t.skipped = st
      BY <2>1, <2>2, <2>3, JumpedTo
    <2>5. t.recv.key.root = r.recv.key.root /\ t.recv.key.step = n + 1 /\ t.recv.index = n + 1
      BY <2>1, <2>2, <2>3, JumpedTo
    <2>6. at.root = r.recv.key.root /\ at.step = n /\ at \in ChainKey
      BY <2>1, <2>2, <2>3, JumpedTo
    <2>7. \A e \in st : \/ e \in r.skipped
                        \/ \E i \in r.recv.index .. n - 1 : e = SkippedAt(r, i)
      BY <2>1, <2>2, <2>3, JumpedTo
    <2> QED BY <2>4, <2>5, <2>6, <2>7, Zenon
  <1>4. out.result = IF at = m.key THEN "read" ELSE "failed"
    BY DEF Jumps
  <1>5. \A i \in r.recv.index .. n - 1 :
               /\ SkippedAt(r, i).dh = r.remote /\ SkippedAt(r, i).n = i
               /\ SkippedAt(r, i).key.root = r.recv.key.root
               /\ SkippedAt(r, i).key.step = i /\ SkippedAt(r, i).key \in ChainKey
    <2>1. Tidy(r) /\ Numbered(r) /\ n \in Nat
      BY <1>1
    <2> QED BY ONLY <2>1, GapEntries
  <1>6. Numbered(t)
    BY <1>1, <1>3, <1>5 DEF Numbered
  <1>7. Follows(V, b, d, t)
    BY <1>3, <1>5 DEF Lossless, Follows
  <1>8. ASSUME NEW e \in Gap(r, n), e.key.root = r.recv.key.root
        PROVE  (\E f \in t.skipped : f.key = e.key) \/ e.key \in H
    <2>1. e \in st \/ e.key \in Dropped(s, m, t)
      BY <1>1, <1>2, <1>3, <1>8, DroppedIs
    <2> QED BY <1>3, <2>1
  <1>9. ASSUME NEW k \in ChainKey, k.root = t.recv.key.root, k.step < t.recv.key.step
        PROVE  \/ \E f \in t.skipped : f.key = k
               \/ k \in H
               \/ Foreign(V, d, k.root)
    <2>1. k.step \in Nat /\ k.root = r.recv.key.root /\ k.step <= n
      BY <1>1, <1>3, <1>9 DEF ChainKey
    <2>2. CASE k.step = n
      <3>1. k = at
        BY <1>3, <2>1, <2>2 DEF ChainKey
      <3>2. CASE k = m.key
        BY <1>4, <3>1, <3>2
      <3>3. CASE k # m.key
        <4>1. k.root # m.key.root
          BY <2>2, <3>3 DEF ChainKey
        <4> QED BY <2>1, <4>1, ForeignChain DEF Lossless
      <3> QED BY <3>2, <3>3
    <2>3. CASE a <= k.step /\ k.step < n
      <3> PICK i : i = k.step
        OBVIOUS
      <3>1. i \in a .. n - 1
        BY <1>1, <2>1, <2>3
      <3>2. SkippedAt(r, i).key = k
        BY <1>5, <2>1, <3>1 DEF ChainKey
      <3>3. SkippedAt(r, i) \in Gap(r, n)
        BY <3>1 DEF Gap
      <3> QED BY <1>8, <2>1, <3>2, <3>3
    <2>4. CASE k.step < a
      <3>1. \/ \E e \in r.skipped : e.key = k
            \/ k \in G
            \/ Foreign(V, d, k.root)
        BY <1>1, <2>1, <2>4 DEF Lossless, Accounted
      <3> QED BY <1>8, <2>1, <3>1 DEF Gap
    <2> QED BY <1>1, <2>1, <2>2, <2>3, <2>4
  <1> QED BY <1>3, <1>6, <1>7, <1>9 DEF Lossless, Accounted, NeedsRotation

\* Decrypt loses no key but those that Dropped names.
LEMMA DecryptLossless ==
    ASSUME NEW V, NEW b \in Nat, OneChain(V, b), NEW d, NEW s, SessionInv(s, b), NEW G,
           Lossless(V, b, d, s, G), NEW m, m.header \in Header, m.key \in ChainKey,
           m.header.n = m.key.step, On(V, Peer(d), m.key.root, m.header.dh),
           NEW out \in Decrypt(s, m), NEW H, G \subseteq H,
           Dropped(s, m, out.session) \subseteq H, out.result = "read" => m.key \in H
    PROVE  Lossless(V, b, d, out.session, H)
  <1> PICK r : r = RotateRatchetOnRecv(s, m.header)
    OBVIOUS
  <1>1. Lossless(V, b, d, r, G) /\ Tidy(r) /\ r.remote = m.header.dh /\ r.skipped = s.skipped
    BY RotateLossless
  <1>2. CASE Consumes(s, m, out)
    BY <1>2, ConsumesLossless DEF SessionInv
  <1>3. CASE Late(s, m, out)
    BY <1>1, <1>3, LosslessMore DEF Late
  <1>4. CASE SkippedFor(s, m.header) = {} /\ Jumps(r, m, out)
    BY <1>1, <1>4, JumpsLossless
  <1> QED BY <1>2, <1>3, <1>4, DecryptIs

\* A session that an envelope opens: the signed prekey is of the device.
LEMMA AcceptLossless ==
    ASSUME NEW V, NEW b \in Nat, NEW d, NEW x \in Nat, x < b, Mine(V, d, x), NEW y \in Nat,
           NEW G
    PROVE  Lossless(V, b, d, AcceptSession(x, y), G)
  <1> PICK s : s = AcceptSession(x, y)
    OBVIOUS
  <1>1. /\ s.own = x /\ s.remote = y /\ s.skipped = {} /\ s.send.key = ZeroKey
        /\ s.recv.key.root = <<DH(y, x)>> /\ s.recv.key.step = 0
    BY DEF AcceptSession, FirstChainKey
  <1>2. Numbered(s)
    BY FirstNumbered
  <1>3. LastSecret(s.recv.key.root) = {x, y}
    <2>1. {x, y} \in SUBSET Nat
      OBVIOUS
    <2> QED BY <1>1, <2>1 DEF LastSecret, DH
  <1>4. Follows(V, b, d, s)
    BY <1>1, <1>3 DEF Follows
  <1>5. Accounted(V, d, s, G)
    BY <1>1 DEF Accounted, ChainKey
  <1> QED BY <1>1, <1>2, <1>4, <1>5 DEF Lossless, NeedsRotation

\* The first session of a conversation has received nothing.
LEMMA InitLossless ==
    ASSUME NEW V, NEW b, NEW d, NEW x, NEW y, Mine(V, d, x), On(V, d, <<DH(x, y)>>, x), NEW G
    PROVE  Lossless(V, b, d, InitSession(x, y), G)
  <1> PICK s : s = InitSession(x, y)
    OBVIOUS
  <1>1. /\ s.own = x /\ s.skipped = {} /\ s.send.key.root = <<DH(x, y)>>
        /\ s.recv.key.root = <<>> /\ s.recv.key.step = 0
    BY DEF InitSession, FirstChainKey, ZeroKey
  <1>2. Numbered(s)
    BY FirstNumbered
  <1>3. Follows(V, b, d, s)
    BY <1>1 DEF Follows
  <1>4. Accounted(V, d, s, G)
    BY <1>1 DEF Accounted, ChainKey
  <1> QED BY <1>1, <1>2, <1>3, <1>4 DEF Lossless

\* A rotation for sending leaves what was received alone.
LEMMA RotatesLossless ==
    ASSUME NEW V, NEW b, NEW d, NEW s, Tidy(s), NEW G, Lossless(V, b, d, s, G),
           NeedsRotation(s), NEW fresh \in Nat, Mine(V, d, fresh),
           On(V, d, KdfRoot(s.root, DH(fresh, s.remote)), fresh)
    PROVE  Lossless(V, b, d, Sealing(s, fresh), G)
  <1> PICK q, r : q = KdfRoot(s.root, DH(fresh, s.remote)) /\ r = Sealing(s, fresh)
    OBVIOUS
  <1>1. /\ r.own = fresh /\ r.remote = s.remote /\ r.recv = s.recv /\ r.skipped = s.skipped
        /\ r.send.key.root = q /\ r.send.key.step = 0 /\ r.send.index = 0
    BY DEF Sealing, RotateRatchetOnSend, FirstChainKey, Tidy, Session
  <1>2. Numbered(r)
    BY <1>1 DEF Lossless, Numbered
  <1>3. Follows(V, b, d, r)
    BY <1>1 DEF Lossless, Follows
  <1>4. Accounted(V, d, r, G)
    BY <1>1 DEF Lossless, Accounted
  <1> QED BY <1>1, <1>2, <1>3, <1>4 DEF Lossless

\* Encrypt takes a key of the chain that the book has for its key pair.
LEMMA EncryptLossless ==
    ASSUME NEW V, NEW b, NEW d, NEW s, NEW fresh, Tidy(Sealing(s, fresh)), NEW G,
           Lossless(V, b, d, Sealing(s, fresh), G), ~NeedsRotation(Sealing(s, fresh))
    PROVE  LET e == Encrypt(s, fresh) IN
           /\ Lossless(V, b, d, e.session, G)
           /\ On(V, d, e.key.root, e.header.dh) /\ e.header.n = e.key.step
  <1> PICK r : r = Sealing(s, fresh)
    OBVIOUS
  <1> DEFINE t == [r EXCEPT !.send = Advance(@)]
             e == Encrypt(s, fresh)
  <1>1. e = [header |-> [dh |-> r.own, pn |-> r.pn, n |-> r.send.index],
             key |-> r.send.key, session |-> t]
    BY DEF Encrypt
  <1>2. /\ t.send = Advance(r.send) /\ t.recv = r.recv /\ t.skipped = r.skipped
        /\ t.own = r.own /\ t.remote = r.remote /\ r.send \in ChainState
    BY DEF Tidy, Session
  <1> HIDE DEF t, e
  <1>3. /\ e.session = t /\ e.key = r.send.key /\ e.header.dh = r.own
        /\ e.header.n = r.send.index
    BY <1>1
  <1>4. On(V, d, r.send.key.root, r.own) /\ r.send.index = r.send.key.step
    BY DEF Lossless, Numbered
  <1>5. t.send.index = t.send.key.step /\ t.send.key.root = r.send.key.root
    BY <1>2, <1>4, AdvanceNumbered, AdvanceChain
  <1>6. Numbered(t)
    BY <1>2, <1>5 DEF Lossless, Numbered
  <1>7. Follows(V, b, d, t) /\ Accounted(V, d, t, G)
    BY <1>2 DEF Lossless, Follows, Accounted
  <1>8. Lossless(V, b, d, t, G)
    BY <1>2, <1>4, <1>5, <1>6, <1>7 DEF Lossless
  <1> QED BY <1>3, <1>4, <1>8 DEF e

-----------------------------------------------------------------------------
(* Extending the book.                                                      *)

\* The chain of device d with root x and the new key pair b is written down.
Extended(V, d, x, b) == V \cup {<<d, x, b>>}

LEMMA ExtendedIs ==
    ASSUME NEW V, NEW e, NEW x, NEW b, NEW d, NEW r, NEW k
    PROVE  On(Extended(V, e, x, b), d, r, k) <=> On(V, d, r, k) \/ (d = e /\ r = x /\ k = b)
  BY DEF On, Extended

LEMMA ExtendedBook ==
    ASSUME NEW V, NEW b \in Nat, b # NoKey, OneChain(V, b), NEW e, NEW x, b \in LastSecret(x)
    PROVE  OneChain(Extended(V, e, x, b), b + 1)
  BY ExtendedIs DEF OneChain

LEMMA ExtendedMine ==
    ASSUME NEW V, NEW e, NEW x, NEW b \in Nat, NEW d, NEW k \in Nat, k < b, Mine(V, d, k)
    PROVE  Mine(Extended(V, e, x, b), d, k)
  BY ExtendedIs DEF Mine

LEMMA ExtendedLossless ==
    ASSUME NEW V, NEW b \in Nat, NEW e, NEW x, b \in LastSecret(x), NEW d, NEW s,
           SessionInv(s, b), NEW G, Lossless(V, b, d, s, G)
    PROVE  Lossless(Extended(V, e, x, b), b + 1, d, s, G)
  <1> PICK W : W = Extended(V, e, x, b)
    OBVIOUS
  <1>1. s.own \in Nat /\ s.own < b /\ s.remote \in Nat /\ s.remote < b
    BY DEF SessionInv, Below, Tidy, Session, KeyPair
  <1>2. Mine(W, d, s.own)
    BY <1>1, ExtendedMine DEF Lossless
  <1>3. Follows(W, b + 1, d, s)
    <2>1. ASSUME s.recv.key.root # <<>>
          PROVE  \E o \in Nat : /\ o < b + 1 /\ Mine(W, d, o)
                               /\ LastSecret(s.recv.key.root) = {o, s.remote}
      <3>1. PICK o \in Nat : /\ o < b /\ Mine(V, d, o)
                             /\ LastSecret(s.recv.key.root) = {o, s.remote}
        BY <2>1 DEF Lossless, Follows
      <3>2. Mine(W, d, o)
        BY <3>1, ExtendedMine
      <3> QED BY <3>1, <3>2
    <2> QED BY <2>1 DEF Lossless, Follows
  <1>4. b \notin LastSecret(s.recv.key.root)
    BY <1>1 DEF Lossless, Follows, LastSecret
  <1>5. Foreign(V, d, s.recv.key.root) => Foreign(W, d, s.recv.key.root)
    BY <1>4, ExtendedIs DEF Foreign
  <1>6. Accounted(W, d, s, G)
    BY <1>5 DEF Lossless, Accounted
  <1>7. NeedsRotation(s) \/ On(W, d, s.send.key.root, s.own)
    BY ExtendedIs DEF Lossless
  <1> QED BY <1>2, <1>3, <1>6, <1>7 DEF Lossless

LEMMA ExtendedKept ==
    ASSUME NEW V, NEW b \in Nat, NEW e, NEW x, b \in LastSecret(x), NEW d, NEW st,
           StateBelow(st, b), NEW G, Kept(V, b, d, st, G)
    PROVE  Kept(Extended(V, e, x, b), b + 1, d, st, G)
  <1>1. Mine(Extended(V, e, x, b), d, st.prekey)
    BY ExtendedMine DEF Kept, StateBelow
  <1> QED BY <1>1, ExtendedLossless DEF Kept, StateBelow

-----------------------------------------------------------------------------
(* The book of a state.                                                    *)

EnvOn(V, env) ==
    On(V, env.from, env.key.root, env.header.dh) /\ env.header.n = env.key.step

\* handleInbound loses no key but those that it drops or shows.
LEMMA HandleKept ==
    ASSUME NEW V, NEW b \in Nat, OneChain(V, b), NEW d, NEW st, StateShaped(st),
           StateBelow(st, b), NEW G, Kept(V, b, d, st, G),
           NEW env, EnvelopeBelow(env, b), EnvOn(V, env), env.from = Peer(d),
           NEW out \in HandleInbound(st, env), NEW H, G \subseteq H,
           LetGo(st, env, out.state) \subseteq H, out.result = "read" => env.key \in H
    PROVE  Kept(V, b, d, out.state, H)
  <1>1. CASE out.state = st
    BY <1>1, KeptMore
  <1>2. CASE \E s \in ReadIn(st, env) : \E o \in Decrypt(s, Message(env)) :
                /\ out.state.prekey = st.prekey /\ out.state.sessions = {o.session}
                /\ out.result = o.result
    <2> PICK m : m = Message(env)
      OBVIOUS
    <2>1. PICK s \in ReadIn(st, env) : \E o \in Decrypt(s, m) :
                /\ out.state.prekey = st.prekey /\ out.state.sessions = {o.session}
                /\ out.result = o.result
      BY <1>2
    <2>2. PICK o \in Decrypt(s, m) :
                /\ out.state.prekey = st.prekey /\ out.state.sessions = {o.session}
                /\ out.result = o.result
      BY <2>1
    <2>3. /\ SessionInv(s, b)
          /\ \/ s \in st.sessions
             \/ st.sessions = {} /\ env.handshake \in Nat
                /\ s = AcceptSession(st.prekey, env.handshake)
      BY ReadInBelow
    <2>4. Lossless(V, b, d, s, G)
      <3>1. st.prekey \in Nat /\ st.prekey < b /\ Mine(V, d, st.prekey)
        BY DEF StateBelow, Kept
      <3> QED BY <2>3, <3>1, AcceptLossless DEF Kept
    <2>5. /\ m.header \in Header /\ m.key \in ChainKey /\ m.key = env.key
          /\ m.header = env.header
      BY MessageBelow DEF Message
    <2>6. /\ m.header.n = m.key.step /\ On(V, Peer(d), m.key.root, m.header.dh)
          /\ out.result = "read" => m.key \in H
      BY <2>5 DEF EnvOn
    <2>7. Dropped(s, m, o.session) \subseteq H
      <3>1. o.session \in out.state.sessions
        BY <2>2
      <3> QED BY <2>1, <3>1 DEF LetGo
    <2>8. Lossless(V, b, d, o.session, H)
      BY <2>2, <2>3, <2>4, <2>5, <2>6, <2>7, DecryptLossless
    <2> QED BY <2>2, <2>8 DEF Kept
  <1> QED BY <1>1, <1>2, HandleInboundIs

ShownKeys(log, counts) == {log[i].key : i \in {j \in DOMAIN log : counts[j] > 0}}

\* The keys that need not be kept any more.
Counted == dropped \cup ShownKeys(sent, printed)

\* The key whose text is shown next.
Owed(s, log) == IF Shows(s) THEN {log[s.at].key} ELSE {}

SlotKept(V, b, s, G, log) ==
    /\ Kept(V, b, s.dev, s.mem, G \cup Owed(s, log))
    /\ s.stage = "posting" => EnvOn(V, s.env)

Book(V, b) ==
    /\ OneChain(V, b)
    /\ \A i \in DOMAIN sent : EnvOn(V, sent[i])
    /\ \A d \in Device : /\ Kept(V, b, d, file[d].state, Counted)
                         /\ Kept(V, b, d, tmp[d].state, Counted)
    /\ \A p \in Process : SlotKept(V, b, slot[p], Counted, sent)

LossInv == \E V : Book(V, nextKey)

LEMMA BookMono ==
    ASSUME NEW V, NEW b \in Nat, NEW c \in Nat, b <= c, Book(V, b)
    PROVE  Book(V, c)
  <1>1. \A d, st, G : Kept(V, b, d, st, G) => Kept(V, c, d, st, G)
    BY KeptMore
  <1>2. OneChain(V, c)
    BY DEF Book, OneChain
  <1> QED BY <1>1, <1>2 DEF Book, SlotKept

LEMMA BookExtended ==
    ASSUME KeysInv, NEW V, Book(V, nextKey), NEW e, NEW x, nextKey \in LastSecret(x)
    PROVE  Book(Extended(V, e, x, nextKey), nextKey + 1)
  <1> PICK b, W : b = nextKey /\ W = Extended(V, e, x, b)
    OBVIOUS
  <1>1. b \in Nat /\ b >= 3 /\ b # NoKey
    BY DEF KeysInv, NoKey
  <1>2. \A d, st, G : StateBelow(st, b) /\ Kept(V, b, d, st, G) => Kept(W, b + 1, d, st, G)
    BY <1>1, ExtendedKept
  <1>3. OneChain(W, b + 1)
    BY <1>1, ExtendedBook DEF Book
  <1>4. \A env : EnvOn(V, env) => EnvOn(W, env)
    BY ExtendedIs DEF EnvOn
  <1>5. \A d \in Device : Kept(W, b + 1, d, file[d].state, Counted)
                        /\ Kept(W, b + 1, d, tmp[d].state, Counted)
    BY <1>2 DEF Book, KeysInv
  <1>6. ASSUME NEW p \in Process PROVE SlotKept(W, b + 1, slot[p], Counted, sent)
    BY <1>2, <1>4 DEF Book, KeysInv, SlotBelow, SlotKept
  <1>7. \A i \in DOMAIN sent : EnvOn(W, sent[i])
    BY <1>4 DEF Book
  <1> QED BY <1>3, <1>5, <1>6, <1>7 DEF Book

\* What is stored stays, what is shown stays shown, and what is dropped noted.
Grows ==
    /\ \A i \in DOMAIN sent : /\ i \in DOMAIN sent' /\ sent'[i] = sent[i]
                              /\ printed[i] > 0 => printed'[i] > 0
    /\ dropped \subseteq dropped'

LEMMA CountedGrows ==
    ASSUME Grows
    PROVE  Counted \subseteq Counted'
  BY DEF Grows, Counted, ShownKeys

LEMMA KeptLater ==
    ASSUME Grows, ShowInv, NEW V, NEW b \in Nat
    PROVE  /\ \A d, st : Kept(V, b, d, st, Counted) => Kept(V, b, d, st, Counted')
           /\ \A q \in Process : SlotKept(V, b, slot[q], Counted, sent)
                                => SlotKept(V, b, slot[q], Counted', sent')
  <1> PICK C, D : C = Counted /\ D = Counted'
    OBVIOUS
  <1>1. C \subseteq D
    BY CountedGrows
  <1>2. \A d, st : Kept(V, b, d, st, C) => Kept(V, b, d, st, D)
    BY <1>1, KeptMore
  <1>3. ASSUME NEW q \in Process, SlotKept(V, b, slot[q], C, sent)
        PROVE  SlotKept(V, b, slot[q], D, sent')
    <2> PICK s : s = slot[q]
      OBVIOUS
    <2>1. Owed(s, sent) = Owed(s, sent')
      BY DEF Grows, ShowInv, Owed
    <2> PICK O : O = Owed(s, sent)
      OBVIOUS
    <2>2. Kept(V, b, s.dev, s.mem, C \cup O)
      BY <1>3 DEF SlotKept
    <2>3. Kept(V, b, s.dev, s.mem, D \cup O)
      BY <1>1, <2>2, KeptMore
    <2> QED BY <1>3, <2>1, <2>3 DEF SlotKept
  <1> QED BY <1>2, <1>3

\* A step of slot p alone.
LEMMA BookSlot ==
    ASSUME SlotsInv, ShowInv, Grows, NEW V, NEW b \in Nat, Book(V, b), NEW p \in Process, NEW t,
           Gets(p, t), SlotKept(V, b, t, Counted', sent'), UNCHANGED <<file, tmp>>,
           \A i \in DOMAIN sent' : EnvOn(V, sent'[i])
    PROVE  Book(V, b)'
  <1>1. \A q \in Process : slot'[q] = IF q = p THEN t ELSE slot[q]
    BY DEF Gets, SlotsInv
  <1>2. \A q \in Process : SlotKept(V, b, slot'[q], Counted', sent')
    BY <1>1, KeptLater DEF Book
  <1>3. \A d \in Device : /\ Kept(V, b, d, file'[d].state, Counted')
                         /\ Kept(V, b, d, tmp'[d].state, Counted')
    BY KeptLater DEF Book
  <1> QED BY <1>2, <1>3 DEF Book

\* The slot goes on with what it had, or with nothing.
LEMMA SlotGoesOn ==
    ASSUME NEW V, NEW b \in Nat, OneChain(V, b), NEW s, NEW G, NEW log, SlotKept(V, b, s, G, log),
           NEW H, G \subseteq H, NEW t, NEW l, t.stage # "posting",
           \/ t.mem = NoState
           \/ t.mem = s.mem /\ t.dev = s.dev /\ Owed(s, log) \subseteq H
    PROVE  SlotKept(V, b, t, H, l)
  <1>1. CASE t.mem = NoState
    BY <1>1, NoStateKept DEF SlotKept
  <1>2. CASE t.mem = s.mem /\ t.dev = s.dev /\ Owed(s, log) \subseteq H
    <2> PICK A, B : A = G \cup Owed(s, log) /\ B = H \cup Owed(t, l)
      OBVIOUS
    <2>1. Kept(V, b, s.dev, s.mem, A) /\ A \subseteq B
      BY <1>2 DEF SlotKept
    <2>2. Kept(V, b, s.dev, s.mem, B)
      BY <2>1, KeptMore
    <2> QED BY <1>2, <2>2 DEF SlotKept
  <1> QED BY <1>1, <1>2

LEMMA InitBook == Init => LossInv
  <1> SUFFICES ASSUME Init PROVE Book({}, nextKey)
    BY DEF LossInv
  <1>1. OneChain({}, nextKey) /\ nextKey = 3
    BY DEF Init, OneChain, On
  <1>2. \A d, G, k : Kept({}, 3, d, Fresh(k), G)
    BY DEF Kept, Fresh, Mine, On
  <1>3. ASSUME NEW d \in Device
        PROVE  /\ Kept({}, 3, d, file[d].state, Counted)
               /\ Kept({}, 3, d, tmp[d].state, Counted)
    <2>1. file[d] = Bad("absent") \/ file[d] = Marshalled(Fresh(d))
      BY DEF Init
    <2>2. tmp[d] = Bad("absent") /\ Bad("absent").state = NoState /\ NoState = Fresh(NoKey)
      BY DEF Init, Bad, NoState
    <2>3. Marshalled(Fresh(d)).state.sessions = {} /\ Marshalled(Fresh(d)).state.prekey = d
      <3>1. StateShaped(Fresh(d)) /\ Fresh(d).prekey = d /\ Fresh(d).sessions = {}
        BY DEF Fresh, StateShaped
      <3> QED BY <3>1, MarshalledIs
    <2>4. \A G : Kept({}, 3, d, Marshalled(Fresh(d)).state, G)
      BY <2>3 DEF Kept, Mine, On
    <2> QED BY <1>2, <2>1, <2>2, <2>4
  <1>4. ASSUME NEW p \in Process PROVE SlotKept({}, 3, slot[p], Counted, sent)
    <2>1. slot[p] = Idle /\ Idle.stage = "idle"
      BY DEF Init, Idle
    <2> QED BY <1>1, <2>1, NoStateKept DEF SlotKept
  <1>5. DOMAIN sent = {}
    BY DEF Init
  <1> QED BY <1>1, <1>3, <1>4, <1>5 DEF Book

LEMMA StartBook ==
    ASSUME PathInv, KeysInv, ShowInv, LossInv, NEW p \in Process, NEW d \in Device,
           StartInit(p, d) \/ StartSend(p, d) \/ StartListen(p, d)
    PROVE  LossInv'
  <1> PICK V : Book(V, nextKey)
    BY DEF LossInv
  <1> PICK b, c : b = nextKey /\ c = nextKey'
    OBVIOUS
  <1>1. /\ UNCHANGED <<sent, file, tmp, printed, dropped>> /\ SlotsInv /\ FilesShaped
        /\ b \in Nat /\ c \in {b, b + 1} /\ c \in Nat /\ b <= c
    BY DEF StartInit, StartSend, StartListen, PathInv, KeysInv
  <1>2. Book(V, c) /\ OneChain(V, b) /\ OneChain(V, c)
    BY <1>1, BookMono DEF Book
  <1>3. Grows /\ \A i \in DOMAIN sent' : EnvOn(V, sent'[i])
    BY <1>1 DEF Grows, Book
  <1> PICK C : C = Counted'
    OBVIOUS
  <1>4. PICK t : /\ Gets(p, t) /\ t.stage # "posting"
                 /\ Kept(V, c, t.dev, t.mem, C)
    <2>1. CASE StartInit(p, d)
      <3>1. PICK t : Gets(p, t) /\ t.stage = "registering" /\ t.mem = Fresh(b)
        BY <1>1, <2>1, StartInitSlot
      <3>2. \A e : Mine(V, e, b)
        BY <1>1, <1>2 DEF OneChain, Mine
      <3> QED BY <3>1, <3>2 DEF Kept, Fresh
    <2>2. ASSUME NEW t, t.dev = d, t.mem = file[d].state \/ t.mem = NoState
          PROVE  Kept(V, c, t.dev, t.mem, C)
      BY <1>1, <1>2, <1>3, <2>2, KeptLater, NoStateKept DEF Book
    <2>3. CASE StartSend(p, d)
      <3>1. PICK t : Gets(p, t) /\ t.stage = "loaded" /\ t.dev = d /\ t.mem = file[d].state
        BY <1>1, <2>3, StartSendSlot
      <3> QED BY <2>2, <3>1
    <2>4. CASE StartListen(p, d)
      <3>1. PICK t : /\ Gets(p, t) /\ t.stage = "listening" /\ t.dev = d
                     /\ t.mem = IF d \in Cli THEN file[d].state ELSE NoState
        BY <1>1, <2>4, StartListenSlot
      <3> QED BY <2>2, <3>1
    <2> QED BY <2>1, <2>3, <2>4
  <1>5. SlotKept(V, c, t, C, sent')
    <2> PICK O : O = C \cup Owed(t, sent')
      OBVIOUS
    <2>1. Kept(V, c, t.dev, t.mem, O)
      BY <1>1, <1>4, KeptMore
    <2> QED BY <1>4, <2>1 DEF SlotKept
  <1>6. Book(V, c)'
    BY <1>1, <1>2, <1>3, <1>4, <1>5, BookSlot
  <1> QED BY <1>6 DEF LossInv

\* A slot that goes on with what it had, when nothing is stored.
LEMMA BookGoesOn ==
    ASSUME PathInv, KeysInv, ShowInv, LossInv, NEW p \in Process, NEW t, Gets(p, t), Grows,
           UNCHANGED <<sent, file, tmp, nextKey>>, t.stage # "posting",
           \/ t.mem = NoState
           \/ /\ t.mem = slot[p].mem /\ t.dev = slot[p].dev
              /\ Owed(slot[p], sent) \subseteq Counted'
    PROVE  LossInv'
  <1> PICK V : Book(V, nextKey)
    BY DEF LossInv
  <1> PICK b, C, D : b = nextKey /\ C = Counted /\ D = Counted'
    OBVIOUS
  <1>1. b \in Nat /\ SlotsInv /\ C \subseteq D
    BY CountedGrows DEF KeysInv, PathInv
  <1>2. OneChain(V, b) /\ SlotKept(V, b, slot[p], C, sent)
        /\ \A i \in DOMAIN sent' : EnvOn(V, sent'[i])
    BY DEF Book
  <1>3. SlotKept(V, b, t, D, sent')
    <2> PICK s, log, l : s = slot[p] /\ log = sent /\ l = sent'
      OBVIOUS
    <2>1. t.mem = NoState \/ (t.mem = s.mem /\ t.dev = s.dev /\ Owed(s, log) \subseteq D)
      OBVIOUS
    <2>2. SlotKept(V, b, s, C, log)
      BY <1>2
    <2>3. SlotKept(V, b, t, D, l)
      BY <1>1, <1>2, <2>1, <2>2, SlotGoesOn, ZenonT(60)
    <2> QED BY <2>3
  <1>4. Book(V, b)'
    BY <1>1, <1>2, <1>3, BookSlot
  <1> QED BY <1>4 DEF LossInv

\* Steps that neither store nor show nor save anything.
LEMMA QuietBook ==
    ASSUME PathInv, KeysInv, ShowInv, LossInv, NEW p \in Process,
           Register(p) \/ LoseAnswer(p) \/ Disconnect(p) \/ RenameFails(p) \/ Crash(p)
    PROVE  LossInv'
  <1>1. /\ UNCHANGED <<sent, file, tmp, nextKey, printed, dropped>> /\ SlotsInv
    BY DEF Register, LoseAnswer, Disconnect, RenameFails, Crash, PathInv
  <1>2. Grows
    BY <1>1 DEF Grows
  <1>3. ASSUME NEW t, Gets(p, t), t.stage # "posting",
               \/ t.mem = NoState
               \/ t.mem = slot[p].mem /\ t.dev = slot[p].dev /\ ~Shows(slot[p])
        PROVE  LossInv'
    BY <1>1, <1>2, <1>3, BookGoesOn DEF Owed
  <1>4. Idle.mem = NoState /\ Idle.stage = "idle"
    BY DEF Idle
  <1>5. CASE Register(p)
    <2>1. ~Shows(slot[p])
      BY <1>5 DEF Register, Shows
    <2>2. CASE Gets(p, Idle)
      BY <1>3, <1>4, <2>2
    <2>3. CASE \E t : Moves(p, t, "saving") /\ t.mem = slot[p].mem
      BY <1>3, <2>1, <2>3 DEF Moves
    <2> QED BY <1>1, <1>5, <2>2, <2>3, RegisterSlot
  <1>6. CASE LoseAnswer(p)
    <2>1. PICK t : Moves(p, t, "listening") /\ t.mem = NoState
      BY <1>1, <1>6, LoseAnswerSlot
    <2> QED BY <1>3, <2>1 DEF Moves
  <1>7. CASE Disconnect(p) \/ RenameFails(p) \/ Crash(p)
    <2>1. Gets(p, Idle)
      BY <1>1, <1>7, EndsSlot
    <2> QED BY <1>3, <1>4, <2>1
  <1> QED BY <1>5, <1>6, <1>7

\* A session that encrypts, and the line that the book needs for it: a chain
\* that is begun is that of the new key pair.
LEMMA SealBegins ==
    ASSUME PathInv, KeysInv, NEW V, Book(V, nextKey),
           NEW p \in Process, Seal(p) \/ SealFirst(p)
    PROVE  \E W, s, handshake :
             /\ SealIn(p, s, nextKey, handshake)
             /\ Book(W, nextKey')
             /\ Tidy(Sealing(s, nextKey)) /\ ~NeedsRotation(Sealing(s, nextKey))
             /\ Lossless(W, nextKey', slot[p].dev, Sealing(s, nextKey), Counted)
             /\ Mine(W, slot[p].dev, slot[p].mem.prekey)
  <1> PICK b, c, d, C, prekey : /\ b = nextKey /\ c = nextKey' /\ d = slot[p].dev
                                /\ C = Counted /\ prekey = slot[p].mem.prekey
    OBVIOUS
  <1>1. /\ b \in Nat /\ b >= 3 /\ d \in Device /\ d # Peer(d) /\ OneChain(V, b)
        /\ slot[p].stage = "loaded" /\ prekey \in Nat /\ prekey < b
        /\ \A s \in slot[p].mem.sessions : SessionInv(s, b)
    BY DEF KeysInv, PathInv, SlotsInv, SlotShaped, Seal, SealFirst, Peer, Device, Book,
           SlotBelow, StateBelow
  <1>2. PICK s, handshake :
             /\ SealIn(p, s, b, handshake)
             /\ Tidy(s) /\ c \in {b, b + 1}
             /\ SessionInv(Sealing(s, b), c) /\ ~NeedsRotation(Sealing(s, b))
             /\ \/ s \in slot[p].mem.sessions
                \/ \E bundle \in Nat : s = InitSession(b, bundle)
    BY SealsIs
  <1> PICK r : r = Sealing(s, b)
    OBVIOUS
  <1>3. Tidy(r) /\ r.own \in Nat /\ r.own < c
    BY <1>2 DEF SessionInv, Below, Tidy, Session, KeyPair
  <1>4. Kept(V, b, d, slot[p].mem, C)
    BY <1>1 DEF Book, SlotKept, Owed, Shows
  <1>5. SUFFICES \E W : /\ Book(W, c) /\ Lossless(W, c, d, r, C) /\ Mine(W, d, prekey)
    BY <1>2, <1>3
  <1>6. ASSUME NEW x, b \in LastSecret(x)
        PROVE  LET W == Extended(V, d, x, b) IN
               /\ Book(W, b + 1) /\ Mine(W, d, prekey) /\ On(W, d, x, b) /\ Mine(W, d, b)
               /\ \A e \in slot[p].mem.sessions : Lossless(W, b + 1, d, e, C)
    <2> PICK W : W = Extended(V, d, x, b)
      OBVIOUS
    <2>1. Book(W, b + 1)
      BY <1>6, BookExtended
    <2>2. On(W, d, x, b) /\ Mine(W, d, b)
      BY <1>1, ExtendedIs DEF Mine, OneChain
    <2>3. Mine(W, d, prekey)
      BY <1>1, <1>4, ExtendedMine DEF Kept
    <2>4. \A e \in slot[p].mem.sessions : Lossless(W, b + 1, d, e, C)
      BY <1>1, <1>4, <1>6, ExtendedLossless DEF Kept
    <2> QED BY <2>1, <2>2, <2>3, <2>4
  <1>7. CASE s \in slot[p].mem.sessions /\ ~NeedsRotation(s)
    <2>1. r = s /\ b <= c /\ c \in Nat
      BY <1>1, <1>2, <1>7 DEF Sealing
    <2>2. Book(V, c) /\ Kept(V, c, d, slot[p].mem, C)
      BY <1>1, <1>4, <2>1, BookMono, KeptMore
    <2> QED BY <1>7, <2>1, <2>2 DEF Kept
  <1>8. CASE s \in slot[p].mem.sessions /\ NeedsRotation(s)
    <2> PICK x : x = KdfRoot(s.root, DH(b, s.remote))
      OBVIOUS
    <2>1. s.root \in RootKey /\ s.remote \in Nat
      BY <1>2 DEF Tidy, Session, KeyPair
    <2>2. b \in LastSecret(x)
      <3>1. {b, s.remote} \in Secret
        BY <1>1, <2>1 DEF Secret, KeyPair
      <3> QED BY <2>1, <3>1 DEF LastSecret, KdfRoot, DH, RootKey
    <2>3. c = b + 1
      <3>1. r.own = b
        BY <1>1, <1>8, RotateOnSendInv
      <3> QED BY <1>1, <1>2, <1>3, <3>1
    <2> PICK W : W = Extended(V, d, x, b)
      OBVIOUS
    <2>4. /\ Book(W, c) /\ Mine(W, d, prekey) /\ On(W, d, x, b) /\ Mine(W, d, b)
          /\ Lossless(W, c, d, s, C)
      BY <1>6, <1>8, <2>2, <2>3
    <2>5. Lossless(W, c, d, r, C)
      BY <1>1, <1>2, <1>8, <2>4, RotatesLossless
    <2> QED BY <2>4, <2>5
  <1>9. CASE \E bundle \in Nat : s = InitSession(b, bundle)
    <2> PICK y \in Nat : s = InitSession(b, y)
      BY <1>9
    <2> PICK x : x = <<DH(b, y)>>
      OBVIOUS
    <2>1. b \in LastSecret(x)
      BY <1>1 DEF LastSecret, DH
    <2>2. r = s /\ r.own = b
      <3>1. ~NeedsRotation(s)
        BY <1>1, FirstApart
      <3> QED BY <3>1 DEF Sealing, InitSession
    <2>3. c = b + 1
      BY <1>1, <1>2, <1>3, <2>2
    <2> PICK W : W = Extended(V, d, x, b)
      OBVIOUS
    <2>4. Book(W, c) /\ Mine(W, d, prekey) /\ On(W, d, x, b) /\ Mine(W, d, b)
      BY <1>6, <2>1, <2>3
    <2>5. Lossless(W, c, d, r, C)
      BY <2>2, <2>4, InitLossless
    <2> QED BY <2>4, <2>5
  <1> QED BY <1>2, <1>7, <1>8, <1>9

LEMMA SealBook ==
    ASSUME PathInv, KeysInv, ShowInv, LossInv, NEW p \in Process, Seal(p) \/ SealFirst(p)
    PROVE  LossInv'
  <1> PICK V : Book(V, nextKey)
    BY DEF LossInv
  <1> PICK b, c, d, C : b = nextKey /\ c = nextKey' /\ d = slot[p].dev /\ C = Counted
    OBVIOUS
  <1>1. /\ UNCHANGED <<sent, file, tmp, printed, dropped>> /\ SlotsInv
        /\ slot[p].stage = "loaded" /\ Grows
    BY DEF Seal, SealFirst, PathInv, Grows
  <1>2. PICK W, s, handshake :
             /\ SealIn(p, s, b, handshake)
             /\ Book(W, c)
             /\ Tidy(Sealing(s, b)) /\ ~NeedsRotation(Sealing(s, b))
             /\ Lossless(W, c, d, Sealing(s, b), C)
             /\ Mine(W, d, slot[p].mem.prekey)
    BY SealBegins
  <1>3. c \in Nat
    BY DEF Seal, SealFirst, KeysInv
  <1> PICK e : e = Encrypt(s, b)
    OBVIOUS
  <1>4. PICK t : SealsInto(p, t, e, handshake)
    BY <1>1, <1>2, SealInSlot
  <1>5. /\ Lossless(W, c, d, e.session, C)
        /\ On(W, d, e.key.root, e.header.dh) /\ e.header.n = e.key.step
    BY <1>2, EncryptLossless
  <1>6. /\ Gets(p, t) /\ t.dev = d /\ t.mem.sessions = {e.session}
        /\ t.mem.prekey = slot[p].mem.prekey
        /\ t.env.from = d /\ t.env.key = e.key /\ t.env.header = e.header
    BY <1>4 DEF SealsInto, Moves, Sealed
  <1>7. EnvOn(W, t.env)
    BY <1>5, <1>6 DEF EnvOn
  <1>8. Kept(W, c, d, t.mem, C)
    BY <1>2, <1>5, <1>6 DEF Kept
  <1>9. Counted' = C
    BY <1>1 DEF Counted
  <1>10. SlotKept(W, c, t, C, sent')
    <2> PICK O : O = C \cup Owed(t, sent')
      OBVIOUS
    <2>1. Kept(W, c, d, t.mem, O)
      BY <1>3, <1>8, KeptMore
    <2> QED BY <1>6, <1>7, <2>1 DEF SlotKept
  <1>11. \A i \in DOMAIN sent' : EnvOn(W, sent'[i])
    BY <1>1, <1>2 DEF Book
  <1>12. Book(W, c)'
    BY <1>1, <1>2, <1>3, <1>6, <1>9, <1>10, <1>11, BookSlot
  <1> QED BY <1>12 DEF LossInv

\* An envelope that is stored is on the chain of the device that sealed it.
LEMMA PostBook ==
    ASSUME PathInv, KeysInv, ShowInv, LossInv, NEW p \in Process, Post(p)
    PROVE  LossInv'
  <1> PICK V : Book(V, nextKey)
    BY DEF LossInv
  <1> PICK b, env, C, D : b = nextKey /\ env = slot[p].env /\ C = Counted /\ D = Counted'
    OBVIOUS
  <1>1. /\ UNCHANGED <<file, tmp, nextKey, dropped>> /\ SlotsInv /\ b \in Nat
        /\ slot[p].stage = "posting" /\ sent' = Append(sent, env) /\ printed' = Append(printed, 0)
    BY DEF Post, Stored, PathInv, KeysInv
  <1>2. env \in Envelope /\ EnvOn(V, env) /\ OneChain(V, b) /\ SlotKept(V, b, slot[p], C, sent)
    BY <1>1 DEF KeysInv, SlotBelow, EnvelopeBelow, Book, SlotKept
  <1>3. /\ \A i \in DOMAIN sent' :
                 \/ i \in DOMAIN sent /\ sent'[i] = sent[i] /\ printed'[i] = printed[i]
                 \/ i = Len(sent) + 1 /\ sent'[i] = env /\ printed'[i] = 0
        /\ \A i \in DOMAIN sent :
                 i \in DOMAIN sent' /\ sent'[i] = sent[i] /\ printed'[i] = printed[i]
    BY <1>1, <1>2, Appended
  <1>4. Grows /\ C \subseteq D
    <2>1. Grows
      BY <1>1, <1>3 DEF Grows
    <2> QED BY <2>1, CountedGrows
  <1>5. \A i \in DOMAIN sent' : EnvOn(V, sent'[i])
    BY <1>2, <1>3 DEF Book
  <1>6. PICK t : /\ Gets(p, t) /\ t.stage # "posting"
                 /\ t.mem = NoState \/ (t.mem = slot[p].mem /\ t.dev = slot[p].dev)
    <2>1. CASE \E t : Moves(p, t, "saving") /\ t.mem = slot[p].mem
      BY <2>1 DEF Moves
    <2>2. CASE Gets(p, Idle)
      <3>1. Idle.mem = NoState /\ Idle.stage # "posting"
        BY DEF Idle
      <3> QED BY <2>2, <3>1
    <2> QED BY <1>1, <2>1, <2>2, PostSlot
  <1>7. SlotKept(V, b, t, D, sent')
    <2> PICK s, log, l : s = slot[p] /\ log = sent /\ l = sent'
      OBVIOUS
    <2>1. Owed(s, log) \subseteq D
      BY <1>1 DEF Owed, Shows
    <2>2. t.mem = NoState \/ (t.mem = s.mem /\ t.dev = s.dev /\ Owed(s, log) \subseteq D)
      BY <1>6, <2>1
    <2>3. SlotKept(V, b, s, C, log)
      BY <1>2
    <2>4. SlotKept(V, b, t, D, l)
      BY <1>1, <1>2, <1>4, <1>6, <2>2, <2>3, SlotGoesOn, ZenonT(60)
    <2> QED BY <2>4
  <1>8. Book(V, b)'
    BY <1>1, <1>4, <1>5, <1>6, <1>7, BookSlot
  <1> QED BY <1>1, <1>8 DEF LossInv

\* A text that is shown makes its key count.
LEMMA ShowsCounts ==
    ASSUME KeysInv, ShowInv, NEW p \in Process, Shows(slot[p]), slot[p].dev \in Device,
           UNCHANGED <<sent, dropped>>,
           printed' = [printed EXCEPT ![slot[p].at] = @ + 1]
    PROVE  Grows /\ Owed(slot[p], sent) \subseteq Counted'
  <1> PICK a, d : a = slot[p].at /\ d = slot[p].dev
    OBVIOUS
  <1>1. a \in DOMAIN sent /\ sent[a].from = Peer(d) /\ d \in Device
    BY DEF ShowInv
  <1>2. \A i \in DOMAIN sent : printed'[i] = IF i = a THEN printed[i] + 1 ELSE printed[i]
    BY <1>1, Showing
  <1>3. \A i \in DOMAIN sent : printed[i] \in Nat
    BY DEF ShowInv, KeysInv
  <1>4. Grows
    BY <1>2, <1>3 DEF Grows
  <1>5. printed'[a] > 0
    BY <1>1, <1>2, <1>3
  <1>6. sent[a].key \in ShownKeys(sent, printed')
    BY <1>1, <1>5 DEF ShownKeys
  <1> QED BY <1>4, <1>6 DEF Owed, Counted

LEMMA PrintTextBook ==
    ASSUME PathInv, KeysInv, ShowInv, LossInv, NEW p \in Process, PrintText(p)
    PROVE  LossInv'
  <1>1. /\ UNCHANGED <<sent, file, tmp, nextKey, dropped>> /\ SlotsInv /\ Shows(slot[p])
        /\ printed' = [printed EXCEPT ![slot[p].at] = @ + 1] /\ slot[p].dev \in Device
    BY DEF PrintText, PathInv, Shows, SlotsInv, SlotShaped
  <1>2. PICK t : Moves(p, t, "saving") /\ t.mem = slot[p].mem
    BY <1>1, PrintTextSlot
  <1>3. Grows /\ Owed(slot[p], sent) \subseteq Counted'
    BY <1>1, ShowsCounts
  <1> QED BY <1>1, <1>2, <1>3, BookGoesOn DEF Moves

\* What handleInbound leaves in a slot; its text, if any, is shown next.
LEMMA ReadEnvelopeBook ==
    ASSUME PathInv, KeysInv, ShowInv, LossInv, NEW p \in Process, ReadEnvelope(p)
    PROVE  LossInv'
  <1> PICK V : Book(V, nextKey)
    BY DEF LossInv
  <1> PICK b, d, st, C, D, mem : /\ b = nextKey /\ d = slot[p].dev /\ st = StateOf(p)
                                 /\ C = Counted /\ D = Counted' /\ mem = slot[p].mem
    OBVIOUS
  <1>1. /\ UNCHANGED <<sent, file, tmp, nextKey, printed>> /\ SlotsInv /\ FilesShaped
        /\ b \in Nat /\ OneChain(V, b)
    BY DEF ReadEnvelope, PathInv, KeysInv, Book
  <1>2. /\ SlotShaped(slot[p]) /\ slot[p].stage = "listening" /\ StateShaped(st)
        /\ slot[p].cmd = "listen" /\ d \in Device
    BY <1>1, ReadEnvelopeSlot DEF SlotShaped
  <1>3. StateBelow(st, b)
    BY <1>2 DEF StateOf, KeysInv, SlotBelow
  <1>4. Kept(V, b, d, mem, C) /\ Kept(V, b, d, st, C)
    <2>1. Owed(slot[p], sent) = {}
      BY <1>2 DEF Owed, Shows
    <2>2. Kept(V, b, d, mem, C)
      BY <2>1 DEF Book, SlotKept
    <2> QED BY <1>2, <2>2 DEF Book, StateOf
  <1>5. PICK i \in Pushed(p) : \E out \in HandleInbound(st, sent[i]) : \E t : Handled(p, i, out, t)
    BY <1>1, ReadEnvelopeSlot
  <1>6. PICK out \in HandleInbound(st, sent[i]) : \E t : Handled(p, i, out, t)
    BY <1>5
  <1>7. PICK t : Handled(p, i, out, t)
    BY <1>6
  <1> PICK env, l : env = sent[i] /\ l = sent'
    OBVIOUS
  <1>8. /\ i \in DOMAIN sent /\ env.from = Peer(d) /\ EnvelopeBelow(env, b) /\ EnvOn(V, env)
        /\ out \in HandleInbound(st, env)
    BY DEF Pushed, KeysInv, Book
  <1>9. /\ dropped' = dropped \cup LetGo(st, env, out.state)
        /\ Gets(p, t) /\ t.dev = d /\ t.stage # "posting"
        /\ \/ /\ out.result # "read"
              /\ t.mem = out.state \/ t.mem = mem
           \/ /\ out.result = "read" /\ t.mem = out.state /\ t.at = i
              /\ Shows(t)
    BY <1>2, <1>7 DEF Handled, Moves, Shows
  <1>10. Grows
    BY <1>1, <1>9 DEF Grows
  <1>11. C \subseteq D /\ LetGo(st, env, out.state) \subseteq D
    BY <1>9, <1>10, CountedGrows DEF Counted
  <1> PICK H : H = D \cup Owed(t, l)
    OBVIOUS
  <1>12. ASSUME t.mem = out.state PROVE Kept(V, b, d, out.state, H)
    <2>1. C \subseteq H /\ LetGo(st, env, out.state) \subseteq H
      BY <1>11
    <2>2. out.result = "read" => env.key \in H
      <3>1. ASSUME out.result = "read" PROVE env.key \in Owed(t, l)
        <4>1. Shows(t) /\ t.at = i
          BY <1>9, <3>1
        <4>2. l[i] = env
          BY <1>1
        <4> QED BY <4>1, <4>2 DEF Owed
      <3> QED BY <3>1
    <2> QED BY <1>1, <1>2, <1>3, <1>4, <1>8, <2>1, <2>2, HandleKept
  <1>13. ASSUME t.mem = mem PROVE Kept(V, b, d, mem, H)
    BY <1>1, <1>4, <1>11, KeptMore
  <1>14. Kept(V, b, d, t.mem, H)
    BY <1>9, <1>12, <1>13
  <1>15. SlotKept(V, b, t, D, l)
    BY <1>9, <1>14 DEF SlotKept
  <1>16. \A j \in DOMAIN sent' : EnvOn(V, sent'[j])
    BY <1>1 DEF Book
  <1>17. Book(V, b)'
    BY <1>1, <1>9, <1>10, <1>15, <1>16, BookSlot
  <1> QED BY <1>1, <1>17 DEF LossInv

\* What a slot saves is kept, whose text is shown if it had one.
LEMMA SavedKept ==
    ASSUME PathInv, KeysInv, NEW V, Book(V, nextKey), Grows, NEW p \in Process,
           Owed(slot[p], sent) \subseteq Counted',
           NEW c, c = Marshalled(slot[p].mem) \/ c.state = NoState
    PROVE  Kept(V, nextKey, slot[p].dev, c.state, Counted')
  <1> PICK b, d, mem, C, D : /\ b = nextKey /\ d = slot[p].dev /\ mem = slot[p].mem
                             /\ C = Counted /\ D = Counted'
    OBVIOUS
  <1>1. /\ b \in Nat /\ OneChain(V, b) /\ C \subseteq D
        /\ StateShaped(mem) /\ StateBelow(mem, b)
    BY CountedGrows DEF Book, PathInv, SlotsInv, SlotShaped, KeysInv, SlotBelow
  <1>2. CASE c.state = NoState
    BY <1>1, <1>2, NoStateKept
  <1>3. CASE c = Marshalled(mem)
    <2> PICK A : A = C \cup Owed(slot[p], sent)
      OBVIOUS
    <2>1. Kept(V, b, d, mem, A) /\ A \subseteq D
      BY <1>1 DEF Book, SlotKept
    <2>2. Kept(V, b, d, mem, D)
      BY <1>1, <2>1, KeptMore
    <2> QED BY <1>1, <1>3, <2>2, MarshalledKept
  <1> QED BY <1>2, <1>3

\* A step of slot p that puts c into the files of its device.
LEMMA SavesBook ==
    ASSUME PathInv, KeysInv, ShowInv, LossInv, UNCHANGED <<sent, nextKey>>, Grows,
           NEW p \in Process, Owed(slot[p], sent) \subseteq Counted',
           NEW c, c = Marshalled(slot[p].mem) \/ c.state = NoState,
           \A d \in Device : /\ \/ file'[d] \in {file[d], tmp[d]}
                                \/ d = slot[p].dev /\ file'[d] = c
                             /\ \/ tmp'[d] = tmp[d]
                                \/ d = slot[p].dev /\ tmp'[d] = c,
           \A q \in Process \ {p} :
                /\ slot'[q].stage = slot[q].stage /\ slot'[q].cmd = slot[q].cmd
                /\ slot'[q].dev = slot[q].dev /\ slot'[q].mem = slot[q].mem
                /\ slot'[q].env = slot[q].env /\ slot'[q].at = slot[q].at,
           NEW t, slot'[p] = t, t.stage # "posting",
           t.mem = NoState \/ (t.mem = slot[p].mem /\ t.dev = slot[p].dev)
    PROVE  LossInv'
  <1> PICK V : Book(V, nextKey)
    BY DEF LossInv
  <1> PICK b, C, D, l : b = nextKey /\ C = Counted /\ D = Counted' /\ l = sent
    OBVIOUS
  <1>1. b \in Nat /\ OneChain(V, b) /\ C \subseteq D /\ sent' = l
    BY CountedGrows DEF KeysInv, Book
  <1>2. Kept(V, b, slot[p].dev, c.state, D)
    BY SavedKept
  <1>3. \A d \in Device : Kept(V, b, d, file[d].state, D) /\ Kept(V, b, d, tmp[d].state, D)
    BY <1>1, KeptLater DEF Book
  <1>4. \A d \in Device : Kept(V, b, d, file'[d].state, D) /\ Kept(V, b, d, tmp'[d].state, D)
    BY <1>2, <1>3
  <1>5. ASSUME NEW q \in Process PROVE SlotKept(V, b, slot'[q], D, l)
    <2> PICK s : s = slot[q]
      OBVIOUS
    <2>1. SlotKept(V, b, s, C, l)
      BY DEF Book
    <2>2. CASE q = p
      <3>1. t.mem = NoState \/ (t.mem = s.mem /\ t.dev = s.dev /\ Owed(s, l) \subseteq D)
        BY <2>2
      <3>2. SlotKept(V, b, t, D, l)
        BY <1>1, <2>1, <3>1, SlotGoesOn, ZenonT(60)
      <3> QED BY <2>2, <3>2
    <2>3. CASE q # p
      <3> PICK r : r = slot'[q]
        OBVIOUS
      <3>1. /\ r.stage = s.stage /\ r.cmd = s.cmd /\ r.dev = s.dev /\ r.mem = s.mem
            /\ r.env = s.env /\ r.at = s.at
        BY <2>3
      <3>2. SlotKept(V, b, s, D, l)
        <4>1. SlotKept(V, b, s, D, sent')
          BY <1>1, <2>1, KeptLater
        <4> QED BY <1>1, <4>1
      <3>3. SlotKept(V, b, r, D, l)
        BY <3>1, <3>2 DEF SlotKept, Owed, Shows
      <3> QED BY <3>3
    <2> QED BY <2>2, <2>3
  <1>6. \A i \in DOMAIN sent' : EnvOn(V, sent'[i])
    BY <1>1 DEF Book
  <1>7. Book(V, b)'
    BY <1>1, <1>4, <1>5, <1>6 DEF Book
  <1> QED BY <1>7 DEF LossInv

LEMMA WritesBook ==
    ASSUME PathInv, KeysInv, ShowInv, LossInv, NEW p \in Process, OpenTmp(p) \/ WriteTmp(p)
    PROVE  LossInv'
  <1> PICK d, mem : d = slot[p].dev /\ mem = slot[p].mem
    OBVIOUS
  <1>1. /\ UNCHANGED <<sent, nextKey, printed, dropped>> /\ SlotsInv /\ FilesShaped
        /\ d \in Cli /\ d \in Device /\ slot[p].stage \in {"saving", "writing"}
    BY WriteTmpSlot DEF OpenTmp, WriteTmp, PathInv, SlotsInv, SlotShaped
  <1>2. Grows /\ Owed(slot[p], sent) = {}
    BY <1>1 DEF Grows, Owed, Shows
  <1>3. PICK t : Gets(p, t) /\ t.stage \in {"writing", "renaming"} /\ t.mem = mem /\ t.dev = d
    <2>1. CASE OpenTmp(p)
      BY <1>1, <2>1, OpenTmpSlot DEF Moves
    <2>2. CASE WriteTmp(p)
      BY <1>1, <2>2, WriteTmpSlot DEF Moves
    <2> QED BY <2>1, <2>2
  <1>4. \A q \in Process : slot'[q] = IF q = p THEN t ELSE slot[q]
    BY <1>1, <1>3 DEF Gets, SlotsInv
  <1>5. /\ Bad("empty").state = NoState /\ Bad("torn").state = NoState
    BY DEF Bad
  <1>6. \E c : /\ c = Marshalled(mem) \/ c.state = NoState
               /\ \/ tmp' = [tmp EXCEPT ![d] = c] /\ UNCHANGED file
                  \/ file' = [file EXCEPT ![d] = c] /\ UNCHANGED tmp
                  \/ UNCHANGED <<file, tmp>>
    <2>1. CASE OpenTmp(p)
      BY <1>5, <2>1 DEF OpenTmp
    <2>2. CASE WriteTmp(p)
      BY <1>5, <2>2, WriteTmpIs
    <2> QED BY <2>1, <2>2
  <1>7. PICK c : /\ c = Marshalled(mem) \/ c.state = NoState
                 /\ \/ tmp' = [tmp EXCEPT ![d] = c] /\ UNCHANGED file
                    \/ file' = [file EXCEPT ![d] = c] /\ UNCHANGED tmp
                    \/ UNCHANGED <<file, tmp>>
    BY <1>6
  <1>8. \A e \in Device : /\ file'[e] \in {file[e], tmp[e]} \/ (e = d /\ file'[e] = c)
                          /\ tmp'[e] = tmp[e] \/ (e = d /\ tmp'[e] = c)
    BY <1>1, <1>7 DEF FilesShaped
  <1>9. \A q \in Process \ {p} :
                /\ slot'[q].stage = slot[q].stage /\ slot'[q].cmd = slot[q].cmd
                /\ slot'[q].dev = slot[q].dev /\ slot'[q].mem = slot[q].mem
                /\ slot'[q].env = slot[q].env /\ slot'[q].at = slot[q].at
    BY <1>4
  <1>10. slot'[p] = t /\ t.stage # "posting" /\ t.mem = slot[p].mem /\ t.dev = slot[p].dev
    BY <1>3, <1>4
  <1> QED BY <1>1, <1>2, <1>7, <1>8, <1>9, <1>10, SavesBook

LEMMA RenameBook ==
    ASSUME PathInv, KeysInv, ShowInv, LossInv, NEW p \in Process, Rename(p)
    PROVE  LossInv'
  <1> PICK d : d = slot[p].dev
    OBVIOUS
  <1>1. /\ UNCHANGED <<sent, nextKey, printed, dropped>> /\ SlotsInv /\ FilesShaped
        /\ d \in Device /\ slot[p].stage = "renaming"
        /\ file' = [file EXCEPT ![d] = tmp[d]] /\ tmp' = [tmp EXCEPT ![d] = Bad("absent")]
    BY DEF Rename, PathInv, SlotsInv, SlotShaped
  <1>2. Grows /\ Owed(slot[p], sent) = {}
    BY <1>1 DEF Grows, Owed, Shows
  <1> PICK c : c = Bad("absent")
    OBVIOUS
  <1>3. c.state = NoState
    BY DEF Bad
  <1>4. \A e \in Device : /\ file'[e] \in {file[e], tmp[e]} \/ (e = d /\ file'[e] = c)
                          /\ tmp'[e] = tmp[e] \/ (e = d /\ tmp'[e] = c)
    BY <1>1 DEF FilesShaped
  <1>5. /\ \A q \in Process \ {p} :
                /\ slot'[q].stage = slot[q].stage /\ slot'[q].cmd = slot[q].cmd
                /\ slot'[q].dev = slot[q].dev /\ slot'[q].mem = slot[q].mem
                /\ slot'[q].env = slot[q].env /\ slot'[q].at = slot[q].at
        /\ \/ slot'[p] = Idle
           \/ slot'[p].stage = "listening" /\ slot'[p].dev = d /\ slot'[p].mem = slot[p].mem
    BY <1>1, RenameSlots
  <1>6. PICK t : /\ slot'[p] = t /\ t.stage # "posting"
                 /\ t.mem = NoState \/ (t.mem = slot[p].mem /\ t.dev = slot[p].dev)
    BY <1>5 DEF Idle
  <1> QED BY <1>1, <1>2, <1>3, <1>4, <1>5, <1>6, SavesBook

\* handleClientEnvelope answers the text with the state that is past its key.
LEMMA ReturnsBook ==
    ASSUME PathInv, KeysInv, ShowInv, LossInv, NEW p \in Process,
           ClientInitReturns(p) \/ ClientSendReturns(p) \/ ClientEnvelopeReturns(p)
    PROVE  LossInv'
  <1> PICK d, mem : d = slot[p].dev /\ mem = slot[p].mem
    OBVIOUS
  <1>1. /\ UNCHANGED <<sent, tmp, nextKey, dropped>> /\ SlotsInv /\ FilesShaped
        /\ file' = [file EXCEPT ![d] = Marshalled(mem)]
        /\ slot[p].stage = "saving" /\ d \in Device /\ d \notin Cli
    BY DEF ClientInitReturns, ClientSendReturns, ClientEnvelopeReturns, Returns, PathInv,
           SlotsInv, SlotShaped
  <1>2. Grows /\ Owed(slot[p], sent) \subseteq Counted'
    <2>1. CASE ClientInitReturns(p) \/ ClientSendReturns(p)
      <3>1. UNCHANGED printed /\ slot[p].cmd # "listen"
        BY <2>1 DEF ClientInitReturns, ClientSendReturns, Returns
      <3> QED BY <1>1, <3>1 DEF Grows, Owed, Shows
    <2>2. CASE ClientEnvelopeReturns(p)
      <3>1. Shows(slot[p]) /\ printed' = [printed EXCEPT ![slot[p].at] = @ + 1]
        BY <1>1, <2>2 DEF ClientEnvelopeReturns, Returns, Shows
      <3> QED BY <1>1, <3>1, ShowsCounts
    <2> QED BY <2>1, <2>2
  <1>3. PICK t : Gets(p, t) /\ t.stage # "posting" /\ t.mem = NoState
    <2>1. CASE Gets(p, Idle)
      BY <2>1 DEF Idle
    <2>2. CASE \E t : Moves(p, t, "listening") /\ t.mem = NoState
      BY <2>2 DEF Moves
    <2> QED BY <1>1, <2>1, <2>2, ReturnsSlot
  <1>4. \A q \in Process : slot'[q] = IF q = p THEN t ELSE slot[q]
    BY <1>1, <1>3 DEF Gets, SlotsInv
  <1> PICK c : c = Marshalled(mem)
    OBVIOUS
  <1>5. \A e \in Device : /\ file'[e] \in {file[e], tmp[e]} \/ (e = d /\ file'[e] = c)
                          /\ tmp'[e] = tmp[e] \/ (e = d /\ tmp'[e] = c)
    BY <1>1 DEF FilesShaped
  <1>6. \A q \in Process \ {p} :
                /\ slot'[q].stage = slot[q].stage /\ slot'[q].cmd = slot[q].cmd
                /\ slot'[q].dev = slot[q].dev /\ slot'[q].mem = slot[q].mem
                /\ slot'[q].env = slot[q].env /\ slot'[q].at = slot[q].at
    BY <1>4
  <1>7. slot'[p] = t
    BY <1>4
  <1> QED BY <1>1, <1>2, <1>3, <1>5, <1>6, <1>7, SavesBook

LEMMA LossStep ==
    ASSUME PathInv, KeysInv, ShowInv, LossInv, [Next]_vars
    PROVE  LossInv'
  <1>1. ASSUME NEW p \in Process, NEW d \in Device,
               StartInit(p, d) \/ StartSend(p, d) \/ StartListen(p, d)
        PROVE  LossInv'
    BY <1>1, StartBook
  <1>2. ASSUME NEW p \in Process, Seal(p) \/ SealFirst(p) PROVE LossInv'
    BY <1>2, SealBook
  <1>3. ASSUME NEW p \in Process, Post(p) PROVE LossInv'
    BY <1>3, PostBook
  <1>4. ASSUME NEW p \in Process, ReadEnvelope(p) PROVE LossInv'
    BY <1>4, ReadEnvelopeBook
  <1>5. ASSUME NEW p \in Process, PrintText(p) PROVE LossInv'
    BY <1>5, PrintTextBook
  <1>6. ASSUME NEW p \in Process, Register(p) \/ LoseAnswer(p) \/ Disconnect(p)
                                  \/ RenameFails(p) \/ Crash(p)
        PROVE  LossInv'
    BY <1>6, QuietBook
  <1>7. ASSUME NEW p \in Process, OpenTmp(p) \/ WriteTmp(p) PROVE LossInv'
    BY <1>7, WritesBook
  <1>8. ASSUME NEW p \in Process, Rename(p) PROVE LossInv'
    BY <1>8, RenameBook
  <1>9. ASSUME NEW p \in Process, ClientInitReturns(p) \/ ClientSendReturns(p)
                                  \/ ClientEnvelopeReturns(p)
        PROVE  LossInv'
    BY <1>9, ReturnsBook
  <1>10. CASE UNCHANGED vars
    <2> PICK V : Book(V, nextKey)
      BY DEF LossInv
    <2>1. Book(V, nextKey)'
      BY <1>10 DEF vars, Book, Counted
    <2> QED BY <2>1 DEF LossInv
  <1> QED BY <1>1, <1>2, <1>3, <1>4, <1>5, <1>6, <1>7, <1>8, <1>9, <1>10 DEF Next

\* No failure, kill or overlap swallows a text: when a saved state is past the
\* key of a stored envelope and cannot derive it any more, a text sealed with
\* that key was shown, or the key was dropped since the store of skipped keys
\* had no room.  runListen prints before it saves, handleClientEnvelope answers
\* the text together with the state, and what Decrypt passes over it stores.
THEOREM NoTextIsSwallowed == Spec => []NothingSwallowed
  <1>1. ClientInv /\ LossInv => NothingSwallowed
    <2> SUFFICES ASSUME ClientInv, LossInv, NEW d \in Device, NEW i \in DOMAIN sent,
                        sent[i].from = Peer(d), sent[i].key \notin dropped,
                        NEW s \in file[d].state.sessions, Past(s, sent[i].key)
                 PROVE  \E j \in DOMAIN sent : sent[j].key = sent[i].key /\ printed[j] > 0
      BY DEF NothingSwallowed
    <2> PICK V : Book(V, nextKey)
      BY DEF LossInv
    <2> PICK k : k = sent[i].key
      OBVIOUS
    <2>1. k \in ChainKey
      BY SentKeys DEF ClientInv
    <2>2. Accounted(V, d, s, Counted)
      BY DEF Book, Kept, Lossless
    <2>3. ~Foreign(V, d, k.root)
      BY DEF Book, EnvOn, Foreign
    <2>4. k.root = s.recv.key.root /\ k.step < s.recv.key.step
          /\ ~\E e \in s.skipped : e.key = k
      <3>1. k.step \in Nat /\ s.recv.key.step \in Nat
        BY <2>1 DEF ClientInv, KeysInv, StateBelow, SessionInv, Tidy, Session, ChainState,
                    ChainKey
      <3> QED BY <3>1 DEF Past
    <2>5. k \in Counted
      BY <2>1, <2>2, <2>3, <2>4 DEF Accounted
    <2> QED BY <2>5 DEF Counted, ShownKeys
  <1>2. Init => LossInv
    BY InitBook
  <1>3. ClientInv /\ LossInv /\ [Next]_vars => LossInv'
    BY LossStep DEF ClientInv
  <1> QED BY <1>1, <1>2, <1>3, ClientInvariant, PTL DEF Spec

-----------------------------------------------------------------------------
(* Types.                                                                  *)

HandleFits(s) == s.handle # "none" <=> s.stage = "writing"

TypesInv ==
    /\ file \in [Device -> Content] /\ tmp \in [Device -> Content]
    /\ slot \in [Process -> Slot] /\ \A p \in Process : HandleFits(slot[p])
    /\ marked \in [Device -> Nat] /\ faults \in Nat
    /\ overlapped \subseteq Device /\ cut \subseteq Device \X Command

\* The counters and the notes of what went wrong.
BooksTyped ==
    /\ marked' \in [Device -> Nat] /\ faults' \in Nat
    /\ overlapped' \subseteq Device /\ cut' \subseteq Device \X Command

LEMMA StateTyped ==
    /\ NoState \in State /\ NoEnvelope \in Envelope /\ Idle \in Slot /\ HandleFits(Idle)
    /\ \A x \in Nat : Fresh(x) \in State
    /\ \A form \in {"absent", "empty", "torn"} : Bad(form) \in Content
  <1>1. \A x \in Nat : Fresh(x) \in State
    BY DEF Fresh, State, KeyPair
  <1>2. NoState \in State
    BY <1>1 DEF NoState, NoKey
  <1>3. <<>> \in RootKey
    BY DEF RootKey
  <1>4. NoEnvelope \in Envelope
    BY <1>3 DEF NoEnvelope, Envelope, Header, ChainKey, KeyPair, ZeroKey, NoKey, Device
  <1>5. Idle \in Slot /\ HandleFits(Idle)
    BY <1>2, <1>4 DEF Idle, Slot, Stage, Command, Device, HandleFits
  <1>6. \A form \in {"absent", "empty", "torn"} : Bad(form) \in Content
    BY <1>2 DEF Bad, Content
  <1> QED BY <1>1, <1>2, <1>4, <1>5, <1>6

LEMMA MarshalledTyped ==
    ASSUME NEW st \in State, NEW b, StateBelow(st, b)
    PROVE  Marshalled(st) \in Content
  <1> DEFINE ss == {ExportImport(s) : s \in st.sessions}
  <1>1. ASSUME NEW s \in st.sessions PROVE ExportImport(s) \in Session
    BY ExportInv DEF StateBelow, SessionInv, Tidy
  <1>2. ss \subseteq Session
    BY <1>1
  <1>3. Marshalled(st) = [form |-> "whole", state |-> [st EXCEPT !.sessions = ss]]
    BY DEF Marshalled
  <1> HIDE DEF ss
  <1>4. [st EXCEPT !.sessions = ss] \in State
    BY <1>2 DEF State
  <1> QED BY <1>3, <1>4 DEF Content

\* Slot p gets t.
LEMMA SlotTypedStep ==
    ASSUME TypesInv, NEW p \in Process, NEW t \in Slot, HandleFits(t),
           slot' = [slot EXCEPT ![p] = t]
    PROVE  slot' \in [Process -> Slot] /\ \A q \in Process : HandleFits(slot[q])'
  <1>1. slot' \in [Process -> Slot] /\ \A q \in Process : slot'[q] = IF q = p THEN t ELSE slot[q]
    BY DEF TypesInv
  <1> QED BY <1>1 DEF TypesInv, HandleFits

LEMMA GotoTyped ==
    ASSUME NEW p \in Process, slot[p] \in Slot, NEW done, NEW next \in Stage,
           Steps[slot[p].cmd][done] = next, next # "writing"
    PROVE  Goto(p, done) \in Slot /\ HandleFits(Goto(p, done))
  <1>1. CASE next = "idle"
    BY <1>1, StateTyped DEF Goto
  <1>2. CASE next # "idle"
    <2> DEFINE g == [slot[p] EXCEPT !.stage = next, !.handle = "none"]
    <2>1. Goto(p, done) = g
      BY <1>2 DEF Goto
    <2>2. g \in Slot /\ HandleFits(g)
      BY DEF Slot, HandleFits
    <2> QED BY <2>1, <2>2
  <1> QED BY <1>1, <1>2

LEMMA MarkDeliveredTyped ==
    ASSUME TypesInv, KeysInv, NEW p \in Process, MarkDelivered(p)
    PROVE  marked' \in [Device -> Nat]
  <1>1. CASE UNCHANGED marked
    BY <1>1 DEF TypesInv
  <1>2. CASE slot[p].cmd = "listen"
    <2>1. PICK i \in {marked[slot[p].dev]} \cup ToRead(slot[p].dev) :
            marked' = [marked EXCEPT ![slot[p].dev] = i]
      BY <1>2 DEF MarkDelivered
    <2>2. slot[p].dev \in Device /\ marked[slot[p].dev] \in Nat
      BY DEF TypesInv, Slot
    <2>3. i \in Nat
      BY <2>2 DEF ToRead, KeysInv
    <2> QED BY <2>1, <2>3 DEF TypesInv
  <1> QED BY <1>1, <1>2 DEF MarkDelivered

LEMMA NoteOverlapTyped ==
    ASSUME TypesInv, NEW p, NEW d \in Device, NoteOverlap(p, d)
    PROVE  overlapped' \subseteq Device /\ faults' \in Nat
  BY DEF NoteOverlap, Fault, TypesInv

LEMMA EndTyped ==
    ASSUME TypesInv, KeysInv, NEW p \in Process, NEW exposed, End(p, exposed)
    PROVE  /\ slot' = [slot EXCEPT ![p] = Idle] /\ marked' \in [Device -> Nat]
           /\ cut' \subseteq Device \X Command
  <1>1. slot[p].dev \in Device /\ slot[p].cmd \in Command
    BY DEF TypesInv, Slot
  <1> QED BY <1>1, MarkDeliveredTyped DEF End, TypesInv

\* Slot p gets t; the files are left alone.
LEMMA TypesSlot ==
    ASSUME TypesInv, NEW p \in Process, NEW t \in Slot, HandleFits(t),
           slot' = [slot EXCEPT ![p] = t], UNCHANGED <<file, tmp>>, BooksTyped
    PROVE  TypesInv'
  <1>1. slot' \in [Process -> Slot] /\ \A q \in Process : HandleFits(slot[q])'
    BY SlotTypedStep
  <1> QED BY <1>1 DEF TypesInv, BooksTyped

LEMMA InitTypes == Init => TypesInv
  <1> SUFFICES ASSUME Init PROVE TypesInv
    OBVIOUS
  <1>1. ASSUME NEW d \in Device PROVE Marshalled(Fresh(d)) \in Content
    <2>1. Fresh(d) \in State /\ d \in Nat
      BY StateTyped DEF Device
    <2>2. StateBelow(Fresh(d), 3)
      BY DEF Fresh, StateBelow, Device
    <2> QED BY <2>1, <2>2, MarshalledTyped
  <1>2. file \in [Device -> Content] /\ tmp \in [Device -> Content]
    BY <1>1, StateTyped DEF Init
  <1>3. slot \in [Process -> Slot] /\ \A p \in Process : HandleFits(slot[p])
    BY StateTyped DEF Init
  <1> QED BY <1>2, <1>3 DEF Init, TypesInv

LEMMA StartTypes ==
    ASSUME TypesInv, KeysInv, NEW p \in Process, NEW d \in Device,
           StartInit(p, d) \/ StartSend(p, d) \/ StartListen(p, d)
    PROVE  TypesInv'
  <1>1. UNCHANGED <<file, tmp, marked, cut>> /\ file[d].state \in State /\ nextKey \in Nat
        /\ marked[d] \in Nat
    BY DEF StartInit, StartSend, StartListen, TypesInv, Content, KeysInv
  <1>2. NoteOverlap(p, d) \/ UNCHANGED <<overlapped, faults>>
    BY DEF StartInit, StartSend, StartListen
  <1>3. BooksTyped
    BY <1>1, <1>2, NoteOverlapTyped DEF BooksTyped, TypesInv
  <1>4. CASE StartInit(p, d)
    <2> PICK mem \in State : mem = Fresh(nextKey)
      BY <1>1, StateTyped
    <2> DEFINE t == [Idle EXCEPT !.stage = "registering", !.cmd = "init", !.dev = d,
                                 !.mem = mem]
    <2>1. slot' = [slot EXCEPT ![p] = t]
      BY <1>4 DEF StartInit, Start
    <2>2. t \in Slot /\ HandleFits(t)
      BY StateTyped DEF Idle, Slot, HandleFits, Stage, Command
    <2> HIDE DEF t
    <2> QED BY <1>1, <1>3, <2>1, <2>2, TypesSlot
  <1>5. CASE StartSend(p, d)
    <2> PICK mem \in State : mem = file[d].state
      BY <1>1
    <2> DEFINE t == [Idle EXCEPT !.stage = "loaded", !.cmd = "send", !.dev = d, !.mem = mem]
    <2>1. slot' = [slot EXCEPT ![p] = t]
      BY <1>5 DEF StartSend, Start
    <2>2. t \in Slot /\ HandleFits(t)
      BY StateTyped DEF Idle, Slot, HandleFits, Stage, Command
    <2> HIDE DEF t
    <2> QED BY <1>1, <1>3, <2>1, <2>2, TypesSlot
  <1>6. CASE StartListen(p, d)
    <2> PICK mem \in State : mem = IF d \in Cli THEN file[d].state ELSE NoState
      BY <1>1, StateTyped
    <2> PICK at \in Nat : at = marked[d]
      BY <1>1
    <2> DEFINE t == [Idle EXCEPT !.stage = "listening", !.cmd = "listen", !.dev = d,
                                 !.mem = mem, !.at = at]
    <2>1. slot' = [slot EXCEPT ![p] = t]
      BY <1>6 DEF StartListen, Start
    <2>2. t \in Slot /\ HandleFits(t)
      BY StateTyped DEF Idle, Slot, HandleFits, Stage, Command
    <2> HIDE DEF t
    <2> QED BY <1>1, <1>3, <2>1, <2>2, TypesSlot
  <1> QED BY <1>4, <1>5, <1>6

LEMMA RegisterTypes ==
    ASSUME PathInv, TypesInv, KeysInv, NEW p \in Process, Register(p)
    PROVE  TypesInv'
  <1>1. UNCHANGED <<file, tmp, overlapped>> /\ slot[p] \in Slot /\ slot[p].cmd = "init"
    BY RegisterSlot DEF Register, TypesInv, PathInv
  <1>2. CASE slot' = [slot EXCEPT ![p] = Goto(p, "registered")]
             /\ UNCHANGED <<marked, cut, faults>>
    <2>1. BooksTyped
      BY <1>1, <1>2 DEF BooksTyped, TypesInv
    <2>2. Goto(p, "registered") \in Slot /\ HandleFits(Goto(p, "registered"))
      <3>1. "saving" \in Stage
        BY DEF Stage
      <3> QED BY <1>1, <3>1, StepsAre, GotoTyped
    <2> QED BY <1>1, <1>2, <2>1, <2>2, TypesSlot
  <1>3. CASE Fault /\ End(p, TRUE)
    <2>1. /\ slot' = [slot EXCEPT ![p] = Idle] /\ marked' \in [Device -> Nat]
          /\ cut' \subseteq Device \X Command
      BY <1>3, EndTyped, Zenon
    <2>2. BooksTyped
      BY <1>1, <1>3, <2>1 DEF BooksTyped, TypesInv, Fault
    <2> QED BY <1>1, <2>1, <2>2, StateTyped, TypesSlot
  <1> QED BY <1>2, <1>3 DEF Register

\* A state with one session, which was sealed or read in.
LEMMA OneSession ==
    ASSUME NEW st \in State, NEW session \in Session
    PROVE  [st EXCEPT !.sessions = {session}] \in State
  BY DEF State

LEMMA SealTypes ==
    ASSUME PathInv, TypesInv, KeysInv, NEW p \in Process, Seal(p) \/ SealFirst(p)
    PROVE  TypesInv'
  <1> PICK fresh, b : fresh = nextKey /\ b = nextKey'
    OBVIOUS
  <1>1. /\ UNCHANGED <<file, tmp, marked, overlapped, cut, faults>> /\ slot[p] \in Slot
        /\ slot[p].stage = "loaded" /\ fresh \in Nat /\ SlotsInv
    BY DEF Seal, SealFirst, TypesInv, KeysInv, PathInv
  <1>2. PICK s, handshake :
             /\ SealIn(p, s, fresh, handshake) /\ Tidy(s) /\ handshake \in Nat
             /\ b \in {fresh, fresh + 1} /\ SessionInv(Sealing(s, fresh), b)
             /\ ~NeedsRotation(Sealing(s, fresh))
    BY SealsIs
  <1> DEFINE sealed == Encrypt(s, fresh)
  <1>3. sealed.header \in Header /\ sealed.key \in ChainKey /\ sealed.session \in Session
    <2>1. b \in Nat
      BY <1>1, <1>2
    <2> QED BY <1>1, <1>2, <2>1, EncryptBelow DEF SessionInv, Tidy
  <1>4. slot[p].cmd = "send"
    BY <1>1, <1>2, SealInSlot
  <1> DEFINE u == Goto(p, "sealed")
             mem == [u.mem EXCEPT !.sessions = {sealed.session}]
             env == Sealed(slot[p].dev, sealed, handshake)
             t == [u EXCEPT !.mem = mem, !.env = env]
  <1>5. slot' = [slot EXCEPT ![p] = t]
    BY <1>2 DEF SealIn
  <1>6. u \in Slot /\ HandleFits(u)
    <2>1. "posting" \in Stage
      BY DEF Stage
    <2> QED BY <1>1, <1>4, <2>1, StepsAre, GotoTyped
  <1> HIDE DEF sealed, u
  <1>7. env \in Envelope
    BY <1>1, <1>2, <1>3 DEF Sealed, Envelope, Slot
  <1>8. mem \in State
    BY <1>3, <1>6, OneSession DEF Slot
  <1> HIDE DEF mem, env
  <1>9. t \in Slot /\ HandleFits(t)
    BY <1>6, <1>7, <1>8 DEF Slot, HandleFits
  <1> HIDE DEF t
  <1> QED BY <1>1, <1>5, <1>9, TypesSlot DEF BooksTyped, TypesInv

LEMMA PostTypes ==
    ASSUME PathInv, TypesInv, KeysInv, NEW p \in Process, Post(p)
    PROVE  TypesInv'
  <1>1. UNCHANGED <<file, tmp, overlapped>> /\ slot[p] \in Slot /\ slot[p].cmd = "send"
    BY PostSlot DEF Post, TypesInv, PathInv
  <1> DEFINE u == Goto(p, "posted")
             t == [u EXCEPT !.env = NoEnvelope]
  <1>2. CASE slot' = [slot EXCEPT ![p] = t] /\ UNCHANGED <<marked, cut, faults>>
    <2>1. BooksTyped
      BY <1>1, <1>2 DEF BooksTyped, TypesInv
    <2>2. u \in Slot /\ HandleFits(u)
      <3>1. "saving" \in Stage
        BY DEF Stage
      <3> QED BY <1>1, <3>1, StepsAre, GotoTyped
    <2> HIDE DEF u
    <2>3. t \in Slot /\ HandleFits(t)
      BY <2>2, StateTyped DEF Slot, HandleFits
    <2> HIDE DEF t
    <2> QED BY <1>1, <1>2, <2>1, <2>3, TypesSlot
  <1>3. CASE Fault /\ End(p, TRUE)
    <2>1. /\ slot' = [slot EXCEPT ![p] = Idle] /\ marked' \in [Device -> Nat]
          /\ cut' \subseteq Device \X Command
      BY <1>3, EndTyped, Zenon
    <2>2. BooksTyped
      BY <1>1, <1>3, <2>1 DEF BooksTyped, TypesInv, Fault
    <2> QED BY <1>1, <2>1, <2>2, StateTyped, TypesSlot
  <1> QED BY <1>2, <1>3 DEF Post

\* What an envelope leaves in the state it is read in.
LEMMA HandleInboundTyped ==
    ASSUME NEW st \in State, NEW b \in Nat, StateBelow(st, b),
           NEW env, EnvelopeBelow(env, b), NEW out \in HandleInbound(st, env)
    PROVE  out.state \in State
  <1>1. CASE ReadIn(st, env) = {}
    <2>1. out = [state |-> st, result |-> "no handshake"]
      BY <1>1, Zenon DEF HandleInbound
    <2> QED BY <2>1
  <1>2. CASE ReadIn(st, env) # {}
    <2>1. PICK o \in UNION {Decrypt(s, Message(env)) : s \in ReadIn(st, env)} :
            out = [state |-> [st EXCEPT !.sessions = {o.session}], result |-> o.result]
      BY <1>2 DEF HandleInbound
    <2>2. PICK s \in ReadIn(st, env) : o \in Decrypt(s, Message(env))
      BY <2>1
    <2>3. o.session \in Session
      BY <2>2, ReadInBelow, MessageBelow, DecryptInv DEF SessionInv, Tidy
    <2> QED BY <2>1, <2>3, OneSession
  <1> QED BY <1>1, <1>2

LEMMA ReadEnvelopeTypes ==
    ASSUME PathInv, TypesInv, KeysInv, NEW p \in Process, ReadEnvelope(p)
    PROVE  TypesInv'
  <1> DEFINE d  == slot[p].dev
             st == IF d \in Cli THEN slot[p].mem ELSE file[d].state
  <1>1. /\ UNCHANGED <<file, tmp, marked, cut>> /\ slot[p] \in Slot /\ d \in Device
        /\ slot[p].stage = "listening" /\ nextKey \in Nat /\ NoteOverlap(p, d)
        /\ slot[p].cmd = "listen"
    BY ReadEnvelopeSlot DEF ReadEnvelope, TypesInv, KeysInv, PathInv, Slot
  <1>2. BooksTyped
    BY <1>1, NoteOverlapTyped DEF BooksTyped, TypesInv
  <1>3. st \in State /\ StateBelow(st, nextKey)
    BY <1>1 DEF TypesInv, Slot, Content, KeysInv, SlotBelow
  <1> PICK i \in Pushed(p) : \E out \in HandleInbound(st, sent[i]) :
          slot' = [slot EXCEPT ![p] =
               IF out.result # "read"
               THEN [@ EXCEPT !.at = i, !.mem = IF d \in Cli THEN out.state ELSE slot[p].mem]
               ELSE [(IF d \in Cli THEN Goto(p, "opened")
                      ELSE [@ EXCEPT !.stage = "saving"])
                     EXCEPT !.at = i, !.mem = out.state]]
    BY DEF ReadEnvelope
  <1>4. PICK out \in HandleInbound(st, sent[i]) :
          slot' = [slot EXCEPT ![p] =
               IF out.result # "read"
               THEN [@ EXCEPT !.at = i, !.mem = IF d \in Cli THEN out.state ELSE slot[p].mem]
               ELSE [(IF d \in Cli THEN Goto(p, "opened")
                      ELSE [@ EXCEPT !.stage = "saving"])
                     EXCEPT !.at = i, !.mem = out.state]]
    OBVIOUS
  <1>5. i \in Nat /\ out.state \in State
    <2>1. i \in DOMAIN sent /\ DOMAIN sent \subseteq Nat /\ EnvelopeBelow(sent[i], nextKey)
      BY DEF Pushed, KeysInv
    <2> HIDE DEF st
    <2> QED BY <1>1, <1>3, <2>1, HandleInboundTyped
  <1> DEFINE mem == IF out.result # "read" /\ d \notin Cli THEN slot[p].mem ELSE out.state
             u == IF out.result # "read" THEN slot[p]
                  ELSE IF d \in Cli THEN Goto(p, "opened")
                  ELSE [slot[p] EXCEPT !.stage = "saving"]
             t == [u EXCEPT !.at = i, !.mem = mem]
  <1>6. slot' = [slot EXCEPT ![p] = t]
    BY <1>4
  <1>7. mem \in State
    BY <1>1, <1>5 DEF Slot
  <1>8. u \in Slot /\ HandleFits(u)
    <2>1. slot[p] \in Slot /\ HandleFits(slot[p])
      BY DEF TypesInv
    <2>2. Goto(p, "opened") \in Slot /\ HandleFits(Goto(p, "opened"))
      <3>1. "printing" \in Stage
        BY DEF Stage
      <3> QED BY <1>1, <3>1, StepsAre, GotoTyped
    <2> PICK x : x = [slot[p] EXCEPT !.stage = "saving"]
      OBVIOUS
    <2>3. x \in Slot /\ HandleFits(x)
      BY <1>1, <2>1 DEF Slot, Stage, HandleFits
    <2> QED BY <2>1, <2>2, <2>3
  <1> HIDE DEF u, mem
  <1>9. t \in Slot /\ HandleFits(t)
    BY <1>5, <1>7, <1>8 DEF Slot, HandleFits
  <1> HIDE DEF t
  <1> QED BY <1>1, <1>2, <1>6, <1>9, TypesSlot

LEMMA WaitingTyped ==
    ASSUME NEW s \in Slot, HandleFits(s), s.stage = "saving"
    PROVE  Waiting(s) \in Slot /\ HandleFits(Waiting(s))
  BY StateTyped DEF Waiting, Slot, Stage, HandleFits

LEMMA QuietTypes ==
    ASSUME PathInv, TypesInv, KeysInv, NEW p \in Process,
           PrintText(p) \/ LoseAnswer(p) \/ Disconnect(p) \/ RenameFails(p) \/ Crash(p)
    PROVE  TypesInv'
  <1>1. UNCHANGED <<file, tmp, overlapped>> /\ slot[p] \in Slot /\ HandleFits(slot[p])
    BY DEF PrintText, LoseAnswer, Disconnect, RenameFails, Crash, TypesInv
  <1>2. CASE PrintText(p)
    <2>1. BooksTyped /\ slot' = [slot EXCEPT ![p] = Goto(p, "printed")]
      BY <1>2 DEF PrintText, BooksTyped, TypesInv
    <2>2. Goto(p, "printed") \in Slot /\ HandleFits(Goto(p, "printed"))
      <3>1. "saving" \in Stage /\ slot[p].cmd = "listen"
        BY <1>2, PrintTextSlot DEF Stage, PathInv
      <3> QED BY <1>1, <3>1, StepsAre, GotoTyped
    <2> QED BY <1>1, <2>1, <2>2, TypesSlot
  <1>3. CASE LoseAnswer(p)
    <2>1. /\ BooksTyped /\ slot' = [slot EXCEPT ![p] = Waiting(slot[p])]
          /\ slot[p].stage = "saving"
      BY <1>3 DEF LoseAnswer, BooksTyped, TypesInv
    <2> QED BY <1>1, <2>1, WaitingTyped, TypesSlot
  <1>4. CASE Disconnect(p)
    <2>1. BooksTyped /\ slot' = [slot EXCEPT ![p] = Idle]
      BY <1>4, MarkDeliveredTyped DEF Disconnect, BooksTyped, TypesInv
    <2> QED BY <1>1, <2>1, StateTyped, TypesSlot
  <1>5. CASE RenameFails(p) \/ Crash(p)
    <2>1. /\ slot' = [slot EXCEPT ![p] = Idle] /\ marked' \in [Device -> Nat]
          /\ cut' \subseteq Device \X Command
      <3>1. CASE End(p, TRUE)
        BY <3>1, EndTyped, Zenon
      <3>2. CASE End(p, Unsaved(p))
        BY <3>2, EndTyped, Zenon
      <3> QED BY <1>5, <3>1, <3>2, Zenon DEF RenameFails, Crash
    <2>2. UNCHANGED overlapped /\ (Fault \/ UNCHANGED faults)
      BY <1>5, Zenon DEF RenameFails, Crash
    <2>3. faults' \in Nat /\ overlapped' \subseteq Device
      BY <2>2 DEF Fault, TypesInv
    <2> QED BY <1>1, <2>1, <2>3, StateTyped, TypesSlot DEF BooksTyped
  <1> QED BY <1>2, <1>3, <1>4, <1>5

\* Slot p gets t, and the files get what they may hold.
LEMMA TypesSave ==
    ASSUME TypesInv, NEW p \in Process, NEW t \in Slot, HandleFits(t),
           slot' = [slot EXCEPT ![p] = t],
           file' \in [Device -> Content], tmp' \in [Device -> Content],
           UNCHANGED <<marked, faults, overlapped, cut>>
    PROVE  TypesInv'
  <1>1. slot' \in [Process -> Slot] /\ \A q \in Process : HandleFits(slot[q])'
    BY SlotTypedStep
  <1> QED BY <1>1 DEF TypesInv

LEMMA OpenTmpTypes ==
    ASSUME TypesInv, NEW p \in Process, OpenTmp(p)
    PROVE  TypesInv'
  <1> DEFINE t == [slot[p] EXCEPT !.stage = "writing", !.handle = "tmp"]
  <1>1. t \in Slot /\ HandleFits(t)
    BY DEF TypesInv, Slot, Stage, HandleFits
  <1>2. slot' = [slot EXCEPT ![p] = t] /\ UNCHANGED <<file, marked, faults, overlapped, cut>>
        /\ tmp' = [tmp EXCEPT ![slot[p].dev] = Bad("empty")]
    BY DEF OpenTmp
  <1>3. file' \in [Device -> Content] /\ tmp' \in [Device -> Content]
    BY <1>2, StateTyped DEF TypesInv
  <1> HIDE DEF t
  <1> QED BY <1>1, <1>2, <1>3, TypesSave

\* The state in memory, written whole.
LEMMA MemoryTyped ==
    ASSUME TypesInv, KeysInv, NEW p \in Process
    PROVE  Marshalled(slot[p].mem) \in Content
  <1>1. slot[p].mem \in State /\ StateBelow(slot[p].mem, nextKey)
    BY DEF TypesInv, Slot, KeysInv, SlotBelow
  <1> QED BY <1>1, MarshalledTyped

LEMMA WriteTmpTypes ==
    ASSUME TypesInv, KeysInv, NEW p \in Process, WriteTmp(p)
    PROVE  TypesInv'
  <1> DEFINE t == [slot[p] EXCEPT !.stage = "renaming", !.handle = "none"]
  <1>1. t \in Slot /\ HandleFits(t)
    BY DEF TypesInv, Slot, Stage, HandleFits
  <1>2. slot' = [slot EXCEPT ![p] = t] /\ UNCHANGED <<marked, faults, overlapped, cut>>
    BY DEF WriteTmp
  <1> PICK c : /\ c = Marshalled(slot[p].mem) \/ c = Bad("torn")
               /\ \/ tmp' = [tmp EXCEPT ![slot[p].dev] = c] /\ UNCHANGED file
                  \/ file' = [file EXCEPT ![slot[p].dev] = c] /\ UNCHANGED tmp
                  \/ UNCHANGED <<file, tmp>>
    BY WriteTmpIs
  <1>3. c \in Content
    BY MemoryTyped, StateTyped
  <1>4. file' \in [Device -> Content] /\ tmp' \in [Device -> Content]
    BY <1>3 DEF TypesInv
  <1> HIDE DEF t
  <1> QED BY <1>1, <1>2, <1>4, TypesSave

LEMMA RenamedTyped ==
    ASSUME NEW s \in Slot, HandleFits(s)
    PROVE  [s EXCEPT !.handle = Renamed(@)] \in Slot /\ HandleFits([s EXCEPT !.handle = Renamed(@)])
  <1> PICK h : h = Renamed(s.handle)
    OBVIOUS
  <1>1. h \in {"none", "file", "gone"} /\ (h # "none" <=> s.handle # "none")
    BY DEF Renamed, Slot
  <1>2. [s EXCEPT !.handle = h] \in Slot /\ HandleFits([s EXCEPT !.handle = h])
    BY <1>1 DEF Slot, HandleFits
  <1> QED BY <1>2

LEMMA RenameTypes ==
    ASSUME PathInv, TypesInv, NEW p \in Process, Rename(p)
    PROVE  TypesInv'
  <1> PICK d : d = slot[p].dev
    OBVIOUS
  <1>1. /\ slot[p].stage = "renaming" /\ UNCHANGED <<marked, faults, overlapped, cut>>
        /\ file' = [file EXCEPT ![d] = tmp[d]] /\ tmp' = [tmp EXCEPT ![d] = Bad("absent")]
        /\ slot' = [q \in Process |->
                      IF q = p THEN Goto(p, "saved")
                      ELSE IF slot[q].dev = d
                      THEN [slot[q] EXCEPT !.handle = Renamed(@)]
                      ELSE slot[q]]
    BY DEF Rename
  <1>2. d \in Device /\ slot[p] \in Slot /\ slot[p].cmd \in Command
    BY DEF TypesInv, Slot
  <1>3. file' \in [Device -> Content] /\ tmp' \in [Device -> Content]
    BY <1>1, <1>2, StateTyped DEF TypesInv
  <1>4. Goto(p, "saved") \in Slot /\ HandleFits(Goto(p, "saved"))
    <2>1. "idle" \in Stage /\ "listening" \in Stage
      BY DEF Stage
    <2>2. CASE slot[p].cmd = "listen"
      BY <1>2, <2>1, <2>2, StepsAre, GotoTyped
    <2>3. CASE slot[p].cmd \in {"init", "send"}
      BY <1>2, <2>1, <2>3, StepsAre, GotoTyped
    <2> QED BY <1>2, <2>2, <2>3 DEF Command
  <1>5. ASSUME NEW q \in Process
        PROVE  slot'[q] \in Slot /\ HandleFits(slot'[q])
    <2>1. slot[q] \in Slot /\ HandleFits(slot[q])
      BY DEF TypesInv
    <2>2. CASE q = p
      BY <1>1, <1>4, <2>2
    <2>3. CASE q # p /\ slot[q].dev = d
      BY <1>1, <2>1, <2>3, RenamedTyped
    <2>4. CASE q # p /\ slot[q].dev # d
      BY <1>1, <2>1, <2>4
    <2> QED BY <2>2, <2>3, <2>4
  <1>6. slot' \in [Process -> Slot]
    BY <1>1, <1>5
  <1>7. \A q \in Process : HandleFits(slot[q])'
    BY <1>5 DEF HandleFits
  <1> QED BY <1>1, <1>3, <1>6, <1>7 DEF TypesInv

LEMMA ReturnsTypes ==
    ASSUME TypesInv, KeysInv, NEW p \in Process,
           ClientInitReturns(p) \/ ClientSendReturns(p) \/ ClientEnvelopeReturns(p)
    PROVE  TypesInv'
  <1>1. PICK cmd, t : Returns(p, cmd, t) /\ (t = Idle \/ t = Waiting(slot[p]))
    BY DEF ClientInitReturns, ClientSendReturns, ClientEnvelopeReturns
  <1>2. /\ slot[p].stage = "saving" /\ slot' = [slot EXCEPT ![p] = t]
        /\ file' = [file EXCEPT ![slot[p].dev] = Marshalled(slot[p].mem)]
        /\ UNCHANGED <<tmp, marked, faults, overlapped, cut>>
    BY <1>1 DEF Returns
  <1>3. t \in Slot /\ HandleFits(t)
    <2>1. slot[p] \in Slot /\ HandleFits(slot[p])
      BY DEF TypesInv
    <2> QED BY <1>1, <1>2, <2>1, StateTyped, WaitingTyped
  <1>4. file' \in [Device -> Content] /\ tmp' \in [Device -> Content]
    BY <1>2, MemoryTyped DEF TypesInv
  <1> QED BY <1>2, <1>3, <1>4, TypesSave

LEMMA TypesStep ==
    ASSUME PathInv, TypesInv, KeysInv, [Next]_vars
    PROVE  TypesInv'
  <1>1. ASSUME NEW p \in Process, NEW d \in Device,
               StartInit(p, d) \/ StartSend(p, d) \/ StartListen(p, d)
        PROVE  TypesInv'
    BY <1>1, StartTypes
  <1>2. ASSUME NEW p \in Process, Register(p)
        PROVE  TypesInv'
    BY <1>2, RegisterTypes
  <1>3. ASSUME NEW p \in Process, Seal(p) \/ SealFirst(p)
        PROVE  TypesInv'
    BY <1>3, SealTypes
  <1>4. ASSUME NEW p \in Process, Post(p)
        PROVE  TypesInv'
    BY <1>4, PostTypes
  <1>5. ASSUME NEW p \in Process, ReadEnvelope(p)
        PROVE  TypesInv'
    BY <1>5, ReadEnvelopeTypes
  <1>6. ASSUME NEW p \in Process,
               PrintText(p) \/ LoseAnswer(p) \/ Disconnect(p) \/ RenameFails(p) \/ Crash(p)
        PROVE  TypesInv'
    BY <1>6, QuietTypes
  <1>7. ASSUME NEW p \in Process, OpenTmp(p)
        PROVE  TypesInv'
    BY <1>7, OpenTmpTypes
  <1>8. ASSUME NEW p \in Process, WriteTmp(p)
        PROVE  TypesInv'
    BY <1>8, WriteTmpTypes
  <1>9. ASSUME NEW p \in Process, Rename(p)
        PROVE  TypesInv'
    BY <1>9, RenameTypes
  <1>10. ASSUME NEW p \in Process,
                ClientInitReturns(p) \/ ClientSendReturns(p) \/ ClientEnvelopeReturns(p)
         PROVE  TypesInv'
    BY <1>10, ReturnsTypes
  <1>11. CASE UNCHANGED vars
    BY <1>11 DEF vars, TypesInv, HandleFits
  <1> QED BY <1>1, <1>2, <1>3, <1>4, <1>5, <1>6, <1>7, <1>8, <1>9, <1>10, <1>11 DEF Next

\* What a store without room drops is a key of the session or of its gap.
LEMMA DroppedKeys ==
    ASSUME NEW s, Tidy(s), NEW m, m.header \in Header, NEW t
    PROVE  Dropped(s, m, t) \subseteq ChainKey
  <1> PICK r, n : r = RotateRatchetOnRecv(s, m.header) /\ n = m.header.n
    OBVIOUS
  <1> DEFINE all == s.skipped \cup {SkippedAt(r, i) : i \in r.recv.index .. n - 1}
  <1>1. Tidy(r) /\ n \in Nat
    BY RotateDead DEF Header
  <1>2. ASSUME NEW i \in r.recv.index .. n - 1 PROVE SkippedAt(r, i) \in SkippedEntry
    BY <1>1, GapKey
  <1>3. all \subseteq SkippedEntry
    BY <1>2 DEF Tidy, Session
  <1>4. Dropped(s, m, t) \subseteq {e.key : e \in all}
    BY DEF Dropped
  <1> HIDE DEF all
  <1> QED BY <1>3, <1>4 DEF SkippedEntry

LEMMA LetGoKeys ==
    ASSUME NEW st, NEW b \in Nat, StateBelow(st, b), NEW env, EnvelopeBelow(env, b),
           NEW after
    PROVE  LetGo(st, env, after) \subseteq ChainKey
  <1>1. ASSUME NEW s \in ReadIn(st, env), NEW t
        PROVE  Dropped(s, Message(env), t) \subseteq ChainKey
    BY ReadInBelow, MessageBelow, DroppedKeys DEF SessionInv
  <1> QED BY <1>1 DEF LetGo

DroppedTyped == dropped \subseteq ChainKey

LEMMA DroppedStep ==
    ASSUME PathInv, KeysInv, DroppedTyped, [Next]_vars
    PROVE  DroppedTyped'
  <1>1. ASSUME NEW p \in Process, ReadEnvelope(p) PROVE DroppedTyped'
    <2>1. SlotsInv /\ FilesShaped /\ nextKey \in Nat
      BY DEF PathInv, KeysInv
    <2>2. SlotShaped(slot[p])
      BY <2>1 DEF SlotsInv
    <2>3. StateBelow(StateOf(p), nextKey)
      BY <2>2 DEF StateOf, KeysInv, SlotBelow, SlotShaped
    <2>4. PICK i \in Pushed(p) : \E out, t : Handled(p, i, out, t)
      BY <1>1, <2>1, ReadEnvelopeSlot
    <2>5. EnvelopeBelow(sent[i], nextKey)
      BY DEF Pushed, KeysInv
    <2>6. PICK out : dropped' = dropped \cup LetGo(StateOf(p), sent[i], out.state)
      BY <2>4 DEF Handled
    <2>7. LetGo(StateOf(p), sent[i], out.state) \subseteq ChainKey
      BY <2>1, <2>3, <2>5, LetGoKeys
    <2> QED BY <2>6, <2>7 DEF DroppedTyped
  <1>2. CASE UNCHANGED dropped
    BY <1>2, Zenon DEF DroppedTyped
  <1>3. UNCHANGED dropped \/ \E p \in Process : ReadEnvelope(p)
    BY DEF Next, vars, StartInit, StartSend, StartListen, Register, Seal, SealFirst, Post,
           PrintText, Disconnect, OpenTmp, WriteTmp, Rename, RenameFails,
           ClientInitReturns, ClientSendReturns, ClientEnvelopeReturns, Returns,
           LoseAnswer, Crash
  <1> QED BY <1>1, <1>2, <1>3

\* Every state path names nothing, a truncated or torn file or a state of the
\* right shape, a process has a file open exactly while it writes
\* (os.WriteFile in saveState), and each stored envelope has its count of
\* showings.
THEOREM StateIsTyped == Spec => []TypeOK
  <1>1. Init => TypesInv /\ DroppedTyped
    BY InitTypes DEF Init, DroppedTyped
  <1>2. ClientInv /\ TypesInv /\ DroppedTyped /\ [Next]_vars => TypesInv' /\ DroppedTyped'
    BY TypesStep, DroppedStep DEF ClientInv
  <1>3. ClientInv /\ TypesInv /\ DroppedTyped => TypeOK
    <2> SUFFICES ASSUME ClientInv, TypesInv, DroppedTyped PROVE TypeOK
      OBVIOUS
    <2>1. KeysInv /\ ShowInv
      BY DEF ClientInv
    <2>2. \A p \in Process : slot[p].handle # "none" <=> slot[p].stage = "writing"
      BY DEF TypesInv, HandleFits
    <2> QED BY <2>1, <2>2 DEF KeysInv, ShowInv, TypesInv, DroppedTyped, TypeOK, KeyPair
  <1> QED BY <1>1, <1>2, <1>3, ClientInvariant, PTL DEF Spec

===============================================================================
