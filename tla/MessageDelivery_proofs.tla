------------------------ MODULE MessageDelivery_proofs ------------------------
(***************************************************************************)
(* Delivery, between devices and on one connection.                        *)
(*                                                                         *)
(* First proofs about MessageDelivery, for any number of devices, messages *)
(* and connections: type correctness, SenderOrder and MarkedWasSent.       *)
(*                                                                         *)
(* SenderOrder rests on two facts.  A device has one POST in flight, so a  *)
(* row that appears is later than every row of the same sender (Stamps).   *)
(* And a page of the query is a prefix of what is pending, so whatever a   *)
(* connection has not written yet is later than what it showed (Ahead).    *)
(*                                                                         *)
(* At the end the proofs about Socket, the connection itself: its types    *)
(* and TextsArriveWhole.  The two modules share no variable.               *)
(***************************************************************************)
EXTENDS MessageDelivery, Socket, TLAPS, FiniteSetTheorems, SequenceTheorems

Entries(s) == {s[i] : i \in DOMAIN s}
Shown(c) == Entries(streams[c])
Stored == {m \in Message : requests[m] = "stored"}

\* What connection c has read and not written, and what it has not read yet.
Ahead(c) == Unwritten(c) \cup (Pending(DeviceOf[c]) \ handlers[c].batch)

Stamps ==
    /\ \A m \in Message : requests[m] # "new" => sentAt[m] < clock
    /\ \A m, x \in Message :
         requests[m] = "stamped" /\ requests[x] = "stored" /\ From[m] = From[x] =>
            Earlier(x, m)
    /\ \A m, x \in Message :
         requests[m] = "stamped" /\ requests[x] = "stamped" /\ From[m] = From[x] => m = x

AllStored ==
    /\ rows \subseteq Stored
    /\ \A c \in Conn : Shown(c) \subseteq Stored /\ handlers[c].batch \subseteq Stored

Batches ==
    \A c \in Conn :
        /\ handlers[c].written \subseteq handlers[c].batch
        /\ At(c, "unopened") \/ At(c, "polling") => handlers[c].batch = {}

InOrder ==
    \A c \in Conn : \A m \in Ahead(c) :
        /\ \A w \in Shown(c) : From[w] = From[m] => Earlier(w, m)
        /\ \A x \in handlers[c].batch :
             m \notin handlers[c].batch /\ From[x] = From[m] => Earlier(x, m)

FiniteRows == IsFiniteSet(rows)

DInv == TypeOK /\ FiniteRows /\ Stamps /\ AllStored /\ Batches /\ InOrder /\ SenderOrder

\* The strengthening of MarkedWasSent: a frame counted as written was read,
\* or lost.
SentInv == MarkedWasSent /\ \A c \in Conn : handlers[c].written \subseteq Shown(c) \cup lost

-----------------------------------------------------------------------------
(* Streams and pages.                                                      *)

\* A frame written adds its envelope to what the connection has shown.
LEMMA ShownAppend ==
    ASSUME NEW s \in Seq(Message), NEW m \in Message
    PROVE  /\ Append(s, m) \in Seq(Message)
           /\ Entries(Append(s, m)) = Entries(s) \cup {m}
  <1>1. /\ Append(s, m) \in Seq(Message)
        /\ Len(Append(s, m)) = Len(s) + 1
        /\ \A i \in 1 .. Len(s) : Append(s, m)[i] = s[i]
        /\ Append(s, m)[Len(s) + 1] = m
    BY AppendProperties
  <1>2. DOMAIN s = 1 .. Len(s) /\ DOMAIN Append(s, m) = 1 .. (Len(s) + 1) /\ Len(s) \in Nat
    BY <1>1, LenProperties
  <1>3. ASSUME NEW x PROVE x \in {Append(s, m)[i] : i \in DOMAIN Append(s, m)}
                             <=> x \in {s[i] : i \in DOMAIN s} \cup {m}
    <2>1. ASSUME NEW i \in DOMAIN Append(s, m), x = Append(s, m)[i]
          PROVE  x \in {s[j] : j \in DOMAIN s} \cup {m}
      <3>1. i \in 1 .. Len(s) \/ i = Len(s) + 1
        BY <1>2
      <3> QED BY <3>1, <2>1, <1>1, <1>2
    <2>2. ASSUME NEW i \in DOMAIN s, x = s[i]
          PROVE  x \in {Append(s, m)[j] : j \in DOMAIN Append(s, m)}
      <3>1. i \in DOMAIN Append(s, m) /\ Append(s, m)[i] = x
        BY <2>2, <1>1, <1>2
      <3> QED BY <3>1
    <2>3. x = m => x \in {Append(s, m)[j] : j \in DOMAIN Append(s, m)}
      <3>1. Len(s) + 1 \in DOMAIN Append(s, m)
        BY <1>2
      <3> QED BY <3>1, <1>1
    <2> QED BY <2>1, <2>2, <2>3
  <1> QED BY <1>1, <1>3 DEF Entries

\* A page of the query is finite and holds Batch rows at most.
LEMMA PageBound ==
    ASSUME TypeOK, FiniteRows, NEW d \in Device, NEW B, Page(d, B)
    PROVE  /\ B \subseteq Pending(d)
           /\ FirstOf(B, Pending(d))
           /\ IsFiniteSet(B)
           /\ Cardinality(B) <= Batch
  <1>1. Pending(d) \subseteq rows
    BY DEF Pending
  <1>2. IsFiniteSet(Pending(d)) /\ B \subseteq Pending(d)
    BY <1>1, FS_Subset DEF FiniteRows, Page
  <1>3. IsFiniteSet(B) /\ Cardinality(Pending(d)) \in Nat
    BY <1>2, FS_Subset, FS_CardinalityType
  <1>4. Cardinality(B) = IF Cardinality(Pending(d)) > Batch THEN Batch
                         ELSE Cardinality(Pending(d))
    BY DEF Page
  <1>5. Batch \in Nat
    BY DeliveryAssumption
  <1>6. Cardinality(B) <= Batch
    BY <1>3, <1>4, <1>5
  <1> QED BY <1>2, <1>3, <1>6 DEF Page

-----------------------------------------------------------------------------
(* Types.                                                                  *)

LEMMA DInit == Init => DInv /\ SentInv
  <1> SUFFICES ASSUME Init PROVE DInv /\ SentInv
    OBVIOUS
  <1>1. \A c \in Conn : /\ handlers[c].stage = "unopened" /\ handlers[c].gone = FALSE
                        /\ handlers[c].batch = {} /\ handlers[c].written = {}
                        /\ streams[c] = <<>>
    BY DEF Init
  <1>2. IsFiniteSet({}) /\ Cardinality({}) = 0
    BY FS_EmptySet
  <1>3. TypeOK
    <2>1. handlers \in [Conn -> Handler]
      <3>1. [stage |-> "unopened", gone |-> FALSE, batch |-> {}, written |-> {}] \in Handler
        BY DEF Handler
      <3> QED BY <3>1 DEF Init
    <2>4. <<>> \in Seq(Message)
      BY EmptySeq
    <2>5. streams \in [Conn -> Seq(Message)]
      BY <2>4 DEF Init
    <2>2. Batch \in Nat
      BY DeliveryAssumption
    <2>3. \A c \in Conn : IsFiniteSet(handlers[c].batch) /\ Cardinality(handlers[c].batch) <= Batch
      <3>1. TAKE c \in Conn
      <3>2. handlers[c].batch = {}
        BY <1>1
      <3>3. IsFiniteSet(handlers[c].batch) /\ Cardinality(handlers[c].batch) = 0
        BY <1>2, <3>2, Zenon
      <3> QED BY <2>2, <3>3
    <2> QED BY <2>1, <2>3, <2>5 DEF Init, TypeOK
  <1>4. \A c \in Conn : Shown(c) = {} /\ Ahead(c) = {}
    BY <1>1 DEF Shown, Entries, Ahead, Unwritten, Pending, Init
  <1>5. Stamps /\ FiniteRows
    BY <1>2 DEF Stamps, FiniteRows, Init
  <1>6. AllStored /\ Batches /\ InOrder
    BY <1>1, <1>4 DEF AllStored, Batches, InOrder, Init, At
  <1>7. SenderOrder
    BY <1>1 DEF SenderOrder
  <1>8. MarkedWasSent
    BY DEF MarkedWasSent, Init
  <1>9. \A c \in Conn : handlers[c].written \subseteq Shown(c) \cup lost
    BY <1>1
  <1> QED BY <1>3, <1>4, <1>5, <1>6, <1>7, <1>8, <1>9 DEF DInv, SentInv

\* Every step keeps the types and adds one row at most.
LEMMA StepTypes == TypeOK /\ FiniteRows /\ [Next]_vars => TypeOK' /\ FiniteRows'
  <1> SUFFICES ASSUME TypeOK, FiniteRows, [Next]_vars PROVE TypeOK' /\ FiniteRows'
    OBVIOUS
  <1> USE DEF TypeOK, FiniteRows
  <1>1. ASSUME NEW m \in Message, Enqueue(m) PROVE TypeOK' /\ FiniteRows'
    BY <1>1 DEF Enqueue
  <1>2. ASSUME NEW m \in Message, Create(m) PROVE TypeOK' /\ FiniteRows'
    <2>1. IsFiniteSet(rows')
      BY <1>2, FS_AddElement DEF Create
    <2> QED BY <1>2, <2>1 DEF Create
  <1>3. ASSUME NEW c \in Conn, Connect(c) PROVE TypeOK' /\ FiniteRows'
    BY <1>3 DEF Connect, Goto, Handler
  <1>4. ASSUME NEW c \in Conn, ReadPending(c) PROVE TypeOK' /\ FiniteRows'
    <2>1. PICK B \in SUBSET Pending(DeviceOf[c]) :
            /\ Page(DeviceOf[c], B)
            /\ handlers' = [handlers EXCEPT ![c] = [@ EXCEPT !.stage = "writing", !.batch = B]]
      BY <1>4 DEF ReadPending
    <2>2. DeviceOf[c] \in Device
      BY DeliveryAssumption
    <2>3. IsFiniteSet(B) /\ Cardinality(B) <= Batch /\ B \subseteq Message
      <3>1. Pending(DeviceOf[c]) \subseteq Message
        BY DEF Pending
      <3> QED BY <2>1, <2>2, <3>1, PageBound
    <2>4. handlers' \in [Conn -> Handler]
      BY <2>1, <2>3 DEF Handler
    <2>5. \A x \in Conn : handlers'[x].batch = IF x = c THEN B ELSE handlers[x].batch
      BY <2>1 DEF Handler
    <2> QED BY <1>4, <2>3, <2>4, <2>5 DEF ReadPending
  <1>5. ASSUME NEW c \in Conn, NEW m \in Message, WriteFrame(c, m) PROVE TypeOK' /\ FiniteRows'
    <2>1. handlers' \in [Conn -> Handler]
      <3>1. handlers' = [handlers EXCEPT ![c].written = @ \cup {m}] \/ Goto(c, "closed")
        BY <1>5 DEF WriteFrame
      <3>2. handlers' = [handlers EXCEPT ![c].written = @ \cup {m}] => handlers' \in [Conn -> Handler]
        <4>1. handlers[c].written \cup {m} \in SUBSET Message
          BY DEF Handler
        <4>2. [handlers[c] EXCEPT !.written = @ \cup {m}] \in Handler
          BY <4>1 DEF Handler
        <4> QED BY <4>2
      <3>3. Goto(c, "closed") => handlers' \in [Conn -> Handler]
        <4>1. [handlers[c] EXCEPT !.stage = "closed"] \in Handler
          BY DEF Handler
        <4> QED BY <4>1 DEF Goto
      <3> QED BY <3>1, <3>2, <3>3
    <2>2. \A x \in Conn : handlers'[x].batch = handlers[x].batch
      <3>1. handlers' = [handlers EXCEPT ![c].written = @ \cup {m}] \/ Goto(c, "closed")
        BY <1>5 DEF WriteFrame
      <3>2. CASE handlers' = [handlers EXCEPT ![c].written = @ \cup {m}]
        <4>1. [handlers[c] EXCEPT !.written = @ \cup {m}].batch = handlers[c].batch
          BY DEF Handler
        <4> QED BY <3>2, <4>1
      <3>3. CASE Goto(c, "closed")
        <4>1. [handlers[c] EXCEPT !.stage = "closed"].batch = handlers[c].batch
          BY DEF Handler
        <4> QED BY <3>3, <4>1 DEF Goto
      <3> QED BY <3>1, <3>2, <3>3
    <2>5. lost' \subseteq Message
      BY <1>5 DEF WriteFrame
    <2>3. Append(streams[c], m) \in Seq(Message)
      BY ShownAppend
    <2>4. streams' \in [Conn -> Seq(Message)]
      BY <1>5, <2>3 DEF WriteFrame
    <2> QED BY <1>5, <2>1, <2>2, <2>4, <2>5 DEF WriteFrame
  <1>6. ASSUME NEW c \in Conn, MarkDelivered(c) PROVE TypeOK' /\ FiniteRows'
    <2>1. handlers' \in [Conn -> Handler]
      BY <1>6 DEF MarkDelivered, Handler
    <2>2. \A x \in Conn : handlers'[x].batch = IF x = c THEN {} ELSE handlers[x].batch
      BY <1>6 DEF MarkDelivered, Handler
    <2>3. IsFiniteSet({}) /\ Cardinality({}) = 0 /\ Batch \in Nat
      BY FS_EmptySet, DeliveryAssumption
    <2>4. \A x \in Conn : IsFiniteSet(handlers'[x].batch) /\ Cardinality(handlers'[x].batch) <= Batch
      BY <2>2, <2>3, SMTT(30)
    <2>5. delivered' \subseteq Message
      BY <1>6 DEF MarkDelivered
    <2> QED BY <1>6, <2>1, <2>4, <2>5 DEF MarkDelivered
  <1>7. ASSUME NEW c \in Conn, PingFails(c) PROVE TypeOK' /\ FiniteRows'
    BY <1>7 DEF PingFails, Goto, Handler
  <1>8. ASSUME NEW c \in Conn, Break(c) PROVE TypeOK' /\ FiniteRows'
    <2>1. handlers' \in [Conn -> Handler]
      BY <1>8 DEF Break, Handler
    <2>2. \A x \in Conn : handlers'[x].batch = handlers[x].batch
      BY <1>8 DEF Break, Handler
    <2> QED BY <1>8, <2>1, <2>2 DEF Break, Failing
  <1>9. ASSUME NEW c \in Conn, Abort(c) PROVE TypeOK' /\ FiniteRows'
    <2>1. handlers' \in [Conn -> Handler]
      BY <1>9 DEF Abort, Goto, Handler
    <2>2. \A x \in Conn : handlers'[x].batch = handlers[x].batch
      BY <1>9 DEF Abort, Goto, Handler
    <2> QED BY <1>9, <2>1, <2>2 DEF Abort, Failing
  <1>10. ASSUME NEW d \in Device, DeleteForDevice(d) PROVE TypeOK' /\ FiniteRows'
    <2>1. rows' \subseteq rows
      BY <1>10 DEF DeleteForDevice
    <2>2. IsFiniteSet(rows')
      BY <2>1, FS_Subset
    <2> QED BY <1>10, <2>1, <2>2 DEF DeleteForDevice
  <1>11. CASE UNCHANGED vars
    BY <1>11 DEF vars
  <1> QED BY <1>1, <1>2, <1>3, <1>4, <1>5, <1>6, <1>7, <1>8, <1>9, <1>10, <1>11 DEF Next, Handle

-----------------------------------------------------------------------------
(* What the steps do to a batch and to a stream.                           *)

Same(c) == /\ handlers'[c].batch = handlers[c].batch
           /\ handlers'[c].written = handlers[c].written
           /\ streams'[c] = streams[c]

\* Opening, breaking and ending a connection moves no envelope.
LEMMA QuietEffect ==
    ASSUME TypeOK, NEW c \in Conn, Connect(c) \/ PingFails(c) \/ Break(c) \/ Abort(c)
    PROVE  /\ UNCHANGED <<requests, sentAt, clock, rows, delivered, streams, lost>>
           /\ \A x \in Conn : /\ Same(x)
                              /\ At(x, "unopened")' \/ At(x, "polling")' =>
                                    At(x, "unopened") \/ At(x, "polling")
  <1> USE DEF Same, At, TypeOK, Handler
  <1>1. CASE Connect(c)
    BY <1>1 DEF Connect, Goto
  <1>2. CASE PingFails(c)
    BY <1>2 DEF PingFails, Goto
  <1>3. CASE Break(c)
    BY <1>3 DEF Break
  <1>4. CASE Abort(c)
    BY <1>4 DEF Abort, Goto
  <1> QED BY <1>1, <1>2, <1>3, <1>4

LEMMA ReadEffect ==
    ASSUME TypeOK, FiniteRows, NEW c \in Conn, ReadPending(c)
    PROVE  /\ UNCHANGED <<requests, sentAt, clock, rows, delivered, streams, lost>>
           /\ At(c, "polling")
           /\ \A x \in Conn \ {c} : Same(x) /\ handlers'[x].stage = handlers[x].stage
           /\ handlers'[c].stage = "writing"
           /\ handlers'[c].written = handlers[c].written
           /\ handlers'[c].batch \subseteq Pending(DeviceOf[c])
           /\ FirstOf(handlers'[c].batch, Pending(DeviceOf[c]))
  <1>1. PICK B \in SUBSET Pending(DeviceOf[c]) :
          /\ Page(DeviceOf[c], B)
          /\ handlers' = [handlers EXCEPT ![c] = [@ EXCEPT !.stage = "writing", !.batch = B]]
    BY DEF ReadPending
  <1>2. FirstOf(B, Pending(DeviceOf[c]))
    BY <1>1 DEF Page
  <1>3. /\ handlers'[c].batch = B
        /\ handlers'[c].stage = "writing"
        /\ handlers'[c].written = handlers[c].written
    BY <1>1 DEF TypeOK, Handler
  <1>4. UNCHANGED <<requests, sentAt, clock, rows, delivered, streams, lost>> /\ At(c, "polling")
    BY DEF ReadPending
  <1>5. \A x \in Conn \ {c} : handlers'[x] = handlers[x]
    BY <1>1 DEF TypeOK
  <1> QED BY <1>2, <1>3, <1>4, <1>5 DEF Same

LEMMA WriteEffect ==
    ASSUME TypeOK, NEW c \in Conn, NEW m \in Message, WriteFrame(c, m)
    PROVE  /\ UNCHANGED <<requests, sentAt, clock, rows, delivered>>
           /\ m \in Unwritten(c) /\ FirstOf({m}, Unwritten(c))
           /\ \A x \in Conn \ {c} : Same(x) /\ handlers'[x].stage = handlers[x].stage
           /\ handlers'[c].stage \in {"writing", "closed"}
           /\ handlers'[c].batch = handlers[c].batch
           /\ \/ /\ handlers'[c].written = handlers[c].written \cup {m}
                 /\ \/ streams'[c] = Append(streams[c], m) /\ lost' = lost
                    \/ streams'[c] = streams[c] /\ lost' = lost \cup {m}
              \/ /\ handlers'[c].written = handlers[c].written
                 /\ streams'[c] = streams[c] /\ lost' = lost
  <1> USE DEF TypeOK, Handler
  <1>1. UNCHANGED <<requests, sentAt, clock, rows, delivered>>
        /\ m \in Unwritten(c) /\ FirstOf({m}, Unwritten(c)) /\ At(c, "writing")
    BY DEF WriteFrame
  <1>2. CASE /\ streams' = [streams EXCEPT ![c] = Append(@, m)]
             /\ handlers' = [handlers EXCEPT ![c].written = @ \cup {m}]
             /\ lost' = lost
    BY <1>1, <1>2 DEF Same, At
  <1>3. CASE /\ lost' = lost \cup {m} /\ streams' = streams
             /\ handlers' = [handlers EXCEPT ![c].written = @ \cup {m}]
    BY <1>1, <1>3 DEF Same, At
  <1>4. CASE Goto(c, "closed") /\ streams' = streams /\ lost' = lost
    BY <1>1, <1>4 DEF Same, At, Goto
  <1> QED BY <1>2, <1>3, <1>4 DEF WriteFrame

LEMMA MarkEffect ==
    ASSUME TypeOK, NEW c \in Conn, MarkDelivered(c)
    PROVE  /\ UNCHANGED <<requests, sentAt, clock, rows, streams, lost>>
           /\ Unwritten(c) = {}
           /\ delivered' = delivered \cup (handlers[c].batch \cap rows)
           /\ \A x \in Conn \ {c} : Same(x) /\ handlers'[x].stage = handlers[x].stage
           /\ handlers'[c].stage = "polling"
           /\ handlers'[c].batch = {} /\ handlers'[c].written = {}
  BY DEF MarkDelivered, TypeOK, Handler, Same

-----------------------------------------------------------------------------
(* The invariant.                                                          *)

LEMMA StepStamps == TypeOK /\ Stamps /\ [Next]_vars => Stamps'
  <1> SUFFICES ASSUME TypeOK, Stamps, [Next]_vars PROVE Stamps'
    OBVIOUS
  <1>1. ASSUME NEW m \in Message, Enqueue(m) PROVE Stamps'
    <2>1. \A x \in Message : /\ requests'[x] = IF x = m THEN "stamped" ELSE requests[x]
                            /\ sentAt'[x] = IF x = m THEN clock ELSE sentAt[x]
      BY <1>1 DEF Enqueue, TypeOK
    <2>2. clock' = clock + 1 /\ clock \in Nat /\ \A x \in Message : sentAt[x] \in Nat
      BY <1>1 DEF Enqueue, TypeOK
    <2>3. requests[m] = "new" /\ \A x \in Message : From[x] = From[m] => requests[x] # "stamped"
      BY <1>1 DEF Enqueue, InFlight
    <2> QED BY <2>1, <2>2, <2>3 DEF Stamps, Earlier
  <1>2. ASSUME NEW m \in Message, Create(m) PROVE Stamps'
    <2>1. ASSUME NEW y \in Message, NEW x \in Message, requests'[y] = "stamped",
                 requests'[x] = "stored", From[y] = From[x]
          PROVE  Earlier(x, y)'
      <3>1. y # m /\ requests[y] = "stamped"
        BY <1>2, <2>1 DEF Create, TypeOK
      <3>2. x # m => requests[x] = "stored"
        BY <1>2, <2>1 DEF Create, TypeOK
      <3>3. x = m \/ requests[x] = "stored"
        BY <3>2
      <3>4. Earlier(x, y)
        <4>1. CASE x = m
          BY <4>1, <3>1, <1>2, <2>1 DEF Create, Stamps
        <4>2. CASE requests[x] = "stored"
          BY <4>2, <3>1, <2>1 DEF Stamps
        <4> QED BY <3>3, <4>1, <4>2
      <3> QED BY <3>4, <1>2 DEF Create, Earlier
    <2> QED BY <1>2, <2>1 DEF Create, Stamps, TypeOK
  <1>3. CASE UNCHANGED <<requests, sentAt, clock>>
    BY <1>3 DEF Stamps, Earlier
  <1>4. ASSUME NEW c \in Conn, Connect(c) \/ Handle(c) \/ Break(c) \/ Abort(c)
        PROVE  UNCHANGED <<requests, sentAt, clock>>
    BY <1>4 DEF Connect, Handle, ReadPending, WriteFrame, MarkDelivered, PingFails, Break, Abort
  <1> QED BY <1>1, <1>2, <1>3, <1>4 DEF Next, DeleteForDevice, vars

LEMMA StepStored == TypeOK /\ FiniteRows /\ AllStored /\ Batches /\ [Next]_vars => AllStored' /\ Batches'
  <1> SUFFICES ASSUME TypeOK, FiniteRows, AllStored, Batches, [Next]_vars
               PROVE  AllStored' /\ Batches'
    OBVIOUS
  <1> USE DEF AllStored, Batches
  <1>1. ASSUME UNCHANGED <<handlers, streams>>, Stored \subseteq Stored', rows' \subseteq Stored'
        PROVE  AllStored' /\ Batches'
    BY <1>1 DEF Shown, At
  <1>2. ASSUME NEW m \in Message, Enqueue(m) PROVE AllStored' /\ Batches'
    <2>1. Stored' = Stored
      BY <1>2 DEF Enqueue, Stored, TypeOK
    <2> QED BY <1>1, <1>2, <2>1 DEF Enqueue
  <1>3. ASSUME NEW m \in Message, Create(m) PROVE AllStored' /\ Batches'
    <2>1. Stored' = Stored \cup {m}
      BY <1>3 DEF Create, Stored, TypeOK
    <2> QED BY <1>1, <1>3, <2>1 DEF Create
  <1>4. ASSUME NEW c \in Conn, Connect(c) \/ PingFails(c) \/ Break(c) \/ Abort(c)
        PROVE  AllStored' /\ Batches'
    <2>1. Stored' = Stored /\ rows' = rows
      BY <1>4, QuietEffect DEF Stored
    <2>2. \A x \in Conn : Same(x) /\ Shown(x)' = Shown(x)
      BY <1>4, QuietEffect DEF Shown
    <2>3. \A x \in Conn : At(x, "unopened")' \/ At(x, "polling")' =>
                            At(x, "unopened") \/ At(x, "polling")
      BY <1>4, QuietEffect
    <2> QED BY <2>1, <2>2, <2>3 DEF Same
  <1>5. ASSUME NEW c \in Conn, ReadPending(c) PROVE AllStored' /\ Batches'
    <2>1. Stored' = Stored /\ rows' = rows /\ \A x \in Conn : Shown(x)' = Shown(x)
      BY <1>5, ReadEffect DEF Stored, Shown
    <2>2. \A x \in Conn \ {c} : Same(x) /\ handlers'[x].stage = handlers[x].stage
      BY <1>5, ReadEffect
    <2>3. handlers[c].batch = {} /\ handlers'[c].written = handlers[c].written
      BY <1>5, ReadEffect
    <2>4. handlers'[c].batch \subseteq rows /\ handlers'[c].stage = "writing"
      BY <1>5, ReadEffect DEF Pending
    <2> QED BY <2>1, <2>2, <2>3, <2>4 DEF Same, At
  <1>6. ASSUME NEW c \in Conn, NEW m \in Message, WriteFrame(c, m) PROVE AllStored' /\ Batches'
    <2>0. /\ UNCHANGED <<requests, rows>>
          /\ \A x \in Conn \ {c} : Same(x) /\ handlers'[x].stage = handlers[x].stage
      BY <1>6, WriteEffect
    <2>1. Stored' = Stored /\ rows' = rows
      BY <2>0 DEF Stored
    <2>2. \A x \in Conn \ {c} : Same(x) /\ handlers'[x].stage = handlers[x].stage /\ Shown(x)' = Shown(x)
      BY <2>0 DEF Same, Shown
    <2>3. m \in handlers[c].batch /\ handlers'[c].batch = handlers[c].batch
          /\ handlers'[c].written \subseteq handlers[c].written \cup {m}
          /\ handlers'[c].stage \in {"writing", "closed"}
      BY <1>6, WriteEffect DEF Unwritten
    <2>4. Shown(c)' \subseteq Shown(c) \cup {m}
      <3>1. streams'[c] = Append(streams[c], m) \/ streams'[c] = streams[c]
        BY <1>6, WriteEffect
      <3>2. streams[c] \in Seq(Message)
        BY DEF TypeOK
      <3> QED BY <3>1, <3>2, ShownAppend DEF Shown
    <2>5. m \in Stored /\ handlers[c].batch \subseteq Stored /\ Shown(c) \subseteq Stored
      BY <2>3
    <2>6. AllStored'
      BY <2>1, <2>2, <2>3, <2>4, <2>5 DEF Same
    <2>7. Batches'
      BY <2>2, <2>3 DEF Same, At
    <2> QED BY <2>6, <2>7
  <1>7. ASSUME NEW c \in Conn, MarkDelivered(c) PROVE AllStored' /\ Batches'
    <2>1. Stored' = Stored /\ rows' = rows /\ \A x \in Conn : Shown(x)' = Shown(x)
      BY <1>7, MarkEffect DEF Stored, Shown
    <2>2. \A x \in Conn \ {c} : Same(x) /\ handlers'[x].stage = handlers[x].stage
      BY <1>7, MarkEffect
    <2>3. handlers'[c].batch = {} /\ handlers'[c].written = {}
      BY <1>7, MarkEffect
    <2>4. AllStored'
      BY <2>1, <2>2, <2>3 DEF Same
    <2>5. Batches'
      BY <2>2, <2>3 DEF Same, At
    <2> QED BY <2>4, <2>5
  <1>8. ASSUME NEW d \in Device, DeleteForDevice(d) PROVE AllStored' /\ Batches'
    <2>1. Stored' = Stored /\ rows' \subseteq rows
      BY <1>8 DEF DeleteForDevice, Stored
    <2> QED BY <1>1, <1>8, <2>1 DEF DeleteForDevice
  <1>9. CASE UNCHANGED vars
    BY <1>1, <1>9 DEF vars, Stored
  <1> QED BY <1>2, <1>3, <1>4, <1>5, <1>6, <1>7, <1>8, <1>9 DEF Next, Handle

\* Stamps of stored envelopes do not change.
LEMMA StoredStamps ==
    ASSUME TypeOK, NEW m \in Message, Enqueue(m)
    PROVE  \A x, y \in Stored : Earlier(x, y) <=> Earlier(x, y)'
  BY DEF TypeOK, Enqueue, Stored, Earlier

LEMMA AheadStored ==
    ASSUME AllStored, NEW c \in Conn
    PROVE  Ahead(c) \subseteq Stored
  BY DEF AllStored, Ahead, Unwritten, Pending

\* Connection c has less to show, and its batch is kept or dropped.
Shrinks(c) == /\ Ahead(c)' \subseteq Ahead(c) /\ Shown(c)' \subseteq Shown(c)
              /\ handlers'[c].batch = handlers[c].batch \/ handlers'[c].batch = {}

LEMMA StepInOrder ==
    TypeOK /\ FiniteRows /\ Stamps /\ AllStored /\ Batches /\ InOrder /\ [Next]_vars => InOrder'
  <1> SUFFICES ASSUME TypeOK, FiniteRows, Stamps, AllStored, Batches, InOrder, [Next]_vars
               PROVE  InOrder'
    OBVIOUS
  <1>1. ASSUME NEW m \in Message, Enqueue(m) PROVE InOrder'
    <2>1. \A x \in Conn : /\ Shown(x)' = Shown(x) /\ Ahead(x)' = Ahead(x)
                          /\ handlers'[x].batch = handlers[x].batch
      BY <1>1 DEF Enqueue, Shown, Ahead, Unwritten, Pending
    <2>2. \A x \in Conn : Shown(x) \subseteq Stored /\ handlers[x].batch \subseteq Stored
                          /\ Ahead(x) \subseteq Stored
      BY AheadStored DEF AllStored
    <2>3. \A x, y \in Stored : Earlier(x, y) <=> Earlier(x, y)'
      BY <1>1, StoredStamps
    <2> QED BY <2>1, <2>2, <2>3 DEF InOrder
  <1>2. ASSUME NEW m \in Message, Create(m) PROVE InOrder'
    <2>1. \A x \in Conn : /\ Shown(x)' = Shown(x) /\ Ahead(x)' \subseteq Ahead(x) \cup {m}
                          /\ handlers'[x].batch = handlers[x].batch
      BY <1>2 DEF Create, Shown, Ahead, Unwritten, Pending
    <2>2. \A y \in Stored : From[y] = From[m] => Earlier(y, m)
      BY <1>2 DEF Create, Stamps, Stored
    <2>3. \A x \in Conn : Shown(x) \subseteq Stored /\ handlers[x].batch \subseteq Stored
      BY DEF AllStored
    <2>4. \A x, y : Earlier(x, y)' <=> Earlier(x, y)
      BY <1>2 DEF Create, Earlier
    <2> QED BY <2>1, <2>2, <2>3, <2>4 DEF InOrder
  <1>3. ASSUME UNCHANGED sentAt, \A x \in Conn : Shrinks(x)
        PROVE  InOrder'
    <2>1. ASSUME NEW x \in Conn
          PROVE  \A m \in Ahead(x)' :
                   /\ \A w \in Shown(x)' : From[w] = From[m] => Earlier(w, m)'
                   /\ \A y \in handlers'[x].batch :
                        m \notin handlers'[x].batch /\ From[y] = From[m] => Earlier(y, m)'
      <3>1. Shrinks(x)
        BY <1>3
      <3>2. \A y, z : Earlier(y, z)' <=> Earlier(y, z)
        BY <1>3 DEF Earlier
      <3>3. /\ Ahead(x)' \subseteq Ahead(x) /\ Shown(x)' \subseteq Shown(x)
            /\ handlers'[x].batch = handlers[x].batch \/ handlers'[x].batch = {}
        BY <3>1 DEF Shrinks
      <3> QED BY <3>2, <3>3 DEF InOrder
    <2> QED BY <2>1 DEF InOrder
  <1>4. ASSUME NEW c \in Conn, Connect(c) \/ PingFails(c) \/ Break(c) \/ Abort(c) PROVE InOrder'
    <2>1. UNCHANGED <<sentAt, rows, delivered>> /\ \A x \in Conn : Same(x)
      BY <1>4, QuietEffect
    <2>2. \A x \in Conn : Shrinks(x)
      BY <2>1 DEF Same, Shrinks, Ahead, Unwritten, Pending, Shown
    <2> QED BY <1>3, <2>1, <2>2
  <1>5. ASSUME NEW c \in Conn, ReadPending(c) PROVE InOrder'
    <2>1. /\ UNCHANGED <<sentAt, rows, delivered, streams>>
          /\ \A x \in Conn \ {c} : Same(x)
      BY <1>5, ReadEffect
    <2>2. /\ handlers[c].batch = {}
          /\ handlers'[c].batch \subseteq Pending(DeviceOf[c])
          /\ FirstOf(handlers'[c].batch, Pending(DeviceOf[c]))
      BY <1>5, ReadEffect DEF Batches
    <2>3. /\ \A x \in Conn : Shown(x)' = Shown(x)
          /\ \A x \in Conn \ {c} : Ahead(x)' = Ahead(x) /\ handlers'[x].batch = handlers[x].batch
      BY <2>1 DEF Same, Ahead, Unwritten, Pending, Shown
    <2>4. Ahead(c) = Pending(DeviceOf[c]) /\ Ahead(c)' \subseteq Pending(DeviceOf[c])
      BY <2>1, <2>2 DEF Ahead, Unwritten, Pending, Batches
    <2>5. \A x, y : Earlier(x, y)' <=> Earlier(x, y)
      BY <2>1 DEF Earlier
    <2>6. \A x \in handlers'[c].batch, m \in Ahead(c)' : m \notin handlers'[c].batch => Earlier(x, m)
      BY <2>2, <2>4 DEF FirstOf
    <2> QED BY <2>3, <2>4, <2>5, <2>6 DEF InOrder
  <1>6. ASSUME NEW c \in Conn, NEW m \in Message, WriteFrame(c, m) PROVE InOrder'
    <2>1. /\ UNCHANGED <<sentAt, rows, delivered>>
          /\ \A x \in Conn \ {c} : Same(x)
          /\ m \in Unwritten(c) /\ FirstOf({m}, Unwritten(c))
          /\ handlers'[c].batch = handlers[c].batch
      BY <1>6, WriteEffect
    <2>2. /\ \A x, y : Earlier(x, y)' <=> Earlier(x, y)
          /\ \A d \in Device : Pending(d)' = Pending(d)
          /\ \A x \in Conn \ {c} : Ahead(x)' = Ahead(x) /\ Shown(x)' = Shown(x)
                                    /\ handlers'[x].batch = handlers[x].batch
      BY <2>1 DEF Earlier, Same, Ahead, Unwritten, Pending, Shown
    <2>3. \/ handlers'[c].written = handlers[c].written \cup {m} /\ Shown(c)' \subseteq Shown(c) \cup {m}
          \/ handlers'[c].written = handlers[c].written /\ Shown(c)' = Shown(c)
      <3>1. streams[c] \in Seq(Message)
        BY DEF TypeOK
      <3>2. \/ handlers'[c].written = handlers[c].written \cup {m} /\ streams'[c] = Append(streams[c], m)
            \/ handlers'[c].written = handlers[c].written \cup {m} /\ streams'[c] = streams[c]
            \/ handlers'[c].written = handlers[c].written /\ streams'[c] = streams[c]
        BY <1>6, WriteEffect
      <3>3. streams'[c] = Append(streams[c], m) => Shown(c)' = Shown(c) \cup {m}
        BY <3>1, ShownAppend DEF Shown
      <3>4. streams'[c] = streams[c] => Shown(c)' = Shown(c)
        BY DEF Shown
      <3> QED BY <3>2, <3>3, <3>4
    <2>4. DeviceOf[c] \in Device
      BY DeliveryAssumption
    <2>5. CASE handlers'[c].written = handlers[c].written /\ Shown(c)' = Shown(c)
      <3>1. Ahead(c)' = Ahead(c)
        BY <2>1, <2>2, <2>4, <2>5 DEF Ahead, Unwritten
      <3> QED BY <2>1, <2>2, <2>5, <3>1 DEF InOrder
    <2>6. CASE handlers'[c].written = handlers[c].written \cup {m} /\ Shown(c)' \subseteq Shown(c) \cup {m}
      <3>1. Ahead(c)' = (Unwritten(c) \ {m}) \cup (Pending(DeviceOf[c]) \ handlers[c].batch)
        BY <2>1, <2>2, <2>4, <2>6 DEF Ahead, Unwritten
      <3>2. Ahead(c)' \subseteq Ahead(c)
        BY <3>1 DEF Ahead
      <3>3. ASSUME NEW y \in Ahead(c)', From[y] = From[m] PROVE Earlier(m, y)
        <4>1. CASE y \in Unwritten(c) \ {m}
          BY <4>1, <2>1 DEF FirstOf
        <4>2. CASE y \in Pending(DeviceOf[c]) \ handlers[c].batch
          BY <4>2, <2>1, <3>2, <3>3 DEF InOrder, Unwritten
        <4> QED BY <3>1, <4>1, <4>2
      <3>4. \A y \in Ahead(c)' :
              /\ \A w \in Shown(c)' : From[w] = From[y] => Earlier(w, y)
              /\ \A x \in handlers[c].batch :
                   y \notin handlers[c].batch /\ From[x] = From[y] => Earlier(x, y)
        <4> TAKE y \in Ahead(c)'
        <4>1. y \in Ahead(c)
          BY <3>2
        <4>2. \A w \in Shown(c) : From[w] = From[y] => Earlier(w, y)
          BY <4>1 DEF InOrder
        <4>3. \A w \in Shown(c)' : w \in Shown(c) \/ w = m
          BY <2>6
        <4>4. \A x \in handlers[c].batch :
                y \notin handlers[c].batch /\ From[x] = From[y] => Earlier(x, y)
          BY <4>1 DEF InOrder
        <4> QED BY <3>3, <4>2, <4>3, <4>4
      <3> QED BY <2>1, <2>2, <3>4 DEF InOrder
    <2> QED BY <2>3, <2>5, <2>6
  <1>7. ASSUME NEW c \in Conn, MarkDelivered(c) PROVE InOrder'
    <2>1. /\ UNCHANGED <<sentAt, rows, streams>>
          /\ delivered' = delivered \cup (handlers[c].batch \cap rows)
          /\ \A x \in Conn \ {c} : Same(x)
          /\ handlers'[c].batch = {}
      BY <1>7, MarkEffect
    <2>2. \A d \in Device : Pending(d)' = Pending(d) \ handlers[c].batch
      BY <2>1 DEF Pending
    <2>3. DeviceOf \in [Conn -> Device]
      BY DeliveryAssumption
    <2>4. \A x \in Conn \ {c} : Ahead(x)' \subseteq Ahead(x)
      BY <2>1, <2>2, <2>3 DEF Ahead, Unwritten, Same
    <2>5. Ahead(c)' \subseteq Ahead(c)
      BY <2>1, <2>2, <2>3 DEF Ahead, Unwritten
    <2>6. \A x \in Conn : Shown(x)' = Shown(x)
      BY <2>1 DEF Shown
    <2>7. ASSUME NEW x \in Conn PROVE Shrinks(x)
      <3>1. CASE x = c
        BY <3>1, <2>1, <2>5, <2>6 DEF Shrinks
      <3>2. CASE x # c
        <4>1. Same(x) /\ Ahead(x)' \subseteq Ahead(x)
          BY <3>2, <2>1, <2>4
        <4> QED BY <4>1 DEF Same, Shrinks, Shown
      <3> QED BY <3>1, <3>2
    <2> QED BY <1>3, <2>1, <2>7
  <1>8. ASSUME NEW d \in Device, DeleteForDevice(d) PROVE InOrder'
    <2>1. UNCHANGED <<sentAt, handlers, streams, delivered>> /\ rows' \subseteq rows
      BY <1>8 DEF DeleteForDevice
    <2>2. \A x \in Conn : Shrinks(x)
      BY <2>1 DEF Shrinks, Ahead, Unwritten, Pending, Shown
    <2> QED BY <1>3, <2>1, <2>2
  <1>9. CASE UNCHANGED vars
    <2>1. \A x \in Conn : Shrinks(x)
      BY <1>9 DEF vars, Shrinks, Ahead, Unwritten, Pending, Shown
    <2> QED BY <1>3, <1>9, <2>1 DEF vars
  <1> QED BY <1>1, <1>2, <1>4, <1>5, <1>6, <1>7, <1>8, <1>9 DEF Next, Handle

\* Only a written frame makes a stream longer, and stamps of what was shown
\* do not change.
LEMMA StepSenderOrder ==
    TypeOK /\ FiniteRows /\ AllStored /\ InOrder /\ SenderOrder /\ [Next]_vars => SenderOrder'
  <1> SUFFICES ASSUME TypeOK, FiniteRows, AllStored, InOrder, SenderOrder, [Next]_vars
               PROVE  SenderOrder'
    OBVIOUS
  <1>1. CASE UNCHANGED <<sentAt, streams>>
    BY <1>1 DEF SenderOrder, Earlier
  <1>2. ASSUME NEW m \in Message, Enqueue(m) PROVE SenderOrder'
    <2>1. \A x, y \in Stored : Earlier(x, y) <=> Earlier(x, y)'
      BY <1>2, StoredStamps
    <2>2. \A c \in Conn : \A i \in DOMAIN streams[c] : streams[c][i] \in Stored
      BY DEF AllStored, Shown, Entries
    <2>3. streams' = streams
      BY <1>2 DEF Enqueue
    <2> QED BY <2>1, <2>2, <2>3 DEF SenderOrder
  <1>3. ASSUME NEW c \in Conn, NEW m \in Message, WriteFrame(c, m) PROVE SenderOrder'
    <2>1. /\ sentAt' = sentAt /\ m \in Unwritten(c)
          /\ \A x \in Conn \ {c} : Same(x)
          /\ streams'[c] = Append(streams[c], m) \/ streams'[c] = streams[c]
      BY <1>3, WriteEffect
    <2>2. \A x, y : Earlier(x, y)' <=> Earlier(x, y)
      BY <2>1 DEF Earlier
    <2>3. \A x \in Conn \ {c} : streams'[x] = streams[x]
      BY <2>1 DEF Same
    <2>4. CASE streams'[c] = streams[c]
      BY <2>2, <2>3, <2>4 DEF SenderOrder
    <2>5. CASE streams'[c] = Append(streams[c], m)
      <3>1. /\ Len(streams[c]) \in Nat
            /\ DOMAIN streams[c] = 1 .. Len(streams[c])
            /\ DOMAIN streams'[c] = 1 .. (Len(streams[c]) + 1)
            /\ \A i \in 1 .. Len(streams[c]) : streams'[c][i] = streams[c][i]
            /\ streams'[c][Len(streams[c]) + 1] = m
        BY <2>5, AppendProperties, LenProperties DEF TypeOK
      <3>2. \A i \in DOMAIN streams[c] : From[streams[c][i]] = From[m] => Earlier(streams[c][i], m)
        BY <2>1 DEF InOrder, Ahead, Shown, Entries
      <3>3. ASSUME NEW i \in DOMAIN streams'[c], NEW j \in DOMAIN streams'[c],
                   From[streams'[c][i]] = From[streams'[c][j]], i < j
            PROVE  Earlier(streams'[c][i], streams'[c][j])
        <4>1. i \in DOMAIN streams[c] /\ streams'[c][i] = streams[c][i]
          BY <3>1, <3>3
        <4>2. CASE j \in DOMAIN streams[c]
          BY <4>1, <4>2, <3>1, <3>3 DEF SenderOrder
        <4>3. CASE j = Len(streams[c]) + 1
          BY <4>1, <4>3, <3>1, <3>2, <3>3
        <4> QED BY <3>1, <4>2, <4>3
      <3> QED BY <2>2, <2>3, <3>3 DEF SenderOrder
    <2> QED BY <2>1, <2>4, <2>5
  <1>4. ASSUME NEW c \in Conn, \/ Connect(c) \/ ReadPending(c) \/ MarkDelivered(c)
                               \/ PingFails(c) \/ Break(c) \/ Abort(c)
        PROVE  UNCHANGED <<sentAt, streams>>
    BY <1>4 DEF Connect, ReadPending, MarkDelivered, PingFails, Break, Abort
  <1> QED BY <1>1, <1>2, <1>3, <1>4 DEF Next, Handle, Create, DeleteForDevice, vars

LEMMA DStep == DInv /\ [Next]_vars => DInv'
  BY StepTypes, StepStamps, StepStored, StepInOrder, StepSenderOrder DEF DInv

\* Every frame counted as written is in the stream of its connection or lost,
\* and streams and losses only grow.
LEMMA StepSent == TypeOK /\ FiniteRows /\ Batches /\ SentInv /\ [Next]_vars => SentInv'
  <1> SUFFICES ASSUME TypeOK, FiniteRows, Batches, SentInv, [Next]_vars PROVE SentInv'
    OBVIOUS
  <1>0. \A m : Read(m) <=> \E c \in Conn : m \in Shown(c)
    BY DEF Read, Shown, Entries
  <1>1. ASSUME delivered' = delivered, lost \subseteq lost',
               \A x \in Conn : /\ Shown(x) \subseteq Shown(x)'
                              /\ handlers'[x].written \subseteq Shown(x)' \cup lost'
        PROVE  SentInv'
    <2>1. ASSUME NEW m \in delivered' PROVE Read(m)' \/ m \in lost'
      <3>1. CASE m \in lost
        BY <3>1, <1>1
      <3>2. CASE m \notin lost
        <4>1. PICK c \in Conn : m \in Shown(c)
          BY <1>0, <1>1, <2>1, <3>2 DEF SentInv, MarkedWasSent
        <4>2. m \in Shown(c)'
          BY <1>1, <4>1
        <4> QED BY <4>2 DEF Read, Shown, Entries
      <3> QED BY <3>1, <3>2
    <2> QED BY <1>1, <2>1 DEF SentInv, MarkedWasSent
  <1>2. ASSUME UNCHANGED <<delivered, streams, lost>>,
               \A x \in Conn : handlers'[x].written = handlers[x].written
        PROVE  SentInv'
    <2>1. \A x \in Conn : Shown(x)' = Shown(x)
      BY <1>2 DEF Shown
    <2> QED BY <1>1, <1>2, <2>1 DEF SentInv
  <1>3. ASSUME NEW m \in Message, Enqueue(m) \/ Create(m) PROVE SentInv'
    BY <1>2, <1>3 DEF Enqueue, Create
  <1>4. ASSUME NEW c \in Conn, Connect(c) \/ PingFails(c) \/ Break(c) \/ Abort(c) PROVE SentInv'
    <2>1. UNCHANGED <<delivered, streams, lost>> /\ \A x \in Conn : Same(x)
      BY <1>4, QuietEffect
    <2> QED BY <1>2, <2>1 DEF Same
  <1>5. ASSUME NEW c \in Conn, ReadPending(c) PROVE SentInv'
    <2>1. UNCHANGED <<delivered, streams, lost>> /\ handlers'[c].written = handlers[c].written
          /\ \A x \in Conn \ {c} : Same(x)
      BY <1>5, ReadEffect
    <2> QED BY <1>2, <2>1 DEF Same
  <1>6. ASSUME NEW c \in Conn, NEW m \in Message, WriteFrame(c, m) PROVE SentInv'
    <2>1. /\ delivered' = delivered /\ \A x \in Conn \ {c} : Same(x)
          /\ \/ /\ handlers'[c].written = handlers[c].written \cup {m}
                /\ \/ streams'[c] = Append(streams[c], m) /\ lost' = lost
                   \/ streams'[c] = streams[c] /\ lost' = lost \cup {m}
             \/ /\ handlers'[c].written = handlers[c].written
                /\ streams'[c] = streams[c] /\ lost' = lost
      BY <1>6, WriteEffect
    <2>2. lost \subseteq lost'
      BY <2>1
    <2>3. Shown(c) \subseteq Shown(c)' /\ handlers'[c].written \subseteq Shown(c)' \cup lost'
      <3>1. streams[c] \in Seq(Message) /\ handlers[c].written \subseteq Shown(c) \cup lost
        BY DEF TypeOK, SentInv
      <3>2. streams'[c] = Append(streams[c], m) => Shown(c)' = Shown(c) \cup {m}
        BY <3>1, ShownAppend DEF Shown
      <3>3. streams'[c] = streams[c] => Shown(c)' = Shown(c)
        BY DEF Shown
      <3> QED BY <2>1, <3>1, <3>2, <3>3
    <2>4. \A x \in Conn \ {c} : Shown(x)' = Shown(x) /\ handlers'[x].written = handlers[x].written
      BY <2>1 DEF Same, Shown
    <2>5. \A x \in Conn \ {c} : /\ Shown(x) \subseteq Shown(x)'
                              /\ handlers'[x].written \subseteq Shown(x)' \cup lost'
      BY <2>2, <2>4 DEF SentInv
    <2> QED BY <1>1, <2>1, <2>2, <2>3, <2>5
  <1>7. ASSUME NEW c \in Conn, MarkDelivered(c) PROVE SentInv'
    <2>1. /\ UNCHANGED <<streams, lost>> /\ Unwritten(c) = {}
          /\ delivered' = delivered \cup (handlers[c].batch \cap rows)
          /\ \A x \in Conn \ {c} : Same(x)
          /\ handlers'[c].written = {}
      BY <1>7, MarkEffect
    <2>2. handlers[c].batch \subseteq Shown(c) \cup lost
      BY <2>1 DEF Unwritten, SentInv
    <2>3. \A m \in delivered' : Read(m) \/ m \in lost
      BY <1>0, <2>1, <2>2 DEF SentInv, MarkedWasSent
    <2>4. MarkedWasSent'
      BY <2>1, <2>3 DEF MarkedWasSent, Read
    <2>5. \A x \in Conn : handlers'[x].written \subseteq Shown(x)' \cup lost'
      BY <2>1 DEF Same, Shown, SentInv
    <2> QED BY <2>4, <2>5 DEF SentInv
  <1>8. ASSUME NEW d \in Device, DeleteForDevice(d) PROVE SentInv'
    BY <1>2, <1>8 DEF DeleteForDevice
  <1>9. CASE UNCHANGED vars
    BY <1>2, <1>9 DEF vars
  <1> QED BY <1>3, <1>4, <1>5, <1>6, <1>7, <1>8, <1>9 DEF Next, Handle

-----------------------------------------------------------------------------
(* The theorems.                                                           *)

THEOREM DeliveryInvariant == Spec => []DInv
  <1>1. Init => DInv
    BY DInit
  <1> QED BY <1>1, DStep, PTL DEF Spec

\* The Messages service keeps its types, and no handler holds more than
\* Batch rows: the LIMIT of PendingForDevice.
THEOREM DeliveryTypeCorrect == Spec => []TypeOK
  <1>1. DInv => TypeOK
    BY DEF DInv
  <1> QED BY <1>1, DeliveryInvariant, PTL

\* On every connection the envelopes of one sender come in the order they
\* were sent, each once: sendPending writes pages ordered by sent_at, whatever
\* other handlers of the device read, write and mark meanwhile.
THEOREM OrderPerSender == Spec => []SenderOrder
  <1>1. DInv => SenderOrder
    BY DEF DInv
  <1> QED BY <1>1, DeliveryInvariant, PTL

\* delivered_at is set only on envelopes whose frame was accepted: sendPending
\* calls MarkDelivered after the last frame, and returns when one fails.
THEOREM OnlySentIsMarked == Spec => []MarkedWasSent
  <1>1. Init => DInv /\ SentInv
    BY DInit
  <1>2. DInv /\ SentInv /\ [Next]_vars => DInv' /\ SentInv'
    BY DStep, StepSent DEF DInv
  <1>3. DInv /\ SentInv => MarkedWasSent
    BY DEF SentInv
  <1> QED BY <1>1, <1>2, <1>3, PTL DEF Spec

-----------------------------------------------------------------------------
(* Socket.  A theorem about the bytes themselves has to say where in the   *)
(* frames the listener is.  The invariant gives every field that it has    *)
(* still to read (Unread) a place in the stream of frames (Lie); what      *)
(* moves a field leaves the places alone, and the listener, which expects  *)
(* the first of them (StartsAt), moves on to the next.                     *)

\* A field of the stream: which one it is of a frame ("answer": the answer of
\* the upgrade), the frame's opcode, and how many texts are before that frame.
Place == [next : {"answer", "first", "second", "ext16", "ext64", "payload"},
          opcode : {opText, opPing}, before : Nat]

\* The length of the frame with place p, if the texts have lengths w.
LengthAt(w, p) == IF p.opcode = opPing THEN 0 ELSE w[p.before + 1]

\* What the second byte of a frame of length n announces.
AfterSecond(n) == IF n <= 125 THEN "payload" ELSE IF n < 65536 THEN "ext16" ELSE "ext64"

\* The places that the frames of texts with lengths w have.
Fits(w, p) ==
    /\ p \in Place
    /\ p.next \in {"ext16", "ext64", "payload"} => p.opcode = opText
    /\ p.next = "answer" => p.before = 0
    /\ p.next # "answer" /\ p.opcode = opText => p.before < Len(w)
    /\ p.before <= Len(w)
    /\ p.next \in {"ext16", "ext64"} => AfterSecond(LengthAt(w, p)) = p.next

FieldAt(w, p) ==
    CASE p.next = "answer"  -> Upgraded
      [] p.next = "first"   -> Run(1, 128 + p.opcode)
      [] p.next = "second"  -> LengthFields(LengthAt(w, p))[1]
      [] p.next \in {"ext16", "ext64"} -> LengthFields(LengthAt(w, p))[2]
      [] p.next = "payload" -> Run(LengthAt(w, p), p.before + 1)

IsLast(p) == p.next \in {"answer", "payload"} \/ (p.next = "second" /\ p.opcode = opPing)

\* The texts of the stream up to a last field.
TextsBy(p) == IF p.next = "payload" THEN p.before + 1 ELSE p.before

\* q is the place after p.
Follows(w, p, q) ==
    IF IsLast(p) THEN q.next = "first" /\ q.before = TextsBy(p)
    ELSE q = [p EXCEPT !.next =
                CASE p.next = "first" -> "second"
                  [] p.next = "second" -> AfterSecond(LengthAt(w, p))
                  [] p.next \in {"ext16", "ext64"} -> "payload"]

\* The fields s are at the places L of the stream.
Lie(w, L, s) ==
    /\ L \in Seq(Place) /\ DOMAIN L = DOMAIN s
    /\ \A i \in DOMAIN s : Fits(w, L[i]) /\ s[i] = FieldAt(w, L[i])
    /\ \A i \in DOMAIN s : i + 1 \in DOMAIN s => Follows(w, L[i], L[i + 1])

-----------------------------------------------------------------------------
(* The invariant.                                                          *)

\* What the listener has still to read of what was written.
Unread == buffer \o down \o out

\* The texts that the listener has read all of.
TextsRead == Len(shown) + (IF parse.next = "whole" /\ parse.opcode = opText THEN 1 ELSE 0)

\* What the listener expects next.
Expected == IF listener = "upgrading" THEN "answer"
            ELSE IF parse.next = "whole" THEN "first" ELSE parse.next

\* The listener is at the first of places L.
StartsAt(L) ==
    IF L # <<>>
    THEN /\ L[1].next = Expected
         /\ L[1].before = TextsRead
         /\ parse.next \notin {"first", "whole"} => parse.opcode = L[1].opcode
         /\ parse.next = "payload" => parse.length = LengthAt(written, L[1])
    ELSE handler \in {"polling", "writing"} =>
            Expected = "first" /\ TextsRead = Len(written)

\* A handler that was not interrupted writes frames to their end.
EndsAt(L) ==
    L # <<>> /\ handler # "closed" =>
        IsLast(L[Len(L)]) /\ TextsBy(L[Len(L)]) = Len(written)

Following == \E L : Lie(written, L, Unread) /\ StartsAt(L) /\ EndsAt(L)

\* Between two frames, or in one that was read so far.
ParseInv ==
    /\ parse.next = "whole" => listener = "reading" /\ parse.opcode \in {opText, opPing}
    /\ parse.next # "first" => listener = "reading"
    /\ handler = "upgrading" => Unread = <<>> /\ written = <<>> /\ listener # "reading"
    /\ listener = "upgrading" => shown = <<>>
    /\ TextsRead <= Len(written)

StreamInv == ParseInv /\ (listener # "ended" => Following)

SocketInv == SocketTypeOK /\ TextsArriveWhole /\ StreamInv

-----------------------------------------------------------------------------
(* Streams.                                                                *)

\* The assumption without its literals.
LEMMA SizeIs == Size \subseteq Nat /\ 0 \notin Size /\ MaxTexts \in Nat /\ Room \in Nat /\ PongRoom \in Nat
  BY SMT, SocketAssumption

\* The three encodings of a length.
LEMMA Lengths ==
    ASSUME NEW n \in Nat
    PROVE  /\ LengthFields(n) \in Seq(Field)
           /\ AfterSecond(n) \in {"payload", "ext16", "ext64"}
           /\ AfterSecond(n) = "payload" => n <= 125 /\ LengthFields(n) = <<Run(1, n)>>
           /\ AfterSecond(n) = "ext16" => LengthFields(n) = <<Run(1, 126), Run(2, n)>>
           /\ AfterSecond(n) = "ext64" => LengthFields(n) = <<Run(1, 127), Run(8, n)>>
  <1>1. \A b \in Nat, v \in Nat : Run(b, v) \in Field
    BY DEF Run, Field
  <1>2. CASE n <= 125
    <2>1. LengthFields(n) = <<Run(1, n)>>
      BY SMT, <1>2 DEF LengthFields
    <2>2. AfterSecond(n) = "payload"
      BY SMT, <1>2 DEF AfterSecond
    <2> QED BY <1>1, <1>2, <2>1, <2>2
  <1>3. CASE n > 125 /\ n < 65536
    <2>1. LengthFields(n) = <<Run(1, 126), Run(2, n)>>
      <3>1. n % 65536 = n
        BY SMT, <1>3
      <3> QED BY SMT, <1>3, <3>1 DEF LengthFields
    <2>2. AfterSecond(n) = "ext16"
      BY SMT, <1>3 DEF AfterSecond
    <2> QED BY <1>1, <2>1, <2>2
  <1>4. CASE n >= 65536
    <2>1. LengthFields(n) = <<Run(1, 127), Run(8, n)>>
      BY SMT, <1>4 DEF LengthFields
    <2>2. AfterSecond(n) = "ext64"
      BY SMT, <1>4 DEF AfterSecond
    <2> QED BY <1>1, <2>1, <2>2
  <1> QED BY SMT, <1>2, <1>3, <1>4

\* A stream without its first field.
LEMMA LieTail ==
    ASSUME NEW w, NEW L, NEW s \in Seq(Field), s # <<>>, Lie(w, L, s)
    PROVE  \E K : /\ Lie(w, K, Tail(s))
                  /\ DOMAIN K = 1 .. Len(s) - 1 /\ \A i \in 1 .. Len(s) - 1 : K[i] = L[i + 1]
  <1> PICK K : K = [i \in 1 .. Len(s) - 1 |-> L[i + 1]]
    OBVIOUS
  <1>1. /\ DOMAIN s = 1 .. Len(s) /\ Len(s) \in Nat /\ DOMAIN Tail(s) = 1 .. Len(s) - 1
        /\ \A i \in 1 .. Len(s) - 1 : Tail(s)[i] = s[i + 1]
    OBVIOUS
  <1>2. K \in Seq(Place)
    <2>1. \A i \in 1 .. Len(s) - 1 : L[i + 1] \in Place
      BY <1>1 DEF Lie, Fits
    <2>2. Len(s) - 1 \in Nat
      BY <1>1
    <2> QED BY <2>1, <2>2
  <1>3. Lie(w, K, Tail(s))
    BY <1>1, <1>2 DEF Lie
  <1> QED BY <1>3

\* A beginning of a stream.
LEMMA LiePrefix ==
    ASSUME NEW w, NEW L, NEW s \in Seq(Field), NEW t \in Seq(Field), Lie(w, L, s),
           Len(t) <= Len(s), \A i \in DOMAIN t : t[i] = s[i]
    PROVE  \E K : Lie(w, K, t) /\ DOMAIN K = DOMAIN t /\ \A i \in DOMAIN t : K[i] = L[i]
  <1> PICK K : K = [i \in DOMAIN t |-> L[i]]
    OBVIOUS
  <1>1. DOMAIN s = 1 .. Len(s) /\ Len(s) \in Nat /\ DOMAIN t = 1 .. Len(t) /\ Len(t) \in Nat
    OBVIOUS
  <1>2. K \in Seq(Place)
    BY <1>1 DEF Lie, Fits
  <1>3. Lie(w, K, t)
    BY <1>1, <1>2 DEF Lie
  <1> QED BY <1>3

\* Another text does not move the places.
LEMMA LieMore ==
    ASSUME NEW w \in Seq(Size), NEW n \in Size, NEW L, NEW s, Lie(w, L, s)
    PROVE  Lie(Append(w, n), L, s)
  <1> PICK v : v = Append(w, n)
    OBVIOUS
  <1>1. v \in Seq(Size) /\ Len(v) = Len(w) + 1 /\ \A i \in 1 .. Len(w) : v[i] = w[i]
    OBVIOUS
  <1>2. ASSUME NEW p, Fits(w, p)
        PROVE  Fits(v, p) /\ FieldAt(v, p) = FieldAt(w, p) /\ \A q : Follows(w, p, q) => Follows(v, p, q)
    <2>1. p \in Place /\ p.before \in Nat /\ p.opcode \in {opText, opPing}
      BY <1>2 DEF Fits, Place
    <2>2. p.next # "answer" => LengthAt(v, p) = LengthAt(w, p)
      BY <1>1, <1>2, <2>1 DEF Fits, LengthAt
    <2>3. Fits(v, p)
      BY <1>1, <1>2, <2>1, <2>2 DEF Fits
    <2>4. FieldAt(v, p) = FieldAt(w, p)
      <3>1. CASE p.next = "answer"
        BY <3>1 DEF FieldAt
      <3>2. CASE p.next # "answer"
        BY <2>2, <3>2 DEF FieldAt
      <3> QED BY <3>1, <3>2
    <2>5. ASSUME NEW q, Follows(w, p, q) PROVE Follows(v, p, q)
      <3>1. CASE IsLast(p)
        BY <2>5, <3>1 DEF Follows
      <3>2. CASE ~IsLast(p)
        <4>1. p.next # "answer"
          BY <3>2 DEF IsLast
        <4> QED BY <2>2, <2>5, <3>2, <4>1 DEF Follows
      <3> QED BY <3>1, <3>2
    <2> QED BY <2>3, <2>4, <2>5
  <1> QED BY <1>2 DEF Lie

\* A stream after another.
LEMMA LieJoin ==
    ASSUME NEW w, NEW L, NEW s \in Seq(Field), Lie(w, L, s), NEW M, NEW t \in Seq(Field), Lie(w, M, t),
           t # <<>>, s # <<>> => Follows(w, L[Len(s)], M[1])
    PROVE  \E K : /\ Lie(w, K, s \o t) /\ DOMAIN K = 1 .. Len(s) + Len(t)
                  /\ \A i \in DOMAIN s : K[i] = L[i]
                  /\ \A i \in DOMAIN t : K[Len(s) + i] = M[i]
  <1> PICK K : K = [i \in 1 .. Len(s) + Len(t) |-> IF i <= Len(s) THEN L[i] ELSE M[i - Len(s)]]
    OBVIOUS
  <1>1. /\ DOMAIN s = 1 .. Len(s) /\ Len(s) \in Nat /\ DOMAIN t = 1 .. Len(t) /\ Len(t) \in Nat
        /\ Len(t) > 0 /\ DOMAIN (s \o t) = 1 .. Len(s) + Len(t)
        /\ \A i \in 1 .. Len(s) : (s \o t)[i] = s[i]
        /\ \A i \in 1 .. Len(t) : (s \o t)[Len(s) + i] = t[i]
    OBVIOUS
  <1>2. /\ DOMAIN K = 1 .. Len(s) + Len(t)
        /\ \A i \in 1 .. Len(s) : K[i] = L[i] /\ (s \o t)[i] = s[i]
        /\ \A i \in Len(s) + 1 .. Len(s) + Len(t) :
             K[i] = M[i - Len(s)] /\ (s \o t)[i] = t[i - Len(s)] /\ i - Len(s) \in 1 .. Len(t)
    BY <1>1
  <1>3. \A i \in DOMAIN K : Fits(w, K[i]) /\ (s \o t)[i] = FieldAt(w, K[i])
    BY <1>1, <1>2 DEF Lie
  <1>4. ASSUME NEW i \in DOMAIN K, i + 1 \in DOMAIN K PROVE Follows(w, K[i], K[i + 1])
    <2> i \in Nat /\ i + 1 \in 1 .. Len(s) + Len(t)
      BY <1>2, <1>1, <1>4
    <2>1. CASE i < Len(s)
      BY <1>1, <1>2, <1>4, <2>1 DEF Lie
    <2>2. CASE i = Len(s)
      <3>1. K[i] = L[Len(s)] /\ K[i + 1] = M[1] /\ s # <<>>
        BY <1>1, <1>2, <1>4, <2>2
      <3> QED BY <3>1
    <2>3. CASE i > Len(s)
      <3>1. K[i] = M[i - Len(s)] /\ K[i + 1] = M[(i - Len(s)) + 1]
            /\ i - Len(s) \in DOMAIN t /\ (i - Len(s)) + 1 \in DOMAIN t
        BY <1>1, <1>2, <1>4, <2>3
      <3> QED BY <3>1 DEF Lie
    <2>4. i < Len(s) \/ i = Len(s) \/ i > Len(s)
      <3>1. i \in Nat /\ Len(s) \in Nat
        BY <1>1
      <3> QED BY <3>1
    <2> QED BY <2>1, <2>2, <2>3, <2>4
  <1>5. Lie(w, K, s \o t)
    <2>1. K \in Seq(Place)
      <3> PICK n \in Nat : n = Len(s) + Len(t)
        BY <1>1
      <3>1. \A i \in 1 .. n : K[i] \in Place
        BY <1>2, <1>3 DEF Fits
      <3>2. K \in [1 .. n -> Place]
        BY <3>1
      <3> QED BY <3>2, SMTT(30)
    <2> QED BY <1>1, <1>2, <1>3, <1>4, <2>1 DEF Lie
  <1>6. \A i \in DOMAIN t : K[Len(s) + i] = M[i]
    <2> TAKE i \in DOMAIN t
    <2>1. Len(s) + i \in 1 .. Len(s) + Len(t) /\ ~(Len(s) + i <= Len(s)) /\ (Len(s) + i) - Len(s) = i
      BY <1>1
    <2> QED BY <2>1
  <1> QED BY <1>1, <1>2, <1>5, <1>6

\* Sequences given by their elements.
LEMMA Singles ==
    ASSUME NEW a, NEW t, t = <<a>>
    PROVE  /\ DOMAIN t = 1 .. 1 /\ Len(t) = 1 /\ t[1] = a /\ t # <<>>
           /\ \A S : a \in S => t \in Seq(S)
  OBVIOUS

LEMMA Pairs ==
    ASSUME NEW a, NEW b, NEW t, t = <<a, b>>
    PROVE  /\ DOMAIN t = 1 .. 2 /\ Len(t) = 2 /\ t[1] = a /\ t[2] = b /\ t # <<>>
           /\ \A S : a \in S /\ b \in S => t \in Seq(S)
  OBVIOUS

LEMMA Triples ==
    ASSUME NEW a, NEW b, NEW c, NEW t, t = <<a, b, c>>
    PROVE  /\ DOMAIN t = 1 .. 3 /\ Len(t) = 3 /\ t[1] = a /\ t[2] = b /\ t[3] = c /\ t # <<>>
           /\ \A S : a \in S /\ b \in S /\ c \in S => t \in Seq(S)
  OBVIOUS

LEMMA Quadruples ==
    ASSUME NEW a, NEW b, NEW c, NEW d, NEW t, t = <<a, b, c, d>>
    PROVE  /\ DOMAIN t = 1 .. 4 /\ Len(t) = 4 /\ t[1] = a /\ t[2] = b /\ t[3] = c /\ t[4] = d
           /\ t # <<>>
           /\ \A S : a \in S /\ b \in S /\ c \in S /\ d \in S => t \in Seq(S)
  OBVIOUS

\* The fields of a frame one by one.
LEMMA LieTwo ==
    ASSUME NEW w, NEW L \in Seq(Place), NEW s, DOMAIN L = 1 .. 2, DOMAIN s = 1 .. 2,
           Fits(w, L[1]), s[1] = FieldAt(w, L[1]), Fits(w, L[2]), s[2] = FieldAt(w, L[2]),
           Follows(w, L[1], L[2])
    PROVE  Lie(w, L, s)
  <1>1. \A i \in 1 .. 2 : i = 1 \/ i = 2
    OBVIOUS
  <1>2. \A i \in 1 .. 2 : i + 1 \in 1 .. 2 => i = 1 /\ i + 1 = 2
    OBVIOUS
  <1> QED BY <1>1, <1>2 DEF Lie

LEMMA LieThree ==
    ASSUME NEW w, NEW L \in Seq(Place), NEW s, DOMAIN L = 1 .. 3, DOMAIN s = 1 .. 3,
           Fits(w, L[1]), s[1] = FieldAt(w, L[1]), Fits(w, L[2]), s[2] = FieldAt(w, L[2]),
           Fits(w, L[3]), s[3] = FieldAt(w, L[3]),
           Follows(w, L[1], L[2]), Follows(w, L[2], L[3])
    PROVE  Lie(w, L, s)
  <1>1. \A i \in 1 .. 3 : i = 1 \/ i = 2 \/ i = 3
    OBVIOUS
  <1>2. \A i \in 1 .. 3 : i + 1 \in 1 .. 3 => (i = 1 /\ i + 1 = 2) \/ (i = 2 /\ i + 1 = 3)
    OBVIOUS
  <1> QED BY <1>1, <1>2 DEF Lie

LEMMA LieFour ==
    ASSUME NEW w, NEW L \in Seq(Place), NEW s, DOMAIN L = 1 .. 4, DOMAIN s = 1 .. 4,
           Fits(w, L[1]), s[1] = FieldAt(w, L[1]), Fits(w, L[2]), s[2] = FieldAt(w, L[2]),
           Fits(w, L[3]), s[3] = FieldAt(w, L[3]), Fits(w, L[4]), s[4] = FieldAt(w, L[4]),
           Follows(w, L[1], L[2]), Follows(w, L[2], L[3]), Follows(w, L[3], L[4])
    PROVE  Lie(w, L, s)
  <1>1. \A i \in 1 .. 4 : i = 1 \/ i = 2 \/ i = 3 \/ i = 4
    OBVIOUS
  <1>2. \A i \in 1 .. 4 : i + 1 \in 1 .. 4 =>
          (i = 1 /\ i + 1 = 2) \/ (i = 2 /\ i + 1 = 3) \/ (i = 3 /\ i + 1 = 4)
    OBVIOUS
  <1> QED BY <1>1, <1>2 DEF Lie

\* L are the places of a whole frame s, with k texts before it and m with it.
AreFrame(w, L, s, k, m) ==
    /\ Lie(w, L, s) /\ L[1].next = "first" /\ L[1].before = k
    /\ IsLast(L[Len(s)]) /\ TextsBy(L[Len(s)]) = m

PlaceOf(next, opcode, k) == [next |-> next, opcode |-> opcode, before |-> k]

\* A frame with a text.
LEMMA FrameLies ==
    ASSUME NEW w \in Seq(Size), NEW n \in Size, NEW v, v = Append(w, n),
           NEW s, s = Frame(opText, n, Len(w) + 1)
    PROVE  /\ s \in Seq(Field) /\ s # <<>>
           /\ \E L : AreFrame(v, L, s, Len(w), Len(w) + 1)
  <1> DEFINE P(next) == PlaceOf(next, opText, Len(w))
  <1>1. /\ Len(w) \in Nat /\ Len(v) = Len(w) + 1 /\ v[Len(w) + 1] = n
        /\ n \in Nat /\ n # 0
    BY SizeIs
  <1>2. \A next \in {"first", "second", "ext16", "ext64", "payload"} :
          /\ P(next) \in Place /\ P(next).next = next /\ P(next).opcode = opText
          /\ P(next).before = Len(w) /\ LengthAt(v, P(next)) = n
    BY <1>1 DEF PlaceOf, Place, LengthAt, opText, opPing
  <1>3. \A next \in {"first", "second", "payload"} : Fits(v, P(next))
    BY <1>1, <1>2 DEF Fits
  <1>4. \A b \in Nat, x \in Nat : Run(b, x) \in Field
    BY DEF Run, Field
  <1>5. /\ FieldAt(v, P("first")) = Run(1, 128 + opText)
        /\ FieldAt(v, P("second")) = LengthFields(n)[1]
        /\ FieldAt(v, P("payload")) = Run(n, Len(w) + 1)
        /\ FieldAt(v, P("ext16")) = LengthFields(n)[2]
        /\ FieldAt(v, P("ext64")) = LengthFields(n)[2]
    BY <1>2 DEF FieldAt
  <1>6. /\ Follows(v, P("first"), P("second"))
        /\ AfterSecond(n) = "payload" => Follows(v, P("second"), P("payload"))
        /\ AfterSecond(n) = "ext16" => Follows(v, P("second"), P("ext16"))
        /\ AfterSecond(n) = "ext64" => Follows(v, P("second"), P("ext64"))
        /\ Follows(v, P("ext16"), P("payload")) /\ Follows(v, P("ext64"), P("payload"))
    <2>1. \A next \in {"first", "second", "ext16", "ext64"} : ~IsLast(P(next))
      BY <1>2 DEF IsLast, opText, opPing
    <2>2. \A a, b : [P(a) EXCEPT !.next = b] = P(b)
      BY DEF PlaceOf
    <2> HIDE DEF P
    <2> QED BY <1>2, <2>1, <2>2 DEF Follows
  <1>7. IsLast(P("payload")) /\ TextsBy(P("payload")) = Len(w) + 1
    BY <1>2 DEF IsLast, TextsBy
  <1> HIDE DEF P
  <1>8. s = <<Run(1, 128 + opText)>> \o LengthFields(n) \o <<Run(n, Len(w) + 1)>>
    BY <1>1 DEF Frame
  <1>9. Run(1, 128 + opText) \in Field /\ Run(n, Len(w) + 1) \in Field
    BY <1>1, <1>4 DEF opText
  <1>10. CASE AfterSecond(n) = "payload"
    <2>1. LengthFields(n) = <<Run(1, n)>> /\ Run(1, n) \in Field
      BY <1>1, <1>4, <1>10, Lengths
    <2>2. s = <<Run(1, 128 + opText), Run(1, n), Run(n, Len(w) + 1)>>
      BY <1>8, <2>1
    <2> PICK L : L = <<P("first"), P("second"), P("payload")>>
      OBVIOUS
    <2>3. /\ DOMAIN s = 1 .. 3 /\ s[1] = Run(1, 128 + opText) /\ s[2] = Run(1, n)
          /\ s[3] = Run(n, Len(w) + 1) /\ Len(s) = 3 /\ s \in Seq(Field) /\ s # <<>>
      BY <1>9, <2>1, <2>2, Triples
    <2>4. /\ DOMAIN L = 1 .. 3 /\ L[1] = P("first") /\ L[2] = P("second")
          /\ L[3] = P("payload") /\ L \in Seq(Place)
      BY <1>2, Triples
    <2>5. LengthFields(n)[1] = Run(1, n)
      BY <2>1
    <2>6. Lie(v, L, s)
      BY <1>3, <1>5, <1>6, <1>10, <2>3, <2>4, <2>5, LieThree
    <2>7. AreFrame(v, L, s, Len(w), Len(w) + 1)
      BY <1>2, <1>7, <2>3, <2>4, <2>6 DEF AreFrame
    <2> QED BY <2>3, <2>7
  <1>11. CASE AfterSecond(n) = "ext16"
    <2>1. LengthFields(n) = <<Run(1, 126), Run(2, n)>> /\ Run(1, 126) \in Field /\ Run(2, n) \in Field
      BY <1>1, <1>4, <1>11, Lengths
    <2>2. s = <<Run(1, 128 + opText), Run(1, 126), Run(2, n), Run(n, Len(w) + 1)>>
      BY <1>8, <2>1
    <2> PICK L : L = <<P("first"), P("second"), P("ext16"), P("payload")>>
      OBVIOUS
    <2>3. Fits(v, P("ext16"))
      BY <1>1, <1>2, <1>11 DEF Fits
    <2>4. /\ DOMAIN s = 1 .. 4 /\ s[1] = Run(1, 128 + opText) /\ s[2] = Run(1, 126)
          /\ s[3] = Run(2, n) /\ s[4] = Run(n, Len(w) + 1)
          /\ Len(s) = 4 /\ s \in Seq(Field) /\ s # <<>>
      BY <1>9, <2>1, <2>2, Quadruples
    <2>5. /\ DOMAIN L = 1 .. 4 /\ L[1] = P("first") /\ L[2] = P("second")
          /\ L[3] = P("ext16") /\ L[4] = P("payload") /\ L \in Seq(Place)
      BY <1>2, Quadruples
    <2>6. LengthFields(n)[1] = Run(1, 126) /\ LengthFields(n)[2] = Run(2, n)
      BY <2>1
    <2>7. Lie(v, L, s)
      BY <1>3, <1>5, <1>6, <1>11, <2>3, <2>4, <2>5, <2>6, LieFour
    <2>8. AreFrame(v, L, s, Len(w), Len(w) + 1)
      BY <1>2, <1>7, <2>4, <2>5, <2>7 DEF AreFrame
    <2> QED BY <2>4, <2>8
  <1>12. CASE AfterSecond(n) = "ext64"
    <2>1. LengthFields(n) = <<Run(1, 127), Run(8, n)>> /\ Run(1, 127) \in Field /\ Run(8, n) \in Field
      BY <1>1, <1>4, <1>12, Lengths
    <2>2. s = <<Run(1, 128 + opText), Run(1, 127), Run(8, n), Run(n, Len(w) + 1)>>
      BY <1>8, <2>1
    <2> PICK L : L = <<P("first"), P("second"), P("ext64"), P("payload")>>
      OBVIOUS
    <2>3. Fits(v, P("ext64"))
      BY <1>1, <1>2, <1>12 DEF Fits
    <2>4. /\ DOMAIN s = 1 .. 4 /\ s[1] = Run(1, 128 + opText) /\ s[2] = Run(1, 127)
          /\ s[3] = Run(8, n) /\ s[4] = Run(n, Len(w) + 1)
          /\ Len(s) = 4 /\ s \in Seq(Field) /\ s # <<>>
      BY <1>9, <2>1, <2>2, Quadruples
    <2>5. /\ DOMAIN L = 1 .. 4 /\ L[1] = P("first") /\ L[2] = P("second")
          /\ L[3] = P("ext64") /\ L[4] = P("payload") /\ L \in Seq(Place)
      BY <1>2, Quadruples
    <2>6. LengthFields(n)[1] = Run(1, 127) /\ LengthFields(n)[2] = Run(8, n)
      BY <2>1
    <2>7. Lie(v, L, s)
      BY <1>3, <1>5, <1>6, <1>12, <2>3, <2>4, <2>5, <2>6, LieFour
    <2>8. AreFrame(v, L, s, Len(w), Len(w) + 1)
      BY <1>2, <1>7, <2>4, <2>5, <2>7 DEF AreFrame
    <2> QED BY <2>4, <2>8
  <1> QED BY <1>1, <1>10, <1>11, <1>12, Lengths

\* A ping.
LEMMA PingLies ==
    ASSUME NEW w \in Seq(Size), NEW s, s = Frame(opPing, 0, 0)
    PROVE  /\ s \in Seq(Field) /\ s # <<>>
           /\ \E L : AreFrame(w, L, s, Len(w), Len(w))
  <1> DEFINE P(next) == PlaceOf(next, opPing, Len(w))
  <1>1. \A next \in {"first", "second"} :
          /\ P(next) \in Place /\ P(next).next = next /\ P(next).opcode = opPing
          /\ P(next).before = Len(w) /\ LengthAt(w, P(next)) = 0
    BY DEF PlaceOf, Place, LengthAt, opText, opPing
  <1>2. \A next \in {"first", "second"} : Fits(w, P(next))
    BY <1>1 DEF Fits, opText, opPing
  <1>3. LengthFields(0) = <<Run(1, 0)>>
    BY SMT DEF LengthFields
  <1>4. FieldAt(w, P("first")) = Run(1, 128 + opPing) /\ FieldAt(w, P("second")) = Run(1, 0)
    BY <1>1, <1>3 DEF FieldAt
  <1>5. Follows(w, P("first"), P("second"))
    <2>1. ~IsLast(P("first"))
      BY <1>1 DEF IsLast
    <2>2. [P("first") EXCEPT !.next = "second"] = P("second")
      BY DEF PlaceOf
    <2> HIDE DEF P
    <2> QED BY <1>1, <2>1, <2>2 DEF Follows
  <1>6. IsLast(P("second")) /\ TextsBy(P("second")) = Len(w)
    BY <1>1 DEF IsLast, TextsBy
  <1> HIDE DEF P
  <1>7. Run(1, 128 + opPing) \in Field /\ Run(1, 0) \in Field
    BY DEF Run, Field, opPing
  <1>8. /\ DOMAIN s = 1 .. 2 /\ s[1] = Run(1, 128 + opPing) /\ s[2] = Run(1, 0)
        /\ Len(s) = 2 /\ s \in Seq(Field) /\ s # <<>>
    <2> PICK t : t = <<Run(1, 128 + opPing)>>
      OBVIOUS
    <2> PICK u : u = <<Run(1, 0)>>
      OBVIOUS
    <2>1. /\ t \in Seq(Field) /\ Len(t) = 1 /\ t[1] = Run(1, 128 + opPing)
          /\ u \in Seq(Field) /\ Len(u) = 1 /\ u[1] = Run(1, 0)
      BY <1>7, Singles
    <2>2. t \o u \in Seq(Field) /\ Len(t \o u) = 2 /\ (t \o u)[1] = t[1] /\ (t \o u)[2] = u[1]
      BY <2>1
    <2>3. s = t \o u \o <<>>
      BY <1>3 DEF Frame
    <2>4. s = t \o u
      BY <2>2, <2>3
    <2>5. s \in Seq(Field) /\ Len(s) = 2
      BY <2>2, <2>4
    <2> QED BY <2>1, <2>2, <2>4, <2>5
  <1> PICK L : L = <<P("first"), P("second")>>
    OBVIOUS
  <1>9. DOMAIN L = 1 .. 2 /\ L[1] = P("first") /\ L[2] = P("second") /\ L \in Seq(Place)
    BY <1>1, Pairs
  <1>10. Lie(w, L, s)
    BY <1>2, <1>4, <1>5, <1>8, <1>9, LieTwo
  <1>11. AreFrame(w, L, s, Len(w), Len(w))
    BY <1>1, <1>6, <1>8, <1>9, <1>10 DEF AreFrame
  <1> QED BY <1>8, <1>11

\* What the listener makes of a field that is at the place it expects.
LEMMA ReadsOn ==
    ASSUME NEW w \in Seq(Size), NEW p \in Parsing, NEW e, Fits(w, e), e.next = p.next, e.next # "answer",
           p.next # "first" => p.opcode = e.opcode,
           p.next = "payload" => p.length = LengthAt(w, e),
           NEW f, f = FieldAt(w, e), NEW q, q = Parse(p, f.value)
    PROVE  /\ f.bytes = Wanted(p)
           /\ q \in Parsing /\ q.next \notin {"lost", "first"} /\ q.opcode = e.opcode
           /\ q.next = "whole" <=> IsLast(e)
           /\ q.next = "whole" /\ q.opcode = opText =>
                /\ q.text = e.before + 1 /\ q.length = w[e.before + 1]
                /\ TextsBy(e) = e.before + 1
           /\ q.next = "whole" /\ q.opcode = opPing => TextsBy(e) = e.before
           /\ q.next # "whole" => \A g : Follows(w, e, g) =>
                /\ g.next = q.next /\ g.before = e.before /\ g.opcode = e.opcode
                /\ q.next = "payload" => q.length = LengthAt(w, g)
  <1>1. /\ e \in Place /\ e.next \in {"first", "second", "ext16", "ext64", "payload"}
        /\ e.opcode \in {opText, opPing} /\ e.before \in Nat
    BY DEF Fits, Place
  <1>2. LengthAt(w, e) \in Nat /\ (e.opcode = opText => LengthAt(w, e) # 0 /\ LengthAt(w, e) = w[e.before + 1])
    <2>1. CASE e.opcode = opText
      <3>1. e.before + 1 \in 1 .. Len(w)
        BY <1>1, <2>1 DEF Fits
      <3>2. w[e.before + 1] \in Size
        BY <3>1
      <3>3. LengthAt(w, e) = w[e.before + 1]
        BY <2>1 DEF LengthAt, opText, opPing
      <3> QED BY <3>2, <3>3, SizeIs
    <2>2. CASE e.opcode = opPing
      BY <2>2 DEF LengthAt, opText, opPing
    <2> QED BY <1>1, <2>1, <2>2
  <1> PICK n \in Nat : n = LengthAt(w, e)
    BY <1>2
  <1>3. ASSUME NEW x, NEW g, Follows(w, e, g), ~IsLast(e)
        PROVE  g.before = e.before /\ g.opcode = e.opcode /\ LengthAt(w, g) = n
    BY <1>1, <1>3 DEF Follows, Place, LengthAt
  <1>4. \A b, x : Run(b, x).bytes = b /\ Run(b, x).value = x
    BY DEF Run
  <1>5. CASE e.next = "first"
    <2>1. f = Run(1, 128 + e.opcode)
      BY <1>5 DEF FieldAt
    <2>2. q = [p EXCEPT !.next = "second", !.opcode = (128 + e.opcode) % 16]
      <3> PICK x : x = f.value
        OBVIOUS
      <3>1. x = 128 + e.opcode
        BY <1>4, <2>1
      <3>2. Parse(p, x) = [p EXCEPT !.next = "second", !.opcode = x % 16]
        BY <1>5, Zenon DEF Parse
      <3> QED BY <3>1, <3>2
    <2>3. (128 + e.opcode) % 16 = e.opcode /\ e.opcode \in 0 .. 15
      BY <1>1 DEF opText, opPing
    <2>4. q \in Parsing /\ q.next = "second" /\ q.opcode = e.opcode
      BY <2>2, <2>3 DEF Parsing
    <2>5. ~IsLast(e) /\ \A g : Follows(w, e, g) => g.next = "second"
      BY <1>1, <1>5 DEF IsLast, Follows, Place
    <2>6. f.bytes = Wanted(p)
      BY <1>4, <1>5, <2>1 DEF Wanted
    <2> QED BY <1>3, <2>4, <2>5, <2>6
  <1>6. CASE e.next = "second"
    <2>1. f = LengthFields(n)[1]
      BY <1>6 DEF FieldAt
    <2>2. p.opcode = e.opcode /\ p.next = "second"
      BY <1>6
    <2>3. CASE AfterSecond(n) = "payload"
      <3>1. n <= 125 /\ LengthFields(n) = <<Run(1, n)>>
        BY <2>3, Lengths
      <3>2. f = Run(1, n)
        BY <2>1, <3>1
      <3>3. n % 128 = n /\ n # 126 /\ n # 127
        BY <3>1
      <3>4. q = PayloadOf(p, n)
        BY <1>4, <2>2, <3>2, <3>3 DEF Parse
      <3>5. q \in Parsing /\ q.opcode = e.opcode /\ q.length = n
            /\ q.next = IF n = 0 THEN "whole" ELSE "payload"
        BY <2>2, <3>4 DEF PayloadOf, Parsing
      <3>6. f.bytes = Wanted(p)
        BY <1>4, <2>2, <3>2 DEF Wanted
      <3>7. CASE e.opcode = opPing
        <4>1. n = 0 /\ IsLast(e) /\ TextsBy(e) = e.before
          BY <1>6, <3>7 DEF LengthAt, IsLast, TextsBy
        <4> QED BY <3>5, <3>6, <3>7, <4>1 DEF opText, opPing
      <3>8. CASE e.opcode = opText
        <4>1. n # 0 /\ ~IsLast(e)
          BY <1>2, <1>6, <3>8 DEF IsLast, opText, opPing
        <4>2. \A g : Follows(w, e, g) => g.next = "payload"
          BY <1>1, <1>6, <2>3, <4>1 DEF Follows, Place
        <4> QED BY <1>3, <3>5, <3>6, <4>1, <4>2
      <3> QED BY <1>1, <3>7, <3>8
    <2>4. CASE AfterSecond(n) = "ext16"
      <3>1. f = Run(1, 126)
        BY <2>1, <2>4, Lengths
      <3>2. q = [p EXCEPT !.next = "ext16"]
        BY <1>4, <2>2, <3>1 DEF Parse
      <3>3. q \in Parsing /\ q.opcode = e.opcode /\ q.next = "ext16"
        BY <2>2, <3>2 DEF Parsing
      <3>4. f.bytes = Wanted(p)
        BY <1>4, <2>2, <3>1 DEF Wanted
      <3>5. ~IsLast(e)
        <4>1. AfterSecond(0) = "payload"
          BY SMT DEF AfterSecond
        <4> QED BY <1>6, <2>4, <4>1 DEF IsLast, LengthAt
      <3>6. \A g : Follows(w, e, g) => g.next = "ext16"
        BY <1>1, <1>6, <2>4, <3>5 DEF Follows, Place
      <3> QED BY <1>3, <3>3, <3>4, <3>5, <3>6
    <2>5. CASE AfterSecond(n) = "ext64"
      <3>1. f = Run(1, 127)
        BY <2>1, <2>5, Lengths
      <3>2. q = [p EXCEPT !.next = "ext64"]
        BY <1>4, <2>2, <3>1 DEF Parse
      <3>3. q \in Parsing /\ q.opcode = e.opcode /\ q.next = "ext64"
        BY <2>2, <3>2 DEF Parsing
      <3>4. f.bytes = Wanted(p)
        BY <1>4, <2>2, <3>1 DEF Wanted
      <3>5. ~IsLast(e)
        <4>1. AfterSecond(0) = "payload"
          BY SMT DEF AfterSecond
        <4> QED BY <1>6, <2>5, <4>1 DEF IsLast, LengthAt
      <3>6. \A g : Follows(w, e, g) => g.next = "ext64"
        BY <1>1, <1>6, <2>5, <3>5 DEF Follows, Place
      <3> QED BY <1>3, <3>3, <3>4, <3>5, <3>6
    <2> QED BY <2>3, <2>4, <2>5, Lengths
  <1>7. CASE e.next \in {"ext16", "ext64"}
    <2>1. f = LengthFields(n)[2]
      BY <1>7 DEF FieldAt
    <2>2. e.opcode = opText /\ n # 0 /\ AfterSecond(n) = e.next
      BY <1>2, <1>7 DEF Fits
    <2>3. f = Run(IF e.next = "ext16" THEN 2 ELSE 8, n)
      BY <1>7, <2>1, <2>2, Lengths
    <2>4. q = PayloadOf(p, n)
      BY <1>4, <1>7, <2>3 DEF Parse
    <2>5. q \in Parsing /\ q.opcode = e.opcode /\ q.length = n /\ q.next = "payload"
      BY <1>7, <2>2, <2>4 DEF PayloadOf, Parsing
    <2>6. f.bytes = Wanted(p)
      BY <1>4, <1>7, <2>3 DEF Wanted
    <2>7. ~IsLast(e) /\ \A g : Follows(w, e, g) => g.next = "payload"
      BY <1>1, <1>7 DEF IsLast, Follows, Place
    <2> QED BY <1>3, <2>5, <2>6, <2>7
  <1>8. CASE e.next = "payload"
    <2>1. f = Run(n, e.before + 1) /\ p.length = n /\ e.opcode = opText
      BY <1>8 DEF FieldAt, Fits
    <2>2. q = [p EXCEPT !.next = "whole", !.text = e.before + 1]
      <3> PICK x : x = f.value
        OBVIOUS
      <3>1. x = e.before + 1
        BY <1>4, <2>1
      <3>2. Parse(p, x) = [p EXCEPT !.next = "whole", !.text = x]
        BY <1>8, Zenon DEF Parse
      <3> QED BY <3>1, <3>2
    <2>3. q \in Parsing /\ q.opcode = opText /\ q.next = "whole" /\ q.text = e.before + 1 /\ q.length = n
      <3> PICK k \in Nat : k = e.before + 1
        BY <1>1
      <3>1. p.opcode = opText /\ p.opcode \in 0 .. 15 /\ p.length \in Nat
        BY <1>8, <2>1 DEF Parsing
      <3>2. q = [p EXCEPT !.next = "whole", !.text = k]
        BY <2>2
      <3>3. q \in Parsing
        BY <3>2 DEF Parsing
      <3> QED BY <2>1, <3>1, <3>2, <3>3 DEF Parsing
    <2>4. f.bytes = Wanted(p)
      BY <1>4, <1>8, <2>1 DEF Wanted
    <2>5. IsLast(e) /\ TextsBy(e) = e.before + 1
      BY <1>8 DEF IsLast, TextsBy
    <2> QED BY <1>2, <2>1, <2>3, <2>4, <2>5 DEF opText, opPing
  <1> QED BY <1>1, <1>5, <1>6, <1>7, <1>8

-----------------------------------------------------------------------------
(* The invariant, step by step.                                            *)

LEMMA UnreadIs ==
    ASSUME SocketTypeOK
    PROVE  /\ Unread \in Seq(Field) /\ Len(Unread) = Len(buffer) + Len(down) + Len(out)
           /\ Unread = <<>> <=> buffer = <<>> /\ down = <<>> /\ out = <<>>
           /\ buffer # <<>> => Unread # <<>> /\ Unread[1] = buffer[1]
  BY DEF SocketTypeOK, Unread

\* A stream that goes on as it was.
LEMMA SameStream ==
    ASSUME NEW L, Lie(written, L, Unread), StartsAt(L), EndsAt(L),
           Unread' = Unread, written' = written, Expected' = Expected, TextsRead' = TextsRead,
           parse'.next \in {"first", "whole"} \/ parse' = parse,
           handler' = "closed" \/ handler' = handler
             \/ (handler = "writing" /\ handler' = "polling" /\ Unread # <<>>)
    PROVE  Following'
  <1>1. Lie(written, L, Unread)'
    OBVIOUS
  <1>2. L = <<>> <=> Unread = <<>>
    BY UnreadIs DEF Lie
  <1>3. StartsAt(L)'
    BY <1>2 DEF StartsAt
  <1>4. EndsAt(L)'
    BY DEF EndsAt
  <1> QED BY <1>1, <1>3, <1>4 DEF Following

\* The next frame is put behind what is unread.
LEMMA MoreToRead ==
    ASSUME SocketInv, listener # "ended", handler = "polling", NEW f \in Seq(Field), f # <<>>,
           out' = f, handler' = "writing", UNCHANGED <<listener, buffer, down, parse, shown>>,
           written' \in Seq(Size), \A i \in 1 .. Len(written) : written'[i] = written[i],
           \A L : Lie(written, L, Unread) => Lie(written', L, Unread),
           NEW M, AreFrame(written', M, f, Len(written), Len(written'))
    PROVE  Following'
  <1> USE DEF AreFrame
  <1> PICK L : Lie(written, L, Unread) /\ StartsAt(L) /\ EndsAt(L)
    BY DEF SocketInv, StreamInv, Following
  <1>1. Unread \in Seq(Field)
    BY UnreadIs DEF SocketInv
  <1>2. Unread' = Unread \o f
    BY DEF Unread, SocketInv, SocketTypeOK
  <1>3. L = <<>> <=> Unread = <<>>
    BY DEF Lie
  <1>4. DOMAIN L = 1 .. Len(Unread) /\ DOMAIN M = 1 .. Len(f) /\ Len(f) \in Nat \ {0} /\ Len(Unread) \in Nat
    BY <1>1 DEF Lie
  <1>5. ASSUME Unread # <<>> PROVE Follows(written', L[Len(Unread)], M[1])
    <2>1. Len(L) = Len(Unread)
      BY <1>4
    <2>2. IsLast(L[Len(Unread)]) /\ TextsBy(L[Len(Unread)]) = Len(written)
      BY <1>3, <1>5, <2>1 DEF EndsAt
    <2> QED BY <2>2 DEF Follows
  <1>6. PICK K : /\ Lie(written', K, Unread \o f) /\ DOMAIN K = 1 .. Len(Unread) + Len(f)
                 /\ \A i \in DOMAIN Unread : K[i] = L[i]
                 /\ \A i \in DOMAIN f : K[Len(Unread) + i] = M[i]
    <2>1. Lie(written', L, Unread)
      OBVIOUS
    <2> QED BY <1>1, <1>5, <2>1, LieJoin
  <1>7. K # <<>> /\ Len(K) = Len(Unread) + Len(f) /\ K[Len(K)] = M[Len(f)]
    BY <1>4, <1>6
  <1>8. EndsAt(K)'
    BY <1>7 DEF EndsAt
  <1>9. StartsAt(K)'
    <2>1. CASE Unread # <<>>
      <3>1. K[1] = L[1]
        <4>1. 1 \in DOMAIN Unread
          BY <1>1, <2>1
        <4> QED BY <1>6, <4>1
      <3>2. L[1].next = Expected /\ L[1].before = TextsRead
        BY <1>3, <2>1 DEF StartsAt
      <3>3. parse.next = "payload" => LengthAt(written', L[1]) = LengthAt(written, L[1])
        <4> SUFFICES ASSUME parse.next = "payload"
                     PROVE  LengthAt(written', L[1]) = LengthAt(written, L[1])
          OBVIOUS
        <4>1. Expected = "payload"
          BY DEF SocketInv, StreamInv, ParseInv, Expected
        <4>2. Fits(written, L[1])
          <5>1. 1 \in DOMAIN Unread
            BY <1>1, <2>1
          <5> QED BY <5>1 DEF Lie
        <4>3. L[1].opcode = opText /\ L[1].before < Len(written) /\ L[1].before \in Nat
          BY <3>2, <4>1, <4>2 DEF Fits, Place
        <4>4. L[1].before + 1 \in 1 .. Len(written)
          BY <4>3 DEF SocketInv, SocketTypeOK
        <4> QED BY <4>3, <4>4 DEF LengthAt
      <3> QED BY <1>3, <1>7, <2>1, <3>1, <3>2, <3>3 DEF StartsAt, Expected, TextsRead
    <2>2. CASE Unread = <<>>
      <3>1. K[1] = M[1]
        BY <1>4, <1>6, <2>2
      <3>2. Expected = "first" /\ TextsRead = Len(written)
        BY <1>3, <2>2 DEF StartsAt
      <3>3. parse.next \in {"first", "whole"}
        BY <3>2 DEF Expected
      <3> QED BY <1>7, <3>1, <3>2, <3>3 DEF StartsAt, Expected, TextsRead
    <2> QED BY <2>1, <2>2
  <1> QED BY <1>2, <1>6, <1>8, <1>9 DEF Following

\* A handler that ends leaves part of a frame.
LEMMA LessToRead ==
    ASSUME SocketInv, listener # "ended", handler' = "closed", out' = <<>>,
           UNCHANGED <<written, listener, buffer, down, parse, shown>>
    PROVE  Following'
  <1> PICK L : Lie(written, L, Unread) /\ StartsAt(L) /\ EndsAt(L)
    BY DEF SocketInv, StreamInv, Following
  <1>1. /\ Unread \in Seq(Field) /\ Unread' \in Seq(Field) /\ Len(Unread') <= Len(Unread)
        /\ \A i \in DOMAIN Unread' : Unread'[i] = Unread[i]
    BY DEF Unread, SocketInv, SocketTypeOK
  <1>2. PICK K : Lie(written, K, Unread') /\ DOMAIN K = DOMAIN Unread' /\ \A i \in DOMAIN Unread' : K[i] = L[i]
    BY <1>1, LiePrefix
  <1>3. K # <<>> => L # <<>> /\ K[1] = L[1]
    <2>1. DOMAIN L = 1 .. Len(Unread) /\ DOMAIN K = 1 .. Len(Unread') /\ Len(Unread) \in Nat /\ Len(Unread') \in Nat
      BY <1>1, <1>2 DEF Lie
    <2> QED BY <1>1, <1>2, <2>1
  <1>4. StartsAt(K)'
    BY <1>3 DEF StartsAt, Expected, TextsRead
  <1>5. EndsAt(K)'
    BY DEF EndsAt
  <1> QED BY <1>2, <1>4, <1>5 DEF Following

\* A field is taken from the buffer.
LEMMA TakenFromBuffer ==
    ASSUME SocketInv, buffer # <<>>, buffer' = Tail(buffer), UNCHANGED <<handler, out, written, down>>,
           NEW L, Lie(written, L, Unread), EndsAt(L)
    PROVE  /\ L # <<>> /\ Fits(written, L[1]) /\ Head(buffer) = FieldAt(written, L[1])
           /\ \E K : /\ Lie(written, K, Unread')  /\ EndsAt(K)'
                     /\ K # <<>> => Follows(written, L[1], K[1])
                     /\ K = <<>> /\ handler # "closed" =>
                          IsLast(L[1]) /\ TextsBy(L[1]) = Len(written)
  <1>1. /\ Unread \in Seq(Field) /\ Unread # <<>> /\ Unread[1] = Head(buffer)
        /\ Unread' = Tail(Unread)
    <2>1. buffer \in Seq(Field) /\ down \in Seq(Field) /\ out \in Seq(Field)
      BY DEF SocketInv, SocketTypeOK
    <2> PICK r : r = down \o out
      OBVIOUS
    <2>2. r \in Seq(Field)
      BY <2>1, ConcatProperties
    <2>3. Unread = buffer \o r
      BY <2>1, ConcatAssociative, SMTT(30) DEF Unread
    <2> PICK t : t = Tail(buffer)
      OBVIOUS
    <2>4. t \in Seq(Field)
      BY <2>1
    <2>5. Unread' = t \o r
      <3>1. Unread' = (t \o down) \o out
        BY DEF Unread
      <3>2. (t \o down) \o out = t \o (down \o out)
        BY <2>1, <2>4, ConcatAssociative, SMTT(30)
      <3> QED BY <3>1, <3>2
    <2>6. t \o r = Tail(buffer \o r)
      <3>1. t \o r \in Seq(Field) /\ Tail(buffer \o r) \in Seq(Field)
        BY <2>1, <2>2, <2>4
      <3>2. Len(t \o r) = Len(Tail(buffer \o r))
        BY <2>1, <2>2, <2>4
      <3>3. \A i \in 1 .. Len(Tail(buffer \o r)) : (t \o r)[i] = Tail(buffer \o r)[i]
        BY <2>1, <2>2, <2>4
      <3> QED BY <3>1, <3>2, <3>3, SeqEqual
    <2>7. Unread \in Seq(Field) /\ Unread # <<>> /\ Unread[1] = buffer[1]
      BY UnreadIs DEF SocketInv
    <2>8. buffer[1] = Head(buffer)
      BY <2>1
    <2>9. Unread' = Tail(Unread)
      <3>1. Tail(Unread) = Tail(buffer \o r)
        BY <2>3
      <3> QED BY <2>5, <2>6, <3>1
    <2> QED BY <2>7, <2>8, <2>9
  <1>2. DOMAIN L = 1 .. Len(Unread) /\ Len(Unread) \in Nat \ {0} /\ L # <<>> /\ Len(L) = Len(Unread)
    BY <1>1 DEF Lie
  <1>3. Fits(written, L[1]) /\ Head(buffer) = FieldAt(written, L[1])
    BY <1>1, <1>2 DEF Lie
  <1>4. PICK K : /\ Lie(written, K, Tail(Unread))
                 /\ DOMAIN K = 1 .. Len(Unread) - 1 /\ \A i \in 1 .. Len(Unread) - 1 : K[i] = L[i + 1]
    BY <1>1, LieTail
  <1>5. CASE K = <<>>
    <2>1. Len(Unread) = 1
      <3>1. 1 \notin DOMAIN K
        BY <1>5
      <3> QED BY <1>2, <1>4, <3>1
    <2> QED BY <1>1, <1>2, <1>3, <1>4, <1>5, <2>1 DEF EndsAt
  <1>6. CASE K # <<>>
    <2> PICK m : m = Len(Unread) - 1
      OBVIOUS
    <2>1. m \in Nat /\ m # 0 /\ DOMAIN K = 1 .. m
      <3>1. m \in Nat /\ DOMAIN K = 1 .. m
        BY <1>2, <1>4
      <3>2. CASE m = 0
        <4>1. K = <<>>
          BY <1>4, <3>1, <3>2 DEF Lie
        <4> QED BY <1>6, <4>1
      <3> QED BY <3>1, <3>2
    <2>2. K[1] = L[2]
      <3>1. 1 \in 1 .. m
        BY <2>1
      <3> QED BY <1>4, <3>1
    <2>3. Len(K) = m /\ K[m] = L[m + 1] /\ m + 1 = Len(L)
      BY <1>2, <1>4, <2>1
    <2>4. Follows(written, L[1], L[2])
      <3> PICK i : i = 1
        OBVIOUS
      <3>1. i \in DOMAIN Unread /\ i + 1 \in DOMAIN Unread /\ i + 1 = 2
        BY <1>1, <1>2, <2>1
      <3>2. Follows(written, L[i], L[i + 1])
        BY <3>1 DEF Lie
      <3> QED BY <3>1, <3>2
    <2>5. EndsAt(K)'
      BY <1>2, <2>3 DEF EndsAt
    <2> QED BY <1>1, <1>2, <1>3, <1>4, <1>6, <2>2, <2>4, <2>5
  <1> QED BY <1>5, <1>6

\* A field that the socket takes, and fields that the reader takes.
LEMMA FieldsMove ==
    ASSUME NEW a \in Seq(Field), NEW b \in Seq(Field), NEW c \in Seq(Field)
    PROVE  /\ c # <<>> => a \o Append(b, Head(c)) \o Tail(c) = a \o b \o c
           /\ \A k \in 1 .. Len(b) :
                /\ SubSeq(b, 1, k) \in Seq(Field) /\ SubSeq(b, k + 1, Len(b)) \in Seq(Field)
                /\ Len(SubSeq(b, k + 1, Len(b))) <= Len(b)
                /\ SubSeq(b, 1, k) \o SubSeq(b, k + 1, Len(b)) \o c = <<>> \o b \o c
  <1>1. ASSUME c # <<>> PROVE a \o Append(b, Head(c)) \o Tail(c) = a \o b \o c
    <2> PICK h, t : h = Head(c) /\ t = Tail(c)
      OBVIOUS
    <2>1. h \in Field /\ t \in Seq(Field) /\ Len(c) = Len(t) + 1 /\ c[1] = h /\ \A i \in 1 .. Len(t) : t[i] = c[i + 1]
      BY <1>1
    <2> PICK g : g = <<h>>
      OBVIOUS
    <2>2. g \in Seq(Field) /\ Len(g) = 1 /\ g[1] = h
      BY <2>1, Singles
    <2>3. g \o t = c
      <3>1. g \o t \in Seq(Field) /\ Len(g \o t) = Len(c)
        BY <2>1, <2>2
      <3>2. \A i \in 1 .. Len(g \o t) : (g \o t)[i] = c[i]
        BY <2>1, <2>2, ConcatProperties
      <3> QED BY <3>1, <3>2, SeqEqual
    <2>4. Append(b, h) = b \o g
      BY <2>1, AppendIsConcat
    <2>5. a \o (b \o g) = (a \o b) \o g
      BY <2>2, ConcatAssociative
    <2>6. ((a \o b) \o g) \o t = (a \o b) \o (g \o t)
      <3>1. a \o b \in Seq(Field)
        BY SMTT(30)
      <3> QED BY <2>1, <2>2, <3>1, ConcatAssociative, SMTT(30)
    <2> QED BY <2>3, <2>4, <2>5, <2>6
  <1>2. ASSUME NEW k \in 1 .. Len(b)
        PROVE  /\ SubSeq(b, 1, k) \in Seq(Field) /\ SubSeq(b, k + 1, Len(b)) \in Seq(Field)
               /\ Len(SubSeq(b, k + 1, Len(b))) <= Len(b)
               /\ SubSeq(b, 1, k) \o SubSeq(b, k + 1, Len(b)) \o c = <<>> \o b \o c
    <2>1. SubSeq(b, 1, k) \o SubSeq(b, k + 1, Len(b)) = SubSeq(b, 1, Len(b))
      <3>1. 1 \in 1 .. Len(b) + 1 /\ k \in 0 .. Len(b) /\ Len(b) \in k .. Len(b)
        OBVIOUS
      <3> QED BY <3>1, ConcatAdjacentSubSeq
    <2>2. SubSeq(b, 1, Len(b)) = b /\ <<>> \o b = b
      BY SubSeqFull, ConcatEmptySeq
    <2>3. SubSeq(b, 1, k) \in Seq(Field)
      OBVIOUS
    <2>4. SubSeq(b, k + 1, Len(b)) \in Seq(Field) /\ Len(SubSeq(b, k + 1, Len(b))) <= Len(b)
      OBVIOUS
    <2> QED BY <2>1, <2>2, <2>3, <2>4
  <1> QED BY <1>1, <1>2

\* What an action of the handler or of the network has to leave as it was.
LEMMA ListenerUntouched ==
    ASSUME SocketInv, UNCHANGED <<listener, buffer, parse, shown, pongs>>,
           written' = written \/ \E n \in Size : written' = Append(written, n),
           handler' # "upgrading" \/ (handler' = handler /\ Unread' = Unread /\ written' = written)
    PROVE  TextsArriveWhole' /\ ParseInv'
  <1>1. /\ Len(written) \in Nat /\ Len(written') \in Nat /\ Len(written) <= Len(written')
        /\ \A i \in 1 .. Len(written) : written'[i] = written[i]
    <2> PICK w : w = written'
      OBVIOUS
    <2>1. written \in Seq(Size)
      BY DEF SocketInv, SocketTypeOK
    <2>2. CASE w = written
      BY <2>1, <2>2
    <2>3. CASE \E n \in Size : w = Append(written, n)
      BY <2>1, <2>3
    <2> QED BY <2>2, <2>3
  <1>2. Len(shown) \in Nat /\ TextsRead \in Nat
    BY DEF SocketInv, SocketTypeOK, TextsRead
  <1>3. TextsRead' = TextsRead
    BY DEF TextsRead
  <1>4. parse.next = "whole" /\ parse.opcode = opText => Len(shown) + 1 \in 1 .. Len(written)
    BY <1>1, <1>2 DEF SocketInv, StreamInv, ParseInv, TextsRead
  <1>5. TextsArriveWhole'
    BY <1>1, <1>2, <1>4 DEF SocketInv, TextsArriveWhole
  <1>6. ParseInv'
    BY <1>1, <1>2, <1>3 DEF SocketInv, StreamInv, ParseInv
  <1> QED BY <1>5, <1>6

\* The next step of a connection keeps the invariant.
LEMMA InvAccept ==
    ASSUME SocketInv, AcceptWebSocket
    PROVE  SocketInv'
  <1> USE DEF AcceptWebSocket
  <1>1. Upgraded \in Field
    BY DEF Upgraded, Run, Field
  <1>2. /\ out' = <<Upgraded>> /\ out' \in Seq(Field) /\ Len(out') = 1 /\ out'[1] = Upgraded
        /\ out' # <<>> /\ DOMAIN out' = 1 .. 1
    BY <1>1, Singles
  <1>3. SocketTypeOK'
    BY <1>2 DEF SocketInv, SocketTypeOK
  <1>4. TextsArriveWhole' /\ ParseInv'
    BY ListenerUntouched
  <1>5. ASSUME listener' # "ended" PROVE Following'
    <2>1. /\ listener = "upgrading" /\ Unread = <<>> /\ written = <<>> /\ shown = <<>>
          /\ parse.next = "first"
      BY <1>5 DEF SocketInv, StreamInv, ParseInv, SocketTypeOK
    <2>2. Unread' = out'
      <3>1. buffer = <<>> /\ down = <<>>
        BY <2>1, UnreadIs DEF SocketInv
      <3>2. buffer' = <<>> /\ down' = <<>> /\ <<>> \o <<>> \o out' = out'
        BY <1>2, <3>1
      <3> QED BY <3>2 DEF Unread
    <2> PICK e : e = PlaceOf("answer", opText, 0)
      OBVIOUS
    <2>3. e \in Place /\ e.next = "answer" /\ e.before = 0 /\ e.opcode = opText
      BY DEF PlaceOf, Place
    <2>4. Fits(written', e) /\ FieldAt(written', e) = Upgraded
      BY <2>1, <2>3 DEF Fits, FieldAt
    <2> PICK L : L = <<e>>
      OBVIOUS
    <2>5. L \in Seq(Place) /\ DOMAIN L = 1 .. 1 /\ Len(L) = 1 /\ L[1] = e /\ L # <<>>
      BY <2>3, Singles
    <2>6. Lie(written, L, Unread)'
      <3>1. \A i \in 1 .. 1 : i = 1 /\ i + 1 \notin 1 .. 1
        OBVIOUS
      <3> QED BY <1>2, <2>2, <2>4, <2>5, <3>1 DEF Lie
    <2>7. StartsAt(L)'
      BY <2>1, <2>3, <2>5 DEF StartsAt, Expected, TextsRead
    <2>8. EndsAt(L)'
      BY <2>1, <2>3, <2>5 DEF EndsAt, IsLast, TextsBy
    <2> QED BY <2>6, <2>7, <2>8 DEF Following
  <1> QED BY <1>3, <1>4, <1>5 DEF SocketInv, StreamInv

LEMMA InvWriteText ==
    ASSUME SocketInv, NEW n \in Size, WriteText(n)
    PROVE  SocketInv'
  <1> USE DEF WriteText
  <1>1. written \in Seq(Size) /\ written' = Append(written, n) /\ out' = Frame(opText, n, Len(written) + 1)
    BY DEF SocketInv, SocketTypeOK
  <1>2. /\ written' \in Seq(Size) /\ Len(written') = Len(written) + 1
        /\ \A i \in 1 .. Len(written) : written'[i] = written[i]
    BY <1>1
  <1>3. /\ out' \in Seq(Field) /\ out' # <<>>
        /\ \E L : AreFrame(written', L, out', Len(written), Len(written) + 1)
    <2> PICK w, v, s : w = written /\ v = written' /\ s = out'
      OBVIOUS
    <2>1. w \in Seq(Size) /\ v = Append(w, n) /\ s = Frame(opText, n, Len(w) + 1)
      BY <1>1
    <2>2. s \in Seq(Field) /\ s # <<>> /\ \E L : AreFrame(v, L, s, Len(w), Len(w) + 1)
      BY <2>1, FrameLies
    <2> QED BY <2>2
  <1>4. SocketTypeOK'
    <2>1. Len(written') <= MaxTexts
      BY <1>1, <1>2, SizeIs
    <2> QED BY <1>2, <1>3, <2>1 DEF SocketInv, SocketTypeOK
  <1>5. TextsArriveWhole' /\ ParseInv'
    BY <1>1, ListenerUntouched
  <1>6. ASSUME listener' # "ended" PROVE Following'
    <2> PICK M : AreFrame(written', M, out', Len(written), Len(written'))
      BY <1>2, <1>3
    <2>1. \A L : Lie(written, L, Unread) => Lie(written', L, Unread)
      BY <1>1, LieMore
    <2>2. listener # "ended"
      BY <1>6
    <2> QED BY <1>2, <1>3, <2>1, <2>2, MoreToRead
  <1> QED BY <1>4, <1>5, <1>6 DEF SocketInv, StreamInv

LEMMA InvWritePing ==
    ASSUME SocketInv, WritePing
    PROVE  SocketInv'
  <1> USE DEF WritePing
  <1>1. written \in Seq(Size) /\ written' = written /\ out' = Frame(opPing, 0, 0)
    BY DEF SocketInv, SocketTypeOK
  <1>2. /\ out' \in Seq(Field) /\ out' # <<>>
        /\ \E L : AreFrame(written, L, out', Len(written), Len(written))
    BY <1>1, PingLies
  <1>3. SocketTypeOK'
    BY <1>2 DEF SocketInv, SocketTypeOK
  <1>4. TextsArriveWhole' /\ ParseInv'
    BY ListenerUntouched
  <1>5. ASSUME listener' # "ended" PROVE Following'
    <2> PICK M : AreFrame(written', M, out', Len(written), Len(written'))
      BY <1>1, <1>2
    <2>1. \A L : Lie(written, L, Unread) => Lie(written', L, Unread)
      BY <1>1
    <2>2. listener # "ended"
      BY <1>5
    <2> QED BY <1>1, <1>2, <2>1, <2>2, MoreToRead
  <1> QED BY <1>3, <1>4, <1>5 DEF SocketInv, StreamInv

LEMMA InvFlush ==
    ASSUME SocketInv, Flush
    PROVE  SocketInv'
  <1> USE DEF Flush
  <1>1. buffer \in Seq(Field) /\ down \in Seq(Field) /\ out \in Seq(Field) /\ out # <<>>
    BY DEF SocketInv, SocketTypeOK
  <1>2. Unread' = Unread
    BY <1>1, FieldsMove DEF Unread
  <1>3. SocketTypeOK'
    <2>1. Head(out) \in Field /\ Tail(out) \in Seq(Field) /\ Len(Tail(out)) = Len(out) - 1 /\ Len(out) \in Nat
      BY <1>1
    <2>2. down' \in Seq(Field) /\ Len(down') = Len(down) + 1
      BY <1>1, <2>1
    <2>3. Len(down') <= Room
      BY <1>1, <2>2, SizeIs
    <2>4. Tail(out) = <<>> <=> Len(out) = 1
      BY <2>1
    <2> QED BY <2>1, <2>2, <2>3, <2>4 DEF SocketInv, SocketTypeOK
  <1>4. TextsArriveWhole' /\ ParseInv'
    BY ListenerUntouched
  <1>5. ASSUME listener' # "ended" PROVE Following'
    <2> PICK L : Lie(written, L, Unread) /\ StartsAt(L) /\ EndsAt(L)
      BY <1>5 DEF SocketInv, StreamInv, Following
    <2>1. Unread # <<>>
      BY <1>1, UnreadIs DEF SocketInv
    <2>2. Expected' = Expected /\ TextsRead' = TextsRead
      BY DEF Expected, TextsRead
    <2> QED BY <1>2, <2>1, <2>2, SameStream DEF SocketInv
  <1> QED BY <1>3, <1>4, <1>5 DEF SocketInv, StreamInv

\* A write that fails, and a handler that is interrupted.
LEMMA InvClose ==
    ASSUME SocketInv, handler' = "closed", out' = <<>>,
           UNCHANGED <<written, down, listener, buffer, parse, shown, pongs, cut>>
    PROVE  SocketInv'
  <1>1. SocketTypeOK'
    BY DEF SocketInv, SocketTypeOK
  <1>2. TextsArriveWhole' /\ ParseInv'
    BY ListenerUntouched
  <1>3. ASSUME listener' # "ended" PROVE Following'
    BY <1>3, LessToRead
  <1> QED BY <1>1, <1>2, <1>3 DEF SocketInv, StreamInv

LEMMA InvFill ==
    ASSUME SocketInv, Fill
    PROVE  SocketInv'
  <1> USE DEF Fill
  <1>1. /\ buffer = <<>> /\ down \in Seq(Field) /\ out \in Seq(Field) /\ out' = out
        /\ DOMAIN down = 1 .. Len(down)
    BY DEF SocketInv, SocketTypeOK
  <1> PICK k \in 1 .. Len(down) : buffer' = SubSeq(down, 1, k) /\ down' = SubSeq(down, k + 1, Len(down))
    BY <1>1
  <1>2. /\ Unread' = Unread /\ buffer' \in Seq(Field) /\ down' \in Seq(Field) /\ Len(down') <= Len(down)
    <2>1. /\ SubSeq(down, 1, k) \in Seq(Field) /\ SubSeq(down, k + 1, Len(down)) \in Seq(Field)
          /\ Len(SubSeq(down, k + 1, Len(down))) <= Len(down)
          /\ SubSeq(down, 1, k) \o SubSeq(down, k + 1, Len(down)) \o out = <<>> \o down \o out
      BY <1>1, FieldsMove
    <2> QED BY <1>1, <2>1 DEF Unread
  <1>3. SocketTypeOK'
    <2>1. Len(down') \in Nat /\ Len(down) \in Nat /\ Len(down) <= Room /\ Room \in Nat
      BY <1>1, <1>2, SizeIs DEF SocketInv, SocketTypeOK
    <2>2. Len(down') <= Room
      BY <1>2, <2>1
    <2> QED BY <1>2, <2>2 DEF SocketInv, SocketTypeOK
  <1>4. TextsArriveWhole'
    BY DEF SocketInv, TextsArriveWhole
  <1>5. Expected' = Expected /\ TextsRead' = TextsRead
    BY DEF Expected, TextsRead
  <1>6. ParseInv'
    BY <1>2, <1>5 DEF SocketInv, StreamInv, ParseInv
  <1>7. Following'
    <2> PICK L : Lie(written, L, Unread) /\ StartsAt(L) /\ EndsAt(L)
      BY DEF SocketInv, StreamInv, Following
    <2> QED BY <1>2, <1>5, SameStream DEF SocketInv
  <1> QED BY <1>3, <1>4, <1>6, <1>7 DEF SocketInv, StreamInv

LEMMA InvVerify ==
    ASSUME SocketInv, VerifyServerHandshake
    PROVE  SocketInv'
  <1> USE DEF VerifyServerHandshake
  <1>1. buffer \in Seq(Field) /\ buffer # <<>> /\ Tail(buffer) \in Seq(Field)
    BY DEF SocketInv, SocketTypeOK
  <1>2. SocketTypeOK'
    BY <1>1 DEF SocketInv, SocketTypeOK
  <1>3. TextsArriveWhole'
    BY DEF SocketInv, TextsArriveWhole
  <1>4. parse.next = "first" /\ shown = <<>> /\ TextsRead = 0 /\ TextsRead' = 0 /\ handler # "upgrading"
    <2>1. parse.next = "first" /\ shown = <<>> /\ handler # "upgrading"
      BY <1>1, UnreadIs DEF SocketInv, StreamInv, ParseInv
    <2> QED BY <2>1 DEF TextsRead
  <1>5. ParseInv'
    BY <1>4 DEF SocketInv, StreamInv, ParseInv
  <1>6. Following'
    <2> PICK L : Lie(written, L, Unread) /\ StartsAt(L) /\ EndsAt(L)
      BY DEF SocketInv, StreamInv, Following
    <2>1. L # <<>>
      BY <1>1, TakenFromBuffer
    <2> PICK K : /\ Lie(written, K, Unread') /\ EndsAt(K)'
                 /\ K # <<>> => Follows(written, L[1], K[1])
                 /\ K = <<>> /\ handler # "closed" =>
                      IsLast(L[1]) /\ TextsBy(L[1]) = Len(written)
      BY <1>1, TakenFromBuffer
    <2>2. L[1].next = "answer" /\ L[1].before = 0
      BY <1>4, <2>1 DEF StartsAt, Expected
    <2>3. IsLast(L[1]) /\ TextsBy(L[1]) = 0
      BY <2>2 DEF IsLast, TextsBy
    <2>4. K # <<>> => K[1].next = "first" /\ K[1].before = 0
      BY <2>3 DEF Follows
    <2>5. Expected' = "first"
      BY <1>4 DEF Expected
    <2>6. StartsAt(K)'
      BY <1>4, <2>3, <2>4, <2>5 DEF StartsAt
    <2> QED BY <2>6 DEF Following
  <1> QED BY <1>2, <1>3, <1>5, <1>6 DEF SocketInv, StreamInv

\* The heart of the proof: the listener takes the next field for what it is.
LEMMA InvReadFrame ==
    ASSUME SocketInv, ReadFrame
    PROVE  SocketInv'
  <1> USE DEF ReadFrame
  <1>1. buffer \in Seq(Field) /\ buffer # <<>> /\ Tail(buffer) \in Seq(Field)
    BY DEF SocketInv, SocketTypeOK
  <1>2. parse \in Parsing /\ parse.next \notin {"whole", "lost"} /\ written \in Seq(Size)
    BY DEF SocketInv, SocketTypeOK
  <1>3. TextsRead = Len(shown) /\ Len(shown) \in Nat /\ handler # "upgrading"
    <2>1. handler # "upgrading"
      BY DEF SocketInv, StreamInv, ParseInv
    <2> QED BY <1>2, <2>1 DEF TextsRead, SocketInv, SocketTypeOK
  <1> PICK L : Lie(written, L, Unread) /\ StartsAt(L) /\ EndsAt(L)
    BY DEF SocketInv, StreamInv, Following
  <1>4. L # <<>> /\ Fits(written, L[1]) /\ Head(buffer) = FieldAt(written, L[1])
    BY <1>1, TakenFromBuffer
  <1> PICK K : /\ Lie(written, K, Unread') /\ EndsAt(K)'
               /\ K # <<>> => Follows(written, L[1], K[1])
               /\ K = <<>> /\ handler # "closed" =>
                    IsLast(L[1]) /\ TextsBy(L[1]) = Len(written)
    BY <1>1, TakenFromBuffer
  <1> PICK e, f, q : e = L[1] /\ f = Head(buffer) /\ q = Parse(parse, f.value)
    OBVIOUS
  <1>5. /\ e.next = parse.next /\ e.next # "answer" /\ e.before = Len(shown)
        /\ parse.next # "first" => parse.opcode = e.opcode
        /\ parse.next = "payload" => parse.length = LengthAt(written, e)
    BY <1>2, <1>3, <1>4 DEF StartsAt, Expected, Parsing
  <1>6. /\ f.bytes = Wanted(parse)
        /\ q \in Parsing /\ q.next \notin {"lost", "first"} /\ q.opcode = e.opcode
        /\ q.next = "whole" <=> IsLast(e)
        /\ q.next = "whole" /\ q.opcode = opText =>
             /\ q.text = e.before + 1 /\ q.length = written[e.before + 1]
             /\ TextsBy(e) = e.before + 1
        /\ q.next = "whole" /\ q.opcode = opPing => TextsBy(e) = e.before
        /\ q.next # "whole" => \A g : Follows(written, e, g) =>
             /\ g.next = q.next /\ g.before = e.before /\ g.opcode = e.opcode
             /\ q.next = "payload" => q.length = LengthAt(written, g)
    <2>1. Fits(written, e) /\ f = FieldAt(written, e)
      BY <1>4
    <2> QED BY <1>2, <1>5, <2>1, ReadsOn
  <1>7. parse' = q
    BY <1>6
  <1>8. SocketTypeOK'
    BY <1>1, <1>6, <1>7 DEF SocketInv, SocketTypeOK
  <1>9. /\ e.opcode \in {opText, opPing} /\ e.before \in Nat /\ Len(written) \in Nat
        /\ e.opcode = opText => e.before < Len(written)
        /\ e.before <= Len(written)
    BY <1>2, <1>4, <1>5 DEF Fits, Place
  <1>10. TextsArriveWhole'
    BY <1>5, <1>6, <1>7 DEF SocketInv, TextsArriveWhole
  <1>11. TextsRead' = IF q.next = "whole" THEN TextsBy(e) ELSE e.before
    <2>1. TextsRead' = Len(shown) + (IF q.next = "whole" /\ q.opcode = opText THEN 1 ELSE 0)
      BY <1>7 DEF TextsRead
    <2>2. CASE q.next = "whole" /\ q.opcode = opText
      BY <1>5, <1>6, <2>1, <2>2
    <2>3. CASE q.next = "whole" /\ q.opcode = opPing
      BY <1>3, <1>5, <1>6, <2>1, <2>3 DEF opText, opPing
    <2>4. CASE q.next # "whole"
      BY <1>3, <1>5, <2>1, <2>4
    <2> QED BY <1>6, <1>9, <2>2, <2>3, <2>4
  <1>12. TextsRead' <= Len(written)
    BY <1>6, <1>9, <1>11
  <1>13. ParseInv'
    BY <1>3, <1>6, <1>7, <1>9, <1>12 DEF SocketInv, StreamInv, ParseInv
  <1>14. Expected' = IF q.next = "whole" THEN "first" ELSE q.next
    BY <1>7 DEF Expected
  <1>15. StartsAt(K)'
    <2>1. CASE K = <<>>
      <3>1. ASSUME handler \in {"polling", "writing"}
            PROVE  Expected' = "first" /\ TextsRead' = Len(written)
        <4>1. IsLast(e) /\ TextsBy(e) = Len(written)
          BY <2>1, <3>1
        <4> QED BY <1>6, <1>11, <1>14, <4>1
      <3> QED BY <2>1, <3>1 DEF StartsAt
    <2>2. CASE K # <<>>
      <3> PICK g : g = K[1]
        OBVIOUS
      <3>1. Follows(written, e, g)
        BY <2>2
      <3>2. CASE q.next = "whole"
        <4>1. g.next = "first" /\ g.before = TextsBy(e)
          BY <1>6, <3>1, <3>2 DEF Follows
        <4> QED BY <1>7, <1>11, <1>14, <2>2, <3>2, <4>1 DEF StartsAt
      <3>3. CASE q.next # "whole"
        <4>1. /\ g.next = q.next /\ g.before = e.before /\ g.opcode = e.opcode
              /\ q.next = "payload" => q.length = LengthAt(written, g)
          BY <1>6, <3>1, <3>3
        <4> QED BY <1>6, <1>7, <1>11, <1>14, <2>2, <3>3, <4>1 DEF StartsAt
      <3> QED BY <3>2, <3>3
    <2> QED BY <2>1, <2>2
  <1>16. Following'
    BY <1>15 DEF Following
  <1> QED BY <1>8, <1>10, <1>13, <1>16 DEF SocketInv, StreamInv

LEMMA NewFrameIs == NewFrame \in Parsing /\ NewFrame.next = "first"
  BY DEF NewFrame, Parsing

LEMMA InvReadText ==
    ASSUME SocketInv, ReadText
    PROVE  SocketInv'
  <1> USE DEF ReadText
  <1>1. /\ shown \in Seq(1 .. MaxTexts) /\ Len(shown) \in Nat /\ Len(written) \in Nat
        /\ Len(written) <= MaxTexts
    BY SizeIs DEF SocketInv, SocketTypeOK
  <1>2. parse.text = Len(shown) + 1 /\ TextsRead = Len(shown) + 1 /\ TextsRead <= Len(written)
    BY DEF SocketInv, StreamInv, ParseInv, TextsArriveWhole, TextsRead
  <1>3. parse.text \in 1 .. MaxTexts
    BY <1>1, <1>2, SizeIs
  <1>4. /\ shown' \in Seq(1 .. MaxTexts) /\ Len(shown') = Len(shown) + 1
        /\ \A i \in 1 .. Len(shown) : shown'[i] = shown[i]
        /\ shown'[Len(shown) + 1] = parse.text
        /\ DOMAIN shown = 1 .. Len(shown) /\ DOMAIN shown' = 1 .. Len(shown) + 1
    BY <1>1, <1>3
  <1>5. SocketTypeOK'
    BY <1>4, NewFrameIs DEF SocketInv, SocketTypeOK
  <1>6. TextsRead' = TextsRead
    BY <1>2, <1>4, NewFrameIs DEF TextsRead
  <1>7. TextsArriveWhole'
    <2>1. Len(shown') <= Len(written)
      BY <1>2, <1>4
    <2>2. \A i \in DOMAIN shown' : shown'[i] = i
      BY <1>1, <1>2, <1>4 DEF SocketInv, TextsArriveWhole
    <2> QED BY <2>1, <2>2, NewFrameIs DEF TextsArriveWhole
  <1>8. ParseInv'
    BY <1>2, <1>6, NewFrameIs DEF SocketInv, StreamInv, ParseInv, Unread
  <1>9. Following'
    <2> PICK L : Lie(written, L, Unread) /\ StartsAt(L) /\ EndsAt(L)
      BY DEF SocketInv, StreamInv, Following
    <2>1. Unread' = Unread
      BY DEF Unread
    <2>2. Expected' = Expected
      BY NewFrameIs DEF Expected
    <2> QED BY <1>6, <2>1, <2>2, NewFrameIs, SameStream DEF SocketInv
  <1> QED BY <1>5, <1>7, <1>8, <1>9 DEF SocketInv, StreamInv

LEMMA InvWritePong ==
    ASSUME SocketInv, WritePong
    PROVE  SocketInv'
  <1> USE DEF WritePong, Pinged
  <1>1. pongs' \in 0 .. PongRoom
    BY SizeIs DEF SocketInv, SocketTypeOK
  <1>2. SocketTypeOK'
    BY <1>1, NewFrameIs DEF SocketInv, SocketTypeOK
  <1>3. TextsRead' = TextsRead
    BY NewFrameIs DEF TextsRead, opText, opPing
  <1>4. TextsArriveWhole'
    BY NewFrameIs DEF SocketInv, TextsArriveWhole
  <1>5. ParseInv'
    BY <1>3, NewFrameIs DEF SocketInv, StreamInv, ParseInv, Unread
  <1>6. Following'
    <2> PICK L : Lie(written, L, Unread) /\ StartsAt(L) /\ EndsAt(L)
      BY DEF SocketInv, StreamInv, Following
    <2>1. Unread' = Unread
      BY DEF Unread
    <2>2. Expected' = Expected
      BY NewFrameIs DEF Expected
    <2> QED BY <1>3, <2>1, <2>2, NewFrameIs, SameStream DEF SocketInv
  <1> QED BY <1>2, <1>4, <1>5, <1>6 DEF SocketInv, StreamInv

LEMMA InvEnd ==
    ASSUME SocketInv, End
    PROVE  SocketInv'
  <1> USE DEF End
  <1>1. <<>> \in Seq(Field)
    OBVIOUS
  <1>2. SocketTypeOK'
    BY <1>1, NewFrameIs DEF SocketInv, SocketTypeOK
  <1>3. TextsArriveWhole'
    BY NewFrameIs DEF SocketInv, TextsArriveWhole
  <1>4. TextsRead' <= Len(written)
    <2>1. TextsRead' = Len(shown)
      BY NewFrameIs DEF TextsRead, SocketInv, SocketTypeOK
    <2> QED BY <2>1 DEF SocketInv, TextsArriveWhole
  <1>5. handler = "upgrading" => Unread' = <<>>
    <2> SUFFICES ASSUME handler = "upgrading" PROVE Unread' = <<>>
      OBVIOUS
    <2>1. down = <<>> /\ out = <<>>
      BY UnreadIs DEF SocketInv, StreamInv, ParseInv
    <2>2. <<>> \o <<>> \o <<>> = <<>>
      OBVIOUS
    <2> QED BY <2>1, <2>2 DEF Unread
  <1>6. ParseInv'
    BY <1>4, <1>5, NewFrameIs DEF SocketInv, StreamInv, ParseInv
  <1> QED BY <1>2, <1>3, <1>6 DEF SocketInv, StreamInv

\* The network is cut, or nothing happens.
LEMMA InvCut ==
    ASSUME SocketInv, cut' \in BOOLEAN,
           UNCHANGED <<handler, out, written, down, listener, buffer, parse, shown, pongs>>
    PROVE  SocketInv'
  <1>1. SocketTypeOK'
    BY DEF SocketInv, SocketTypeOK
  <1>2. Unread' = Unread
    BY DEF Unread
  <1>3. TextsArriveWhole' /\ ParseInv'
    BY <1>2, ListenerUntouched
  <1>4. ASSUME listener' # "ended" PROVE Following'
    <2> PICK L : Lie(written, L, Unread) /\ StartsAt(L) /\ EndsAt(L)
      BY <1>4 DEF SocketInv, StreamInv, Following
    <2>1. Expected' = Expected /\ TextsRead' = TextsRead
      BY DEF Expected, TextsRead
    <2> QED BY <1>2, <2>1, SameStream DEF SocketInv
  <1> QED BY <1>1, <1>3, <1>4 DEF SocketInv, StreamInv

-----------------------------------------------------------------------------
(* The theorems about a socket.                                            *)

LEMMA SocketStarts == SocketInit => SocketInv
  <1> SUFFICES ASSUME SocketInit PROVE SocketInv
    OBVIOUS
  <1> USE DEF SocketInit
  <1>1. \A S : <<>> \in Seq(S)
    OBVIOUS
  <1>2. Len(<<>>) = 0 /\ DOMAIN <<>> = 1 .. 0
    BY EmptySeq
  <1>3. SocketTypeOK
    <2>1. out \in Seq(Field) /\ down \in Seq(Field) /\ buffer \in Seq(Field)
      BY <1>1
    <2>2. written \in Seq(Size) /\ shown \in Seq(1 .. MaxTexts)
      BY <1>1
    <2>3. Len(written) <= MaxTexts /\ Len(down) <= Room /\ pongs \in 0 .. PongRoom
      BY <1>2, SizeIs
    <2> QED BY <2>1, <2>2, <2>3, NewFrameIs DEF SocketTypeOK
  <1>4. TextsArriveWhole
    <2>1. \A i : i \notin DOMAIN <<>>
      BY <1>2
    <2> QED BY <1>2, <2>1, NewFrameIs DEF TextsArriveWhole
  <1>5. Unread = <<>>
    BY <1>3, UnreadIs
  <1>6. ParseInv
    BY <1>2, <1>5, NewFrameIs DEF ParseInv, TextsRead
  <1>7. Following
    <2>1. Lie(written, <<>>, Unread)
      <3>1. \A i : i \notin DOMAIN <<>>
        BY <1>2
      <3> QED BY <1>1, <1>5, <3>1 DEF Lie
    <2>2. StartsAt(<<>>) /\ EndsAt(<<>>)
      BY DEF StartsAt, EndsAt
    <2> QED BY <2>1, <2>2 DEF Following
  <1> QED BY <1>3, <1>4, <1>6, <1>7 DEF SocketInv, StreamInv

LEMMA SocketSteps == SocketInv /\ [SocketNext]_socketVars => SocketInv'
  <1> SUFFICES ASSUME SocketInv, [SocketNext]_socketVars PROVE SocketInv'
    OBVIOUS
  <1>1. CASE AcceptWebSocket
    BY <1>1, InvAccept
  <1>2. CASE WritePing
    BY <1>2, InvWritePing
  <1>3. CASE Flush
    BY <1>3, InvFlush
  <1>4. CASE WriteFails
    BY <1>4, InvClose DEF WriteFails
  <1>5. CASE Fill
    BY <1>5, InvFill
  <1>6. CASE VerifyServerHandshake
    BY <1>6, InvVerify
  <1>7. CASE ReadFrame
    BY <1>7, InvReadFrame
  <1>8. CASE ReadText
    BY <1>8, InvReadText
  <1>9. CASE WritePong
    BY <1>9, InvWritePong
  <1>10. CASE PongFails
    BY <1>10, InvEnd DEF PongFails
  <1>11. CASE ReadFails
    BY <1>11, InvEnd DEF ReadFails
  <1>12. CASE \E n \in Size : WriteText(n)
    BY <1>12, InvWriteText
  <1>13. CASE AbortHandler
    BY <1>13, InvClose DEF AbortHandler
  <1>14. CASE Interrupt
    BY <1>14, InvEnd DEF Interrupt
  <1>15. CASE Cut
    BY <1>15, InvCut DEF Cut
  <1>16. CASE UNCHANGED socketVars
    BY <1>16, InvCut DEF socketVars, SocketInv, SocketTypeOK
  <1> QED BY <1>1, <1>2, <1>3, <1>4, <1>5, <1>6, <1>7, <1>8, <1>9, <1>10, <1>11, <1>12, <1>13,
             <1>14, <1>15, <1>16 DEF SocketNext, HandlerStep, ListenerStep

\* The socket's types: a handler that is writing always has bytes left to
\* write, and the bounds of the way to the listener are kept.
THEOREM SocketIsTyped == SocketSpec => []SocketTypeOK
  <1>1. SocketInv => SocketTypeOK
    BY DEF SocketInv
  <1> QED BY <1>1, SocketStarts, SocketSteps, PTL DEF SocketSpec

\* For texts of every length below 2^31, every room on the way and every way
\* the reader cuts the bytes up, the listener shows the texts that were
\* written, whole and in their order, and never loses its place in the frames.
THEOREM TextsAreReadWhole == SocketSpec => []TextsArriveWhole
  <1>1. SocketInv => TextsArriveWhole
    BY DEF SocketInv
  <1> QED BY <1>1, SocketStarts, SocketSteps, PTL DEF SocketSpec
===============================================================================
