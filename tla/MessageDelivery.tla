---------------------------- MODULE MessageDelivery ----------------------------
(***************************************************************************)
(* The Messages service (services/messages/internal): envelopes posted to  *)
(* /messages/send are rows of one table, and every WebSocket of a device   *)
(* has a handler goroutine that polls the table, writes the pending rows   *)
(* as frames and then marks the batch delivered.  Nothing but the table    *)
(* connects the handlers; a device may have several of them at a time, and *)
(* a handler learns that its client is gone only when a write fails.       *)
(***************************************************************************)
EXTENDS Integers, Sequences, FiniteSets

CONSTANTS
    Message, Device, Conn,
    From, To,        \* From[m], To[m]: the devices of message m
    DeviceOf,        \* DeviceOf[c]: the device_id connection c asks for
    Batch,           \* Handler.batch, 50 in the code
    MaxFailures      \* bound: connections that break and handlers that fail

ASSUME DeliveryAssumption ==
    /\ From \in [Message -> Device] /\ To \in [Message -> Device]
    /\ DeviceOf \in [Conn -> Device]
    /\ Batch \in Nat \ {0}
    /\ MaxFailures \in Nat

VARIABLES
    requests,    \* requests[m]: how far the POST of message m got
    sentAt,      \* sentAt[m]: sent_at, taken before the row is inserted
    clock,       \* time.Now
    rows,        \* messages that have a row
    delivered,   \* messages whose delivered_at was set, deleted rows included
    handlers,    \* handlers[c]: the goroutine of connection c
    streams,     \* streams[c]: the envelopes the client read from connection c
    lost,        \* envelopes in frames accepted for a client that was gone
    failures     \* number of failures so far

vars == <<requests, sentAt, clock, rows, delivered, handlers, streams, lost, failures>>

\* batch: the rows read and not marked yet; written: those written as frames.
Handler == [stage : {"unopened", "polling", "writing", "closed"},
            gone : BOOLEAN, batch : SUBSET Message, written : SUBSET Message]

Init ==
    /\ requests = [m \in Message |-> "new"]
    /\ sentAt = [m \in Message |-> 0]
    /\ clock = 1
    /\ rows = {}
    /\ delivered = {}
    /\ handlers = [c \in Conn |-> [stage |-> "unopened", gone |-> FALSE,
                                   batch |-> {}, written |-> {}]]
    /\ streams = [c \in Conn |-> <<>>]
    /\ lost = {}
    /\ failures = 0

-----------------------------------------------------------------------------
(* Sending.                                                                *)

InFlight(d) == {m \in Message : From[m] = d /\ requests[m] = "stamped"}

\* Enqueue takes sent_at.  A client waits for the answer to one POST before
\* it makes the next; POSTs of different devices overlap.
Enqueue(m) ==
    /\ requests[m] = "new"
    /\ InFlight(From[m]) = {}
    /\ requests' = [requests EXCEPT ![m] = "stamped"]
    /\ sentAt' = [sentAt EXCEPT ![m] = clock]
    /\ clock' = clock + 1
    /\ UNCHANGED <<rows, delivered, handlers, streams, lost, failures>>

\* The INSERT commits and the POST is answered.
Create(m) ==
    /\ requests[m] = "stamped"
    /\ requests' = [requests EXCEPT ![m] = "stored"]
    /\ rows' = rows \cup {m}
    /\ UNCHANGED <<sentAt, clock, delivered, handlers, streams, lost, failures>>

-----------------------------------------------------------------------------
(* The handler of a WebSocket.                                             *)

At(c, stage) == handlers[c].stage = stage

\* The handler of connection c goes to another stage.
Goto(c, stage) == handlers' = [handlers EXCEPT ![c].stage = stage]

\* handleWS up to the first sendPending.
Connect(c) ==
    /\ At(c, "unopened")
    /\ Goto(c, "polling")
    /\ UNCHANGED <<requests, sentAt, clock, rows, delivered, streams, lost, failures>>

Earlier(a, b) == sentAt[a] < sentAt[b]

\* Mutant of FirstOf: the query has no ORDER BY.
FirstOfAny(B, S) == B \subseteq S

\* ORDER BY sent_at: B are the first rows of S.
FirstOf(B, S) == \A m \in B, x \in S \ B : Earlier(m, x)

Pending(d) == {m \in rows \ delivered : To[m] = d}

\* Mutant of Page: the query has no LIMIT.
PageUnlimited(d, B) == B = Pending(d)

\* The query of PendingForDevice, LIMIT Batch.
Page(d, B) ==
    /\ B \subseteq Pending(d)
    /\ FirstOf(B, Pending(d))
    /\ Cardinality(B) = IF Cardinality(Pending(d)) > Batch THEN Batch
                        ELSE Cardinality(Pending(d))

\* Without pending rows sendPending does nothing.
ReadPending(c) ==
    /\ At(c, "polling")
    /\ Pending(DeviceOf[c]) # {}
    /\ \E B \in SUBSET Pending(DeviceOf[c]) :
         /\ Page(DeviceOf[c], B)
         /\ handlers' = [handlers EXCEPT ![c] = [@ EXCEPT !.stage = "writing", !.batch = B]]
    /\ UNCHANGED <<requests, sentAt, clock, rows, delivered, streams, lost, failures>>

Unwritten(c) == handlers[c].batch \ handlers[c].written

\* writeFrame of message m, the oldest one left.  The write to a client that
\* is gone may still be accepted by the socket, and the frame is lost; or it
\* fails, which closes the connection and leaves the whole batch unmarked.
WriteFrame(c, m) ==
    /\ At(c, "writing")
    /\ m \in Unwritten(c)
    /\ FirstOf({m}, Unwritten(c))
    /\ \/ /\ ~handlers[c].gone
          /\ streams' = [streams EXCEPT ![c] = Append(@, m)]
          /\ handlers' = [handlers EXCEPT ![c].written = @ \cup {m}]
          /\ UNCHANGED lost
       \/ /\ handlers[c].gone
          /\ lost' = lost \cup {m}
          /\ handlers' = [handlers EXCEPT ![c].written = @ \cup {m}]
          /\ UNCHANGED streams
       \/ /\ handlers[c].gone
          /\ Goto(c, "closed")
          /\ UNCHANGED <<streams, lost>>
    /\ UNCHANGED <<requests, sentAt, clock, rows, delivered, failures>>

\* Mutants of MarkDelivered: the batch is marked before it is written; the
\* handler returns after its first batch.
MarkDeliveredEarly(c) ==
    /\ At(c, "writing")
    /\ delivered' = delivered \cup (handlers[c].batch \cap rows)
    /\ handlers' = [handlers EXCEPT ![c].stage = IF Unwritten(c) = {} THEN "polling" ELSE @]
    /\ UNCHANGED <<requests, sentAt, clock, rows, streams, lost, failures>>

MarkDeliveredAndReturn(c) ==
    /\ At(c, "writing")
    /\ Unwritten(c) = {}
    /\ delivered' = delivered \cup (handlers[c].batch \cap rows)
    /\ handlers' = [handlers EXCEPT ![c] = [@ EXCEPT !.stage = "closed", !.batch = {},
                                                    !.written = {}]]
    /\ UNCHANGED <<requests, sentAt, clock, rows, streams, lost, failures>>

\* The UPDATE after the last frame; rows deleted meanwhile are not there.
MarkDelivered(c) ==
    /\ At(c, "writing")
    /\ Unwritten(c) = {}
    /\ delivered' = delivered \cup (handlers[c].batch \cap rows)
    /\ handlers' = [handlers EXCEPT ![c] = [@ EXCEPT !.stage = "polling", !.batch = {},
                                                    !.written = {}]]
    /\ UNCHANGED <<requests, sentAt, clock, rows, streams, lost, failures>>

\* The ping after a poll finds that the client is gone.
PingFails(c) ==
    /\ At(c, "polling")
    /\ handlers[c].gone
    /\ Goto(c, "closed")
    /\ UNCHANGED <<requests, sentAt, clock, rows, delivered, streams, lost, failures>>

-----------------------------------------------------------------------------
(* Failures, and deletion.                                                 *)

Open(c) == handlers[c].stage \in {"polling", "writing"}
Failing == failures < MaxFailures /\ failures' = failures + 1

\* The client goes away.  The service never reads from the connection.
Break(c) ==
    /\ Open(c) /\ ~handlers[c].gone
    /\ Failing
    /\ handlers' = [handlers EXCEPT ![c].gone = TRUE]
    /\ UNCHANGED <<requests, sentAt, clock, rows, delivered, streams, lost>>

\* A statement fails or the process restarts: the handler ends where it is.
Abort(c) ==
    /\ Open(c)
    /\ Failing
    /\ Goto(c, "closed")
    /\ UNCHANGED <<requests, sentAt, clock, rows, delivered, streams, lost>>

\* DELETE /messages/me
DeleteForDevice(d) ==
    /\ \E m \in rows : d \in {From[m], To[m]}
    /\ rows' = {m \in rows : d \notin {From[m], To[m]}}
    /\ UNCHANGED <<requests, sentAt, clock, delivered, handlers, streams, lost, failures>>

-----------------------------------------------------------------------------

Handle(c) ==
    \/ ReadPending(c)
    \/ \E m \in Message : WriteFrame(c, m)
    \/ MarkDelivered(c)
    \/ PingFails(c)

Next ==
    \/ \E m \in Message : Enqueue(m) \/ Create(m)
    \/ \E c \in Conn : Connect(c) \/ Handle(c) \/ Break(c) \/ Abort(c)
    \/ \E d \in Device : DeleteForDevice(d)

Spec == Init /\ [][Next]_vars

\* The ticker of a handler goes on firing, and the user of a device that lost
\* its connection opens another.
Fairness == \A c \in Conn : WF_vars(Handle(c)) /\ WF_vars(Connect(c))

FairSpec == Spec /\ Fairness

-----------------------------------------------------------------------------
(* Properties.                                                             *)

\* Type correctness; a batch holds Batch rows at most.
TypeOK ==
    /\ requests \in [Message -> {"new", "stamped", "stored"}]
    /\ sentAt \in [Message -> Nat]
    /\ clock \in Nat
    /\ rows \subseteq Message
    /\ delivered \subseteq Message
    /\ handlers \in [Conn -> Handler]
    /\ \A c \in Conn : IsFiniteSet(handlers[c].batch) /\ Cardinality(handlers[c].batch) <= Batch
    /\ streams \in [Conn -> Seq(Message)]
    /\ lost \subseteq Message
    /\ failures \in Nat

Read(m) == \E c \in Conn : \E i \in DOMAIN streams[c] : streams[c][i] = m

\* delivered_at is set only for envelopes whose frame a connection accepted:
\* its client read it, or was gone unnoticed; whatever breaks between the
\* frames of a batch and the UPDATE that marks it.
MarkedWasSent == \A m \in delivered : Read(m) \/ m \in lost

\* What one device sends reaches the other in the order it was sent, and once,
\* on every single connection, although several handlers read the same rows.
SenderOrder ==
    \A c \in Conn : \A i, j \in DOMAIN streams[c] :
        From[streams[c][i]] = From[streams[c][j]] /\ i < j =>
            Earlier(streams[c][i], streams[c][j])

\* In the end every envelope that was accepted is read, unless it is deleted
\* or lost in a frame that was accepted for a client that was gone.
EventuallyRead ==
    <>[](\A m \in Message :
            requests[m] = "stored" => Read(m) \/ m \in lost \/ m \notin rows)
===============================================================================
