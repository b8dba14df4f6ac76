-------------------------------- MODULE Socket --------------------------------
(***************************************************************************)
(* One WebSocket of the Messages service, byte for byte where it matters:  *)
(* the handler (router.go: acceptWebSocket, handleWS, writeFrame) writes   *)
(* text frames and pings, and msgctl's listener (client.go: dialWebsocket, *)
(* ReadText, readFrame, writeFrame) takes the bytes apart again and        *)
(* answers pings.  Both directions have room for so many bytes only, a     *)
(* write waits for room until its deadline, and the handler never reads.   *)
(***************************************************************************)
EXTENDS Integers, Sequences

CONSTANTS
    Size,       \* lengths of texts
    MaxTexts,   \* bound: texts that are pending for the device
    Room,       \* bound: fields of frames on their way to the listener
    PongRoom    \* bound: pongs the system takes that nobody reads

ASSUME SocketAssumption ==
    /\ Size \subseteq Nat \ {0} /\ \A n \in Size : n <= 2147483647
    /\ MaxTexts \in Nat /\ Room \in Nat \ {0} /\ PongRoom \in Nat

opText == 1
opPing == 9

\* A run of bytes that one side writes and the other should read as a whole;
\* the value of a payload is the number of its text.
Field == [bytes : Nat, value : Nat]
Run(bytes, value) == [bytes |-> bytes, value |-> value]

\* readFrameMeta, readPayload: what the listener reads next, and what it knows
\* of the frame so far; "lost" stands for bytes taken for what they are not.
Parsing == [next : {"first", "second", "ext16", "ext64", "payload", "whole", "lost"},
            opcode : 0 .. 15, length : Nat, text : Nat]
NewFrame == [next |-> "first", opcode |-> 0, length |-> 0, text |-> 0]

VARIABLES
    handler,   \* stage of the goroutine that serves the connection
    out,       \* the fields of the frame it is writing that are left
    written,   \* the lengths of the texts it has begun to write
    down,      \* the fields that are on their way to the listener
    listener,  \* stage of the process that listens
    buffer,    \* rw.Reader: fields received and not read
    parse,     \* the frame the listener is reading
    shown,     \* the texts ReadText has returned
    pongs,     \* pongs on their way to the handler, which never reads them
    cut        \* the network drops everything from now on

socketVars == <<handler, out, written, down, listener, buffer, parse, shown, pongs, cut>>

SocketInit ==
    /\ handler = "upgrading" /\ out = <<>> /\ written = <<>> /\ down = <<>>
    /\ listener = "upgrading" /\ buffer = <<>> /\ parse = NewFrame
    /\ shown = <<>> /\ pongs = 0 /\ cut = FALSE

-----------------------------------------------------------------------------
(* The handler.                                                            *)

\* Mutant of LengthFields: <= 126 where the code has <= 125.
LengthFieldsTo126(n) ==
    IF n <= 126 THEN <<Run(1, n)>>
    ELSE IF n < 65536 THEN <<Run(1, 126), Run(2, n % 65536)>>
    ELSE <<Run(1, 127), Run(8, n)>>

\* uint16(length) keeps the low 16 bits.
LengthFields(n) ==
    IF n <= 125 THEN <<Run(1, n)>>
    ELSE IF n < 65536 THEN <<Run(1, 126), Run(2, n % 65536)>>
    ELSE <<Run(1, 127), Run(8, n)>>

Frame(opcode, n, text) ==
    <<Run(1, 128 + opcode)>> \o LengthFields(n)
        \o (IF n = 0 THEN <<>> ELSE <<Run(n, text)>>)

\* The answer with status 101, one run of bytes that is no field of a frame.
Upgraded == Run(0, 101)

AcceptWebSocket ==
    /\ handler = "upgrading"
    /\ handler' = "writing"
    /\ out' = <<Upgraded>>
    /\ UNCHANGED <<written, down, listener, buffer, parse, shown, pongs, cut>>

\* sendPending finds another envelope.
WriteText(n) ==
    /\ handler = "polling"
    /\ Len(written) < MaxTexts
    /\ handler' = "writing"
    /\ written' = Append(written, n)
    /\ out' = Frame(opText, n, Len(written) + 1)
    /\ UNCHANGED <<down, listener, buffer, parse, shown, pongs, cut>>

\* The tick of the poll: a ping follows the envelopes.
WritePing ==
    /\ handler = "polling"
    /\ handler' = "writing"
    /\ out' = Frame(opPing, 0, 0)
    /\ UNCHANGED <<written, down, listener, buffer, parse, shown, pongs, cut>>

\* The socket takes the next bytes, whether the listener is there or not.
Flush ==
    /\ handler = "writing"
    /\ Len(down) < Room
    /\ down' = Append(down, Head(out))
    /\ out' = Tail(out)
    /\ handler' = IF Len(out) = 1 THEN "polling" ELSE "writing"
    /\ UNCHANGED <<written, listener, buffer, parse, shown, pongs, cut>>

\* Mutants of WriteFails: without SetWriteDeadline; the handler goes on to the
\* next poll.
WriteFailsByReset ==
    /\ handler = "writing"
    /\ listener = "ended" /\ ~cut
    /\ handler' = "closed" /\ out' = <<>>
    /\ UNCHANGED <<written, down, listener, buffer, parse, shown, pongs, cut>>

WriteFailsGoOn ==
    /\ handler = "writing"
    /\ Len(down) >= Room \/ (listener = "ended" /\ ~cut)
    /\ handler' = IF listener = "ended" THEN "closed" ELSE "polling"
    /\ out' = <<>>
    /\ UNCHANGED <<written, down, listener, buffer, parse, shown, pongs, cut>>

\* No room until the deadline, or the listener has reset the connection: the
\* handler returns and closes.
WriteFails ==
    /\ handler = "writing"
    /\ Len(down) >= Room \/ (listener = "ended" /\ ~cut)
    /\ handler' = "closed" /\ out' = <<>>
    /\ UNCHANGED <<written, down, listener, buffer, parse, shown, pongs, cut>>

-----------------------------------------------------------------------------
(* The listener.                                                           *)

\* The buffered reader takes what has arrived, of one frame or of several.
Fill ==
    /\ listener # "ended" /\ ~cut
    /\ buffer = <<>> /\ down # <<>>
    /\ \E k \in DOMAIN down :
         /\ buffer' = SubSeq(down, 1, k)
         /\ down' = SubSeq(down, k + 1, Len(down))
    /\ UNCHANGED <<handler, out, written, listener, parse, shown, pongs, cut>>

\* Mutant of VerifyServerHandshake: frames are read with a new buffered reader.
VerifyServerHandshakeFresh ==
    /\ listener = "upgrading"
    /\ buffer # <<>>
    /\ listener' = "reading"
    /\ buffer' = <<>>
    /\ UNCHANGED <<handler, out, written, down, parse, shown, pongs, cut>>

\* What was received after the answer stays in the buffer.
VerifyServerHandshake ==
    /\ listener = "upgrading"
    /\ buffer # <<>>
    /\ listener' = "reading"
    /\ buffer' = Tail(buffer)
    /\ UNCHANGED <<handler, out, written, down, parse, shown, pongs, cut>>

\* The frame is complete when it has no payload.
PayloadOf(p, length) ==
    [p EXCEPT !.length = length, !.next = IF length = 0 THEN "whole" ELSE "payload"]

\* readFrameMeta and readPayload on value v, read as what is expected next.
\* The service sets FIN, clears the mask bit and sends less than 2^31 bytes.
Parse(p, v) ==
    CASE p.next = "first"   -> [p EXCEPT !.next = "second", !.opcode = v % 16]
      [] p.next = "second"  -> IF v % 128 = 126 THEN [p EXCEPT !.next = "ext16"]
                               ELSE IF v % 128 = 127 THEN [p EXCEPT !.next = "ext64"]
                               ELSE PayloadOf(p, v % 128)
      [] p.next \in {"ext16", "ext64"} -> PayloadOf(p, v)
      [] p.next = "payload" -> [p EXCEPT !.next = "whole", !.text = v]

Wanted(p) ==
    CASE p.next \in {"first", "second"} -> 1
      [] p.next = "ext16" -> 2
      [] p.next = "ext64" -> 8
      [] p.next = "payload" -> p.length

ReadFrame ==
    /\ listener = "reading"
    /\ parse.next \notin {"whole", "lost"}
    /\ buffer # <<>>
    /\ parse' = IF Head(buffer).bytes = Wanted(parse) THEN Parse(parse, Head(buffer).value)
                ELSE [parse EXCEPT !.next = "lost"]
    /\ buffer' = Tail(buffer)
    /\ UNCHANGED <<handler, out, written, down, listener, shown, pongs, cut>>

\* Mutant of ReadText: the opcode is not looked at.
ReadTextAny ==
    /\ listener = "reading"
    /\ parse.next = "whole"
    /\ shown' = Append(shown, parse.text)
    /\ parse' = NewFrame
    /\ UNCHANGED <<handler, out, written, down, listener, buffer, pongs, cut>>

\* ReadText returns a text; runListen shows it and calls again.
ReadText ==
    /\ listener = "reading"
    /\ parse.next = "whole" /\ parse.opcode = opText
    /\ shown' = Append(shown, parse.text)
    /\ parse' = NewFrame
    /\ UNCHANGED <<handler, out, written, down, listener, buffer, pongs, cut>>

Pinged ==
    /\ listener = "reading"
    /\ parse.next = "whole" /\ parse.opcode = opPing

\* ReadText answers a ping and reads on.
WritePong ==
    /\ Pinged
    /\ pongs < PongRoom
    /\ pongs' = pongs + 1
    /\ parse' = NewFrame
    /\ UNCHANGED <<handler, out, written, down, listener, buffer, shown, cut>>

End ==
    /\ listener' = "ended"
    /\ buffer' = <<>> /\ parse' = NewFrame
    /\ UNCHANGED <<handler, out, written, down, shown, pongs, cut>>

\* No room until the deadline, or the handler has closed the connection: the
\* listener ends.
PongFails ==
    /\ Pinged
    /\ pongs >= PongRoom \/ (handler = "closed" /\ ~cut)
    /\ End

\* Nothing is left of a connection that was closed.  One that is closed with
\* pongs unread is reset, and what has not arrived is dropped.
ReadFails ==
    /\ listener \in {"upgrading", "reading"} /\ parse.next # "whole"
    /\ handler = "closed" /\ ~cut
    /\ buffer = <<>>
    /\ down = <<>> \/ pongs > 0
    /\ End

-----------------------------------------------------------------------------
(* Faults.                                                                 *)

\* A query fails, or the service restarts: the connection is closed.
AbortHandler ==
    /\ handler # "closed"
    /\ handler' = "closed" /\ out' = <<>>
    /\ UNCHANGED <<written, down, listener, buffer, parse, shown, pongs, cut>>

\* The process that listens is stopped.
Interrupt == listener # "ended" /\ End

Cut ==
    /\ ~cut
    /\ cut' = TRUE
    /\ UNCHANGED <<handler, out, written, down, listener, buffer, parse, shown, pongs>>

-----------------------------------------------------------------------------

\* The ticker goes on, and a write returns by its deadline.
HandlerStep == AcceptWebSocket \/ WritePing \/ Flush \/ WriteFails

ListenerStep ==
    \/ Fill \/ VerifyServerHandshake \/ ReadFrame \/ ReadText
    \/ WritePong \/ PongFails \/ ReadFails

SocketNext ==
    \/ HandlerStep \/ ListenerStep
    \/ \E n \in Size : WriteText(n)
    \/ AbortHandler \/ Interrupt \/ Cut

SocketSpec == SocketInit /\ [][SocketNext]_socketVars

\* Neither goroutine is starved; polls that find envelopes are not promised.
SocketFairness == WF_socketVars(HandlerStep) /\ WF_socketVars(ListenerStep)

SocketFairSpec == SocketSpec /\ SocketFairness

-----------------------------------------------------------------------------
(* Properties.                                                             *)

\* Type correctness; a handler that is writing has something left to write.
SocketTypeOK ==
    /\ handler \in {"upgrading", "polling", "writing", "closed"}
    /\ out \in Seq(Field) /\ (out # <<>> <=> handler = "writing")
    /\ written \in Seq(Size) /\ Len(written) <= MaxTexts
    /\ down \in Seq(Field) /\ Len(down) <= Room
    /\ listener \in {"upgrading", "reading", "ended"}
    /\ buffer \in Seq(Field)
    /\ parse \in Parsing
    /\ shown \in Seq(1 .. MaxTexts)
    /\ pongs \in 0 .. PongRoom
    /\ cut \in BOOLEAN

\* The listener shows the texts that were written, whole, in order and none
\* left out, and never takes bytes for what they are not; wherever frames are
\* split and joined on the way, and whatever fails in the middle of one.
TextsArriveWhole ==
    /\ parse.next # "lost"
    /\ Len(shown) <= Len(written)
    /\ \A i \in DOMAIN shown : shown[i] = i
    /\ parse.next = "whole" /\ parse.opcode = opText =>
           parse.text = Len(shown) + 1 /\ parse.length = written[parse.text]

\* Nobody waits forever, although handler and listener may wait for each other
\* to make room: a text is read or its listener ends, and neither end outlives
\* the other; a listener that the network cuts off is the exception, since it
\* reads without a deadline.
ConnectionSettles ==
    /\ \A k \in 1 .. MaxTexts :
         Len(written) >= k ~> Len(shown) >= k \/ listener = "ended" \/ cut
    /\ listener = "ended" ~> handler = "closed"
    /\ handler = "closed" ~> listener = "ended" \/ cut
===============================================================================
