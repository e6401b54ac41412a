--------------------------- MODULE WebSocketConn ---------------------------
(***************************************************************************)
(* Conn of internal/websocket: goroutines call WriteMessage, one of them   *)
(* calls Close, and Conn.mu keeps their frames apart on the way through    *)
(* the buffered writer to the network connection.                          *)
(*                                                                         *)
(* A frame travels in two pieces, its header and its payload.  The buffer  *)
(* holds BufCap pieces, writes them out when another one does not fit, and *)
(* remembers its first error for good; the network connection may break    *)
(* at any write and then delivers a part of what it was given.  That a     *)
(* payload larger than the buffer leaves it in several writes is not       *)
(* shown: its pieces arrive together or the last one is torn.              *)
(***************************************************************************)
EXTENDS Integers, Sequences, FiniteSets

CONSTANTS
    Messages,          \* one for each call of WriteMessage
    LengthOf,          \* the payload length of each message, in bytes
    BufCap,            \* bound: pieces that fit into the bufio.Writer
    Closer,            \* the call of Close
    NoCall             \* nobody holds Conn.mu

Calls == Messages \cup {Closer}

\* n without its lower 32 bits, in factors that TLC's integers hold.
High(n) == (n \div 65536) \div 65536

\* The length of a payload is a Go int: it has 63 bits.
ASSUME LengthAssumption ==
    /\ LengthOf \in [Messages -> Nat]
    /\ \A m \in Messages : High(LengthOf[m]) \div 65536 < 32768

ASSUME ConnAssumption ==
    /\ BufCap \in Nat \ {0}
    /\ Closer \notin Messages
    /\ NoCall \notin Calls

VARIABLES
    cpc,               \* where each call is
    mu,                \* the call that holds Conn.mu
    buf, bufErr,       \* Conn.bw: the buffered pieces, the sticky error
    net,               \* Conn.conn: "open", "broken" or "closed"
    wire,              \* what has reached the client
    result             \* what each call has returned

vars == <<cpc, mu, buf, bufErr, net, wire, result>>

Init ==
    /\ cpc = [c \in Calls |-> "start"]
    /\ mu = NoCall
    /\ buf = <<>>
    /\ bufErr = FALSE
    /\ net = "open"
    /\ wire = <<>>
    /\ result = [c \in Calls |-> "pending"]

-----------------------------------------------------------------------------
(* The frame header.                                                       *)

\* The byte of n that has this weight.
Byte(n, weight) == (n \div weight) % 256

BE16(n) == <<Byte(n, 256), Byte(n, 1)>>

BE32(n) == <<Byte(n, 256 * 256 * 256), Byte(n, 256 * 256), Byte(n, 256), Byte(n, 1)>>

BE64(n) == BE32(High(n)) \o BE32(n)

PayloadLength(c) == IF c = Closer THEN 0 ELSE LengthOf[c]

OpByte(c) == IF c = Closer THEN 128 + 8 ELSE 128 + 1

\* Mistake: 126, which announces two more bytes, is sent as a length.
HeaderOffByOne(c) ==
    LET l == PayloadLength(c)
    IN  <<OpByte(c)>> \o
        IF l <= 126 THEN <<l>>
        ELSE IF l < 256 * 256 THEN <<126>> \o BE16(l)
        ELSE <<127>> \o BE64(l)

Header(c) ==
    LET l == PayloadLength(c)
    IN  <<OpByte(c)>> \o
        IF l < 126 THEN <<l>>
        ELSE IF l < 256 * 256 THEN <<126>> \o BE16(l)
        ELSE <<127>> \o BE64(l)

HeaderPiece(c)  == [call |-> c, part |-> "header", bytes |-> Header(c), whole |-> TRUE]
PayloadPiece(c) == [call |-> c, part |-> "payload", bytes |-> <<>>, whole |-> TRUE]

-----------------------------------------------------------------------------
(* The network connection and the bufio.Writer.                            *)

\* The first k pieces of data, and possibly a part of the next.
Torn(data, k) == SubSeq(data, 1, k) \o <<[data[k + 1] EXCEPT !.whole = FALSE]>>

\* net.Conn.Write(data): everything arrives, or an error cuts it short.
NetWrite(data) ==
    \/ /\ net = "open"
       /\ wire' = wire \o data
       /\ UNCHANGED <<net, bufErr>>
    \/ /\ net = "open" /\ data # <<>>
       /\ net' = "broken"
       /\ bufErr' = TRUE
       /\ \E k \in 0..(Len(data) - 1) :
             wire' \in {wire \o SubSeq(data, 1, k), wire \o Torn(data, k)}
    \/ /\ net # "open"
       /\ bufErr' = TRUE
       /\ UNCHANGED <<net, wire>>

\* Mistake: a full buffer grows.
BufWriteGrows(ps) ==
    /\ buf' = IF bufErr THEN buf ELSE buf \o ps
    /\ UNCHANGED <<bufErr, net, wire>>

\* bufio.Writer.Write of one piece; of none, if ps is empty.
BufWrite(ps) ==
    \/ /\ bufErr \/ Len(buf) + Len(ps) <= BufCap
       /\ buf' = IF bufErr THEN buf ELSE buf \o ps
       /\ UNCHANGED <<bufErr, net, wire>>
    \/ /\ ~ bufErr /\ Len(buf) + Len(ps) > BufCap
       /\ NetWrite(buf)
       /\ buf' = IF bufErr' THEN buf ELSE ps

\* bufio.Writer.Flush.
BufFlush ==
    \/ /\ bufErr \/ buf = <<>>
       /\ UNCHANGED <<buf, bufErr, net, wire>>
    \/ /\ ~ bufErr /\ buf # <<>>
       /\ NetWrite(buf)
       /\ buf' = IF bufErr' THEN buf ELSE <<>>

-----------------------------------------------------------------------------
(* WriteMessage and Close.                                                 *)

Goto(c, s) == cpc' = [cpc EXCEPT ![c] = s]

\* The call has its result, and its deferred c.mu.Unlock is next.
Leave(c, r) ==
    /\ Goto(c, "unlock")
    /\ result' = [result EXCEPT ![c] = r]

\* Mistake: the call does not wait for Conn.mu.
LockSkipped(c) ==
    /\ cpc[c] = "start"
    /\ mu' = c
    /\ Goto(c, "header")
    /\ UNCHANGED <<buf, bufErr, net, wire, result>>

Lock(c) ==
    /\ cpc[c] = "start"
    /\ mu = NoCall
    /\ mu' = c
    /\ Goto(c, "header")
    /\ UNCHANGED <<buf, bufErr, net, wire, result>>

\* After a failed write, WriteMessage returns the error; Close goes on to
\* close the connection.
Fail(c) ==
    IF c = Closer
    THEN Goto(c, "closeNet") /\ UNCHANGED result
    ELSE Leave(c, "error")

\* writeFrame: bw.Write(header).
WriteHeader(c) ==
    /\ cpc[c] = "header"
    /\ BufWrite(<<HeaderPiece(c)>>)
    /\ IF bufErr' THEN Fail(c)
       ELSE Goto(c, "payload") /\ UNCHANGED result
    /\ UNCHANGED mu

\* writeFrame: bw.Write(payload).
WritePayload(c) ==
    /\ cpc[c] = "payload"
    /\ BufWrite(IF PayloadLength(c) = 0 THEN <<>> ELSE <<PayloadPiece(c)>>)
    /\ IF bufErr' THEN Fail(c)
       ELSE Goto(c, "flush") /\ UNCHANGED result
    /\ UNCHANGED mu

\* Mistake: WriteMessage leaves the frame in the buffer.
FlushForgotten(c) ==
    /\ cpc[c] = "flush"
    /\ UNCHANGED <<buf, bufErr, net, wire>>
    /\ IF c = Closer
       THEN Goto(c, "closeNet") /\ UNCHANGED result
       ELSE Leave(c, "nil")
    /\ UNCHANGED mu

\* bw.Flush, whose error Close ignores.
Flush(c) ==
    /\ cpc[c] = "flush"
    /\ BufFlush
    /\ IF c = Closer
       THEN Goto(c, "closeNet") /\ UNCHANGED result
       ELSE Leave(c, IF bufErr' THEN "error" ELSE "nil")
    /\ UNCHANGED mu

\* Close: c.conn.Close(), which may itself report an error.
CloseNet(c) ==
    /\ cpc[c] = "closeNet"
    /\ net' = "closed"
    /\ \E r \in {"nil", "error"} : Leave(c, r)
    /\ UNCHANGED <<mu, buf, bufErr, wire>>

\* The deferred c.mu.Unlock, and the call returns.
Unlock(c) ==
    /\ cpc[c] = "unlock"
    /\ mu' = NoCall
    /\ Goto(c, "returned")
    /\ UNCHANGED <<buf, bufErr, net, wire, result>>

AllReturned ==
    /\ \A c \in Calls : cpc[c] = "returned"
    /\ UNCHANGED vars

Next ==
    \/ \E c \in Calls :
         \/ Lock(c) \/ WriteHeader(c) \/ WritePayload(c) \/ Flush(c) \/ CloseNet(c)
         \/ Unlock(c)
    \/ AllReturned

Spec == Init /\ [][Next]_vars

-----------------------------------------------------------------------------
(* Properties.                                                             *)

TypeOK ==
    /\ cpc \in [Calls -> {"start", "header", "payload", "flush", "closeNet", "unlock",
                       "returned"}]
    /\ mu \in Calls \cup {NoCall}
    /\ Len(buf) <= BufCap
    /\ bufErr \in BOOLEAN
    /\ net \in {"open", "broken", "closed"}
    /\ \A i \in DOMAIN wire : wire[i].call \in Calls
    /\ result \in [Calls -> {"pending", "nil", "error"}]

\* Where the frame that starts at position i of the wire ends.
EndOfFrame(i) == IF PayloadLength(wire[i].call) = 0 THEN i ELSE i + 1

FrameAt(i) ==
    /\ wire[i].part = "header" /\ wire[i].whole
    /\ EndOfFrame(i) <= Len(wire)
    /\ wire[EndOfFrame(i)].call = wire[i].call
    /\ wire[EndOfFrame(i)].whole

\* Where the messages begin that the client has whole.
Arrived == {i \in DOMAIN wire : FrameAt(i) /\ wire[i].call \in Messages}

\* A finite set of numbers as a sequence, the smallest first.
InOrder(S) ==
    [k \in 1..Cardinality(S) |->
        CHOOSE i \in S : Cardinality({j \in S : j < i}) = k - 1]

\* The messages that the client has whole, in order.
WholeMessages == [k \in 1..Cardinality(Arrived) |-> wire[InOrder(Arrived)[k]].call]

\* Frames never mix: each header is followed by its own payload, unless a
\* write that broke the connection, or one still under way, ends the wire.
FramesUnmixed ==
    \A i \in DOMAIN wire :
        /\ wire[i].part = "payload" =>
             /\ i > 1
             /\ wire[i - 1] = HeaderPiece(wire[i].call)
        /\ i < Len(wire) => wire[i].whole
        /\ i < Len(wire) /\ wire[i].part = "header"
             => EndOfFrame(i) = i \/ wire[i + 1].part = "payload"

\* The number in the four bytes of h from the i-th on.
Word(h, i) == ((h[i] * 256 + h[i + 1]) * 256 + h[i + 2]) * 256 + h[i + 3]

\* How RFC 6455 has a client read the length from a header, and how long it
\* requires the header to be.
LengthRead(h) ==
    CASE h[2] < 126 -> h[2]
      [] h[2] = 126 -> h[3] * 256 + h[4]
      [] OTHER      -> Word(h, 3) * 65536 * 65536 + Word(h, 7)

HeaderSize(l) == IF l <= 125 THEN 2 ELSE IF l <= 65535 THEN 4 ELSE 10

\* Every header that reaches the client announces the length of the payload
\* that follows it, in the shortest of the three forms, so the client finds
\* the next frame where it begins.
HeaderTellsLength ==
    \A i \in DOMAIN wire :
        wire[i].part = "header" =>
            LET l == PayloadLength(wire[i].call)
            IN  /\ Len(wire[i].bytes) = HeaderSize(l)
                /\ LengthRead(wire[i].bytes) = l

\* The abstract channel, read off this state.
Channel == INSTANCE FrameChannel WITH
    sent     <- WholeMessages,
    answered <- [m \in Messages |-> IF cpc[m] = "returned" THEN result[m]
                                    ELSE "pending"],
    closed   <- net = "closed"

\* Conn implements FrameChannel: whole frames or nothing, nil only for what
\* arrived, nothing after Close.
KeepsChannel == Channel!Spec
=============================================================================
