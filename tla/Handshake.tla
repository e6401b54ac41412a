----------------------------- MODULE Handshake -----------------------------
(***************************************************************************)
(* websocket.Upgrade, called in the goroutine of a request by              *)
(* handleWebSocket: the request is checked, the network connection is      *)
(* taken over from net/http, and the 101 response is written on it.        *)
(*                                                                         *)
(* The connection may break at any write.  The response is Pieces pieces,  *)
(* which the buffered writer of the hijacked connection holds until it is  *)
(* flushed, or writes early if it is too small.                            *)
(***************************************************************************)
EXTENDS Integers

CONSTANT Pieces        \* bound: pieces of the 101 response

\* The five conditions the request must meet, in the order of the code.
Conditions == {"GET", "Connection", "Upgrade", "Version", "Key"}

VARIABLES
    met,               \* the conditions that this request meets
    hijacker,          \* whether the ResponseWriter is an http.Hijacker
    upc,               \* where Upgrade is
    owner,             \* who has to close the connection
    fd,                \* whether the connection is open
    buffered,          \* pieces of the 101 response in the buffer
    wire,              \* pieces of the 101 response that have been sent
    status,            \* the status net/http sends, 0 while there is none
    result             \* what Upgrade returned

vars == <<met, hijacker, upc, owner, fd, buffered, wire, status, result>>
connVars == <<owner, fd, buffered, wire>>

Init ==
    /\ met \in SUBSET Conditions
    /\ hijacker \in BOOLEAN
    /\ upc = "check"
    /\ owner = "server"
    /\ fd = "open"
    /\ buffered = 0
    /\ wire = 0
    /\ status = 0
    /\ result = "none"

Return(r) ==
    /\ upc' = "returned"
    /\ result' = r

\* http.Error, and the return of ErrNotWebSocket.
Refuse(code) ==
    /\ status' = code
    /\ Return("ErrNotWebSocket")
    /\ UNCHANGED connVars

-----------------------------------------------------------------------------

CheckRequest ==
    /\ upc = "check"
    /\ IF met = Conditions
       THEN upc' = "hijack" /\ UNCHANGED <<connVars, status, result>>
       ELSE Refuse(400)
    /\ UNCHANGED <<met, hijacker>>

\* Mistake: the connection is taken over before the type test and is not
\* given back.
HijackTooEarly ==
    /\ upc = "hijack"
    /\ \/ /\ owner' = "handler"
          /\ IF hijacker
             THEN upc' = "respond" /\ UNCHANGED <<status, result>>
             ELSE status' = 500 /\ Return("ErrNotWebSocket")
          /\ UNCHANGED <<fd, buffered, wire>>
       \/ /\ Return("error")
          /\ UNCHANGED <<connVars, status>>
    /\ UNCHANGED <<met, hijacker>>

\* The type test on w, and hj.Hijack, which may fail.
Hijack ==
    /\ upc = "hijack"
    /\ \/ ~ hijacker /\ Refuse(500)
       \/ /\ hijacker
          /\ owner' = "handler"
          /\ upc' = "respond"
          /\ UNCHANGED <<fd, buffered, wire, status, result>>
       \/ /\ hijacker
          /\ Return("error")
          /\ UNCHANGED <<connVars, status>>
    /\ UNCHANGED <<met, hijacker>>

\* Mistake: a failed write returns without closing the connection.
FailNoClose ==
    /\ Return("error")
    /\ UNCHANGED fd

\* A failed write on the hijacked connection.
Fail ==
    /\ fd' = "closed"
    /\ Return("error")

\* rw.WriteString(response): buffered, perhaps sent in part, or an error.
WriteResponse ==
    /\ upc = "respond"
    /\ \E k \in 0..(Pieces - 1) :
          /\ wire' = k
          /\ \/ /\ buffered' = Pieces - k
                /\ upc' = "flush"
                /\ UNCHANGED <<fd, result>>
             \/ /\ Fail
                /\ UNCHANGED buffered
    /\ UNCHANGED <<met, hijacker, owner, status>>

\* Mistake: Upgrade returns the connection without the flush.
FlushSkipped ==
    /\ upc = "flush"
    /\ Return("conn")
    /\ UNCHANGED <<met, hijacker, connVars, status>>

\* rw.Flush: the rest is sent, or a part of it and an error.
FlushResponse ==
    /\ upc = "flush"
    /\ \/ /\ wire' = wire + buffered
          /\ buffered' = 0
          /\ Return("conn")
          /\ UNCHANGED fd
       \/ /\ \E k \in 0..(buffered - 1) : wire' = wire + k
          /\ Fail
          /\ UNCHANGED buffered
    /\ UNCHANGED <<met, hijacker, owner, status>>

\* After handleWebSocket has returned, net/http answers a request that nobody
\* has answered with 200, and later closes what it still owns.
ServerFinishes ==
    /\ upc = "returned"
    /\ owner = "server"
    /\ fd = "open"
    /\ status' = IF status = 0 THEN 200 ELSE status
    /\ fd' = "closed"
    /\ UNCHANGED <<met, hijacker, upc, owner, buffered, wire, result>>

Upgrade == CheckRequest \/ Hijack \/ WriteResponse \/ FlushResponse

Next == Upgrade \/ ServerFinishes

-----------------------------------------------------------------------------
TypeOK ==
    /\ met \subseteq Conditions /\ hijacker \in BOOLEAN
    /\ upc \in {"check", "hijack", "respond", "flush", "returned"}
    /\ owner \in {"server", "handler"}
    /\ fd \in {"open", "closed"}
    /\ buffered \in 0..Pieces
    /\ wire \in 0..Pieces
    /\ status \in {0, 200, 400, 500}
    /\ result \in {"none", "conn", "error", "ErrNotWebSocket"}
=============================================================================
