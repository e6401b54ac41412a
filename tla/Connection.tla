----------------------------- MODULE Connection -----------------------------
(***************************************************************************)
(* A WebSocket connection from its request to its end: the handshake of    *)
(* Upgrade (Handshake), and then, if Upgrade hands out a Conn, the calls   *)
(* of WriteMessage and Close on it (WebSocketConn).                        *)
(*                                                                         *)
(* The buffered writer that Upgrade leaves empty is the one Conn writes    *)
(* to; the descriptor's later fate is told by net, no more by fd.          *)
(***************************************************************************)
EXTENDS WebSocketConn

CONSTANT Pieces        \* of Handshake

ASSUME ConnectionAssumption == Pieces \in Nat \ {0}

VARIABLES
    met, hijacker, upc, owner, fd, buffered, response, status, outcome

H == INSTANCE Handshake WITH wire <- response, result <- outcome

upgradeVars == <<met, hijacker, upc, owner, fd, buffered, response, status, outcome>>

ConnectionInit == Init /\ H!Init

Upgrading == H!Next /\ UNCHANGED vars

\* handleWebSocket registers the Conn only after Upgrade has returned it.
Talking ==
    /\ outcome = "conn"
    /\ Next
    /\ UNCHANGED upgradeVars

ConnectionNext == Upgrading \/ Talking

-----------------------------------------------------------------------------

ConnectionTypeOK == TypeOK /\ H!TypeOK

\* The connection that Upgrade hands out is open and its caller's to close,
\* and its client has the whole 101 response and nothing else: the first
\* frame the server sends cannot be taken for a part of the handshake.
ConnIsReady ==
    wire # <<>> \/ outcome = "conn" =>
        fd = "open" /\ owner = "handler" /\ response = Pieces /\ buffered = 0

\* The answer never mixes both protocols: net/http writes a status only on a
\* connection on which no piece of the 101 response was sent.
OneAnswer == status # 0 => response = 0 /\ owner = "server"

\* No connection is left to nobody: when Upgrade fails, somebody closes it.
FailureCloses == (outcome \in {"error", "ErrNotWebSocket"}) ~> (fd = "closed")
=============================================================================
