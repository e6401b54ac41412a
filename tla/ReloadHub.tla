----------------------------- MODULE ReloadHub -----------------------------
(***************************************************************************)
(* The live-reload half of internal/server: handler goroutines register    *)
(* upgraded WebSocket connections in Server.conns, and the goroutine that  *)
(* Serve starts takes the watcher's events one by one and broadcasts a     *)
(* reload message to every registered connection, holding Server.mu all    *)
(* the while.                                                              *)
(*                                                                         *)
(* A connection is a socket with room for SockCap unread messages between  *)
(* the server and its client.  A write blocks when the socket is full,     *)
(* because no deadline is set, and fails once the client's reset arrived   *)
(* or the connection broke on the way.  The server never reads from one.   *)
(***************************************************************************)
EXTENDS Integers, FiniteSets

CONSTANTS
    Conns,             \* the connections that clients may ask for
    SockCap,           \* bound: messages a socket holds
    Draining,          \* the clients that always read what they are sent
    NoConn             \* no connection

ASSUME HubAssumption ==
    /\ SockCap \in Nat \ {0}
    /\ Draining \subseteq Conns
    /\ NoConn \notin Conns

VARIABLES
    events, evClosed,  \* the watcher's channel, as in Watcher
    handler,           \* handleWebSocket's progress for each connection
    conns,             \* Server.conns
    mu,                \* whether the broadcast holds Server.mu
    bpc,               \* where the broadcasting goroutine is
    todo,              \* connections its range loop has yet to visit
    target,            \* the connection it is writing to
    sock,              \* unread messages in each connection's socket
    peer,              \* the client's end of each connection; "reset" when
                       \* the server's writes fail
    fd,                \* the server's end of each connection
    owed               \* ghost: registered when a change was reported, and
                       \* neither sent a reload since nor dropped

chanVars == <<events, evClosed>>
hubVars  == <<handler, conns, mu, bpc, todo, target>>
netVars  == <<sock, peer, fd>>
reloadVars == <<chanVars, hubVars, netVars, owed>>

HubInit ==
    /\ handler = [c \in Conns |-> "none"]
    /\ conns = {}
    /\ mu = "free"
    /\ bpc = "recv"
    /\ todo = {}
    /\ target = NoConn
    /\ sock = [c \in Conns |-> 0]
    /\ peer = [c \in Conns |-> "none"]
    /\ fd = [c \in Conns |-> "none"]
    /\ owed = {}

Init == HubInit /\ events = 0 /\ evClosed = FALSE

-----------------------------------------------------------------------------
(* handleWebSocket.                                                        *)

\* websocket.Upgrade: the handshake is answered and the connection hijacked,
\* or an error ends the handler and the connection.
Upgrade(c) ==
    /\ handler[c] = "none"
    /\ \/ /\ handler' = [handler EXCEPT ![c] = "upgraded"]
          /\ fd' = [fd EXCEPT ![c] = "open"]
          /\ peer' = [peer EXCEPT ![c] = "open"]
       \/ /\ handler' = [handler EXCEPT ![c] = "failed"]
          /\ UNCHANGED <<fd, peer>>
    /\ UNCHANGED <<chanVars, conns, mu, bpc, todo, target, sock, owed>>

\* Mistake: the insertion is made without s.mu.
RegisterUnlocked(c) ==
    /\ handler[c] = "upgraded"
    /\ conns' = conns \cup {c}
    /\ handler' = [handler EXCEPT ![c] = "done"]
    /\ UNCHANGED <<chanVars, mu, bpc, todo, target, netVars, owed>>

\* The insertion under s.mu.
Register(c) ==
    /\ handler[c] = "upgraded"
    /\ mu = "free"
    /\ conns' = conns \cup {c}
    /\ handler' = [handler EXCEPT ![c] = "done"]
    /\ UNCHANGED <<chanVars, mu, bpc, todo, target, netVars, owed>>

-----------------------------------------------------------------------------
(* The goroutine that ranges over w.Events().                              *)

TakeEvent ==
    /\ bpc = "recv"
    /\ events = 1
    /\ events' = 0
    /\ bpc' = "lock"
    /\ UNCHANGED <<evClosed, handler, conns, mu, todo, target, netVars, owed>>

FeedEnds ==
    /\ bpc = "recv"
    /\ events = 0
    /\ evClosed
    /\ bpc' = "exited"
    /\ UNCHANGED <<chanVars, handler, conns, mu, todo, target, netVars, owed>>

\* broadcast: s.mu.Lock, and the range over s.conns begins.
LockConns ==
    /\ bpc = "lock"
    /\ mu = "free"
    /\ mu' = "broadcast"
    /\ todo' = conns
    /\ bpc' = "range"
    /\ UNCHANGED <<chanVars, handler, conns, target, netVars, owed>>

\* The range loop takes the connections in an order the runtime chooses.
PickConn(c) ==
    /\ bpc = "range"
    /\ c \in todo
    /\ todo' = todo \ {c}
    /\ target' = c
    /\ bpc' = "write"
    /\ UNCHANGED <<chanVars, handler, conns, mu, netVars, owed>>

\* Mistake: a write buffers without end instead of blocking.
WriteNeverBlocks ==
    /\ bpc = "write"
    /\ peer[target] # "reset"
    /\ sock[target] < SockCap + 1
    /\ sock' = [sock EXCEPT ![target] = @ + 1]
    /\ owed' = owed \ {target}
    /\ target' = NoConn
    /\ bpc' = "range"
    /\ UNCHANGED <<chanVars, handler, conns, mu, todo, peer, fd>>

\* Mistake: the loop ends with the first connection that was told.
WriteSucceedsReturn ==
    /\ bpc = "write"
    /\ peer[target] # "reset"
    /\ sock[target] < SockCap
    /\ sock' = [sock EXCEPT ![target] = @ + 1]
    /\ owed' = owed \ {target}
    /\ target' = NoConn
    /\ todo' = {}
    /\ bpc' = "range"
    /\ UNCHANGED <<chanVars, handler, conns, mu, peer, fd>>

\* conn.WriteMessage returns nil: the socket had room.  It says nothing about
\* the client: what is sent to a closed one is thrown away.
WriteSucceeds ==
    /\ bpc = "write"
    /\ peer[target] # "reset"
    /\ sock[target] < SockCap
    /\ sock' = [sock EXCEPT ![target] = @ + 1]
    /\ owed' = owed \ {target}
    /\ target' = NoConn
    /\ bpc' = "range"
    /\ UNCHANGED <<chanVars, handler, conns, mu, todo, peer, fd>>

\* Mistake: a failed connection is deleted but not closed.
WriteFailsNoClose ==
    /\ bpc = "write"
    /\ peer[target] = "reset"
    /\ conns' = conns \ {target}
    /\ owed' = owed \ {target}
    /\ target' = NoConn
    /\ bpc' = "range"
    /\ UNCHANGED <<chanVars, handler, mu, todo, sock, peer, fd>>

\* Mistake: the first failure ends the loop.
WriteFailsReturn ==
    /\ bpc = "write"
    /\ peer[target] = "reset"
    /\ conns' = conns \ {target}
    /\ fd' = [fd EXCEPT ![target] = "closed"]
    /\ owed' = owed \ {target}
    /\ target' = NoConn
    /\ todo' = {}
    /\ bpc' = "range"
    /\ UNCHANGED <<chanVars, handler, mu, sock, peer>>

\* conn.WriteMessage fails, for whatever reason: the connection is deleted and closed.
WriteFails ==
    /\ bpc = "write"
    /\ peer[target] = "reset"
    /\ conns' = conns \ {target}
    /\ fd' = [fd EXCEPT ![target] = "closed"]
    /\ owed' = owed \ {target}
    /\ target' = NoConn
    /\ bpc' = "range"
    /\ UNCHANGED <<chanVars, handler, mu, todo, sock, peer>>

\* Mistake: broadcast returns without the unlock.
UnlockForgotten ==
    /\ bpc = "range"
    /\ todo = {}
    /\ bpc' = "recv"
    /\ UNCHANGED <<chanVars, handler, conns, mu, todo, target, netVars, owed>>

\* The loop is over and the deferred s.mu.Unlock runs.
UnlockConns ==
    /\ bpc = "range"
    /\ todo = {}
    /\ mu' = "free"
    /\ bpc' = "recv"
    /\ UNCHANGED <<chanVars, handler, conns, todo, target, netVars, owed>>

-----------------------------------------------------------------------------
(* The clients and the network between.                                    *)

Drain(c) ==
    /\ peer[c] = "open"
    /\ sock[c] > 0
    /\ sock' = [sock EXCEPT ![c] = @ - 1]
    /\ UNCHANGED <<chanVars, hubVars, peer, fd, owed>>

\* The client closes its end, with or without having read everything.
PeerCloses(c) ==
    /\ peer[c] = "open"
    /\ peer' = [peer EXCEPT ![c] = "closed"]
    /\ UNCHANGED <<chanVars, hubVars, sock, fd, owed>>

\* The reset with which a closed client answers data reaches the server.
PeerResets(c) ==
    /\ peer[c] = "closed"
    /\ sock[c] > 0
    /\ peer' = [peer EXCEPT ![c] = "reset"]
    /\ UNCHANGED <<chanVars, hubVars, sock, fd, owed>>

\* The connection fails on the way (the host is unreachable, a router forgets
\* it): the server's writes return an error, and nothing reaches the client.
LinkBreaks(c) ==
    /\ peer[c] \in {"open", "closed"}
    /\ peer' = [peer EXCEPT ![c] = "reset"]
    /\ UNCHANGED <<chanVars, hubVars, sock, fd, owed>>

-----------------------------------------------------------------------------
(* The watcher, as far as this component sees it.                          *)

\* Mistake: the channel has no room, and an event nobody waits for is dropped.
ReportUnbuffered ==
    /\ ~ evClosed
    /\ events' = IF bpc = "recv" THEN 1 ELSE events
    /\ owed' = owed \cup conns
    /\ UNCHANGED <<evClosed, hubVars, netVars>>

\* A change is put on the channel, which holds one event.
PutEvent ==
    /\ ~ evClosed
    /\ events' = 1
    /\ UNCHANGED <<evClosed, hubVars, netVars>>

\* It is owed to all that are registered.
Report == PutEvent /\ owed' = owed \cup conns

EndFeed ==
    /\ ~ evClosed
    /\ evClosed' = TRUE
    /\ UNCHANGED <<events, hubVars, netVars, owed>>

-----------------------------------------------------------------------------
Broadcast ==
    \/ TakeEvent \/ FeedEnds \/ LockConns
    \/ (\E c \in Conns : PickConn(c))
    \/ WriteSucceeds \/ WriteFails \/ UnlockConns

Next ==
    \/ \E c \in Conns : Upgrade(c) \/ Register(c)
    \/ Broadcast
    \/ \E c \in Conns : Drain(c) \/ PeerCloses(c) \/ PeerResets(c) \/ LinkBreaks(c)
    \/ Report \/ EndFeed

Spec == Init /\ [][Next]_reloadVars

\* The goroutines run; sync.Mutex hands a waiter the lock in the end (its
\* starvation mode); a reset that was sent arrives; a draining client reads.
\* Nothing makes a connection break, so a blocked write may block for ever.
Fairness ==
    /\ WF_reloadVars(Broadcast)
    /\ \A c \in Conns : SF_reloadVars(Register(c))
    /\ \A c \in Conns : WF_reloadVars(PeerResets(c))
    /\ \A c \in Draining : WF_reloadVars(Drain(c))

FairSpec == Spec /\ Fairness

-----------------------------------------------------------------------------
(* Properties.                                                             *)

TypeOK ==
    /\ events \in 0..1 /\ evClosed \in BOOLEAN
    /\ handler \in [Conns -> {"none", "upgraded", "failed", "done"}]
    /\ conns \subseteq Conns
    /\ mu \in {"free", "broadcast"}
    /\ bpc \in {"recv", "lock", "range", "write", "exited"}
    /\ todo \subseteq Conns
    /\ target \in Conns \cup {NoConn}
    /\ sock \in [Conns -> 0..SockCap]
    /\ peer \in [Conns -> {"none", "open", "closed", "reset"}]
    /\ fd \in [Conns -> {"none", "open", "closed"}]
    /\ owed \subseteq Conns

\* A connection that was registered when a change was reported is not
\* forgotten: until it is sent a reload or dropped, an event waits, or the
\* broadcast has yet to lock the map, or has yet to write to it.
NoLostReload ==
    \A c \in owed :
        /\ c \in conns
        /\ \/ events = 1
           \/ bpc = "lock"
           \/ c \in todo
           \/ bpc = "write" /\ target = c

\* The map is never written by a handler while the broadcast ranges over it
\* (the Go runtime would abort the process).
MapNotRaced == [][mu = "broadcast" => conns' \subseteq conns]_reloadVars

\* The server knows every connection it holds open: it is registered or its
\* handler is about to register it; a registered one is open.
NoConnectionLeaks ==
    \A c \in Conns : fd[c] = "open" <=> c \in conns \/ handler[c] = "upgraded"

\* Every connection owed a reload is sent one or dropped, if its client and
\* the others read what they are sent or go away.
OwedIsPaid == \A c \in Conns : c \in owed ~> c \notin owed

\* "pushes a reload message to every connected client" (server.go): a client
\* that reads its messages and stays connected is sent the reload it is owed
\* whatever the other clients do.
ReadingClientIsPaid ==
    \A c \in Draining : c \in owed ~> c \notin owed \/ peer[c] # "open"

\* An upgraded connection gets registered however often broadcasts happen.
UpgradedIsRegistered ==
    \A c \in Conns : handler[c] = "upgraded" ~> handler[c] = "done"
=============================================================================
