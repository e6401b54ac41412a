-------------------------- MODULE ReloadHubProofs --------------------------
(***************************************************************************)
(* Theorems about ReloadHub, for every set of connections, every size of   *)
(* their sockets and all clients.                                          *)
(***************************************************************************)
EXTENDS ReloadHub, TLAPS

-----------------------------------------------------------------------------
(* The inductive invariant.                                                *)

\* The lock is the broadcast's from the start of its range loop to the end.
Locking == mu = "broadcast" <=> bpc \in {"range", "write"}

\* What the range loop has yet to visit is still registered, and a connection
\* is written to once.
Ranging ==
    /\ todo \subseteq conns
    /\ bpc \notin {"range", "write"} => todo = {}
    /\ IF bpc = "write" THEN target \in conns \ todo ELSE target = NoConn

\* A connection is registered by the last step of its handler.
Registered ==
    \A c \in Conns :
        /\ c \in conns => handler[c] = "done"
        /\ handler[c] = "none" => fd[c] = "none"

HubInv == TypeOK /\ Locking /\ Ranging /\ Registered /\ NoConnectionLeaks /\ NoLostReload

-----------------------------------------------------------------------------
LEMMA InitInv == Init => HubInv
<1> SUFFICES ASSUME Init PROVE HubInv
  OBVIOUS
<1> USE HubAssumption DEF Init, HubInit
<1>1. TypeOK
  <2>1. sock \in [Conns -> 0..SockCap]
    <3>1. 0 \in 0..SockCap
      OBVIOUS
    <3>2. QED
      BY <3>1
  <2>2. evClosed \in BOOLEAN
    BY Zenon
  <2>3. /\ handler \in [Conns -> {"none", "upgraded", "failed", "done"}]
        /\ peer \in [Conns -> {"none", "open", "closed", "reset"}]
        /\ fd \in [Conns -> {"none", "open", "closed"}]
    OBVIOUS
  <2>4. QED
    BY <2>1, <2>2, <2>3 DEF TypeOK
<1>2. Locking /\ Ranging /\ NoLostReload
  BY DEF Locking, Ranging, NoLostReload
<1>3. Registered /\ NoConnectionLeaks
  BY DEF Registered, NoConnectionLeaks
<1>4. QED
  BY <1>1, <1>2, <1>3 DEF HubInv

\* The steps of handleWebSocket.
LEMMA UpgradeInv == ASSUME HubInv, NEW c \in Conns, Upgrade(c) PROVE HubInv'
<1> USE HubAssumption DEF HubInv, Upgrade, chanVars
<1>1. TypeOK'
  BY DEF TypeOK
<1>2. Locking' /\ Ranging' /\ NoLostReload'
  BY DEF Locking, Ranging, NoLostReload
<1>3. Registered' /\ NoConnectionLeaks'
  BY DEF TypeOK, Registered, NoConnectionLeaks
<1>4. QED
  BY <1>1, <1>2, <1>3

LEMMA RegisterInv == ASSUME HubInv, NEW c \in Conns, Register(c) PROVE HubInv'
<1> USE HubAssumption DEF HubInv, Register, chanVars, netVars
<1>1. TypeOK'
  BY DEF TypeOK
<1>2. bpc \notin {"range", "write"}
  BY DEF Locking
<1>3. Locking' /\ Ranging' /\ NoLostReload'
  BY <1>2 DEF Locking, Ranging, NoLostReload
<1>4. Registered' /\ NoConnectionLeaks'
  BY DEF TypeOK, Registered, NoConnectionLeaks
<1>5. QED
  BY <1>1, <1>3, <1>4

\* The receiving goroutine outside its range loop.
LEMMA ReceiveInv == HubInv /\ (TakeEvent \/ FeedEnds) => HubInv'
<1> SUFFICES ASSUME HubInv, TakeEvent \/ FeedEnds PROVE HubInv'
  OBVIOUS
<1> USE HubAssumption DEF HubInv, TakeEvent, FeedEnds, chanVars, netVars
<1>1. TypeOK'
  BY DEF TypeOK
<1>2. Locking' /\ Ranging' /\ Registered' /\ NoConnectionLeaks'
  BY DEF Locking, Ranging, Registered, NoConnectionLeaks
<1>3. NoLostReload'
  BY DEF Ranging, NoLostReload
<1>4. QED
  BY <1>1, <1>2, <1>3

\* The range loop begins with every connection that is owed a reload.
LEMMA LockInv == HubInv /\ LockConns => HubInv'
<1> SUFFICES ASSUME HubInv, LockConns PROVE HubInv'
  OBVIOUS
<1> USE HubAssumption DEF HubInv, LockConns, chanVars, netVars
<1>1. TypeOK'
  BY DEF TypeOK
<1>2. Locking' /\ Ranging' /\ Registered' /\ NoConnectionLeaks'
  BY DEF Locking, Ranging, Registered, NoConnectionLeaks
<1>3. NoLostReload'
  BY DEF NoLostReload
<1>4. QED
  BY <1>1, <1>2, <1>3

LEMMA PickInv == ASSUME HubInv, NEW c \in Conns, PickConn(c) PROVE HubInv'
<1> USE HubAssumption DEF HubInv, PickConn, chanVars, netVars
<1>1. TypeOK'
  BY DEF TypeOK
<1>2. Locking' /\ Ranging' /\ Registered' /\ NoConnectionLeaks'
  BY DEF Locking, Ranging, Registered, NoConnectionLeaks
<1>3. NoLostReload'
  BY DEF NoLostReload
<1>4. QED
  BY <1>1, <1>2, <1>3

\* A write pays what its connection was owed, or ends the connection.
LEMMA WriteInv == HubInv /\ (WriteSucceeds \/ WriteFails) => HubInv'
<1> SUFFICES ASSUME HubInv, WriteSucceeds \/ WriteFails PROVE HubInv'
  OBVIOUS
<1> USE HubAssumption DEF HubInv, chanVars
<1>1. target \in conns \ todo /\ target \in Conns /\ handler[target] = "done"
  BY DEF WriteSucceeds, WriteFails, Ranging, TypeOK, Registered
<1>2. TypeOK'
  BY <1>1 DEF TypeOK, WriteSucceeds, WriteFails
<1>3. Locking' /\ Ranging'
  BY <1>1 DEF Locking, Ranging, WriteSucceeds, WriteFails
<1>4. Registered' /\ NoConnectionLeaks'
  BY <1>1 DEF TypeOK, Registered, NoConnectionLeaks, WriteSucceeds, WriteFails
<1>5. NoLostReload'
  BY <1>1 DEF NoLostReload, WriteSucceeds, WriteFails
<1>6. QED
  BY <1>2, <1>3, <1>4, <1>5

\* When the loop is over, whoever is still owed a reload has a new event.
LEMMA UnlockInv == HubInv /\ UnlockConns => HubInv'
<1> SUFFICES ASSUME HubInv, UnlockConns PROVE HubInv'
  OBVIOUS
<1> USE HubAssumption DEF HubInv, UnlockConns, chanVars, netVars
<1>1. TypeOK'
  BY DEF TypeOK
<1>2. Locking' /\ Ranging' /\ Registered' /\ NoConnectionLeaks'
  BY DEF Locking, Ranging, Registered, NoConnectionLeaks
<1>3. NoLostReload'
  BY DEF NoLostReload
<1>4. QED
  BY <1>1, <1>2, <1>3

\* What the clients, the network and the watcher do.
LEMMA ClientInv ==
    ASSUME HubInv, NEW c \in Conns,
           Drain(c) \/ PeerCloses(c) \/ PeerResets(c) \/ LinkBreaks(c)
    PROVE  HubInv'
<1> USE HubAssumption DEF HubInv, Drain, PeerCloses, PeerResets, LinkBreaks, chanVars, hubVars
<1>1. TypeOK'
  BY DEF TypeOK
<1>2. Locking' /\ Ranging' /\ Registered' /\ NoConnectionLeaks' /\ NoLostReload'
  BY DEF Locking, Ranging, Registered, NoConnectionLeaks, NoLostReload
<1>3. QED
  BY <1>1, <1>2

LEMMA FeedInv == HubInv /\ (Report \/ EndFeed) => HubInv'
<1> SUFFICES ASSUME HubInv, Report \/ EndFeed PROVE HubInv'
  OBVIOUS
<1> USE HubAssumption DEF HubInv, Report, PutEvent, EndFeed, hubVars, netVars
<1>1. TypeOK'
  <2>1. evClosed' \in BOOLEAN
    BY Zenon DEF TypeOK
  <2>2. /\ events' \in 0..1
        /\ owed' \subseteq Conns
        /\ UNCHANGED <<handler, conns, mu, bpc, todo, target, sock, peer, fd>>
    BY DEF TypeOK
  <2>3. QED
    BY <2>1, <2>2 DEF TypeOK
<1>2. Locking' /\ Ranging' /\ Registered' /\ NoConnectionLeaks'
  BY DEF Locking, Ranging, Registered, NoConnectionLeaks
<1>3. NoLostReload'
  BY DEF NoLostReload
<1>4. QED
  BY <1>1, <1>2, <1>3

LEMMA NextInv == HubInv /\ [Next]_reloadVars => HubInv'
<1> SUFFICES ASSUME HubInv, [Next]_reloadVars PROVE HubInv'
  OBVIOUS
<1>1. ASSUME NEW c \in Conns, Upgrade(c) \/ Register(c) PROVE HubInv'
  BY <1>1, UpgradeInv, RegisterInv
<1>2. CASE Broadcast
  BY <1>2, ReceiveInv, LockInv, PickInv, WriteInv, UnlockInv DEF Broadcast
<1>3. ASSUME NEW c \in Conns, Drain(c) \/ PeerCloses(c) \/ PeerResets(c) \/ LinkBreaks(c)
      PROVE  HubInv'
  BY <1>3, ClientInv
<1>4. CASE Report \/ EndFeed
  BY <1>4, FeedInv
<1>5. CASE UNCHANGED reloadVars
  BY <1>5 DEF HubInv, TypeOK, Locking, Ranging, Registered, NoConnectionLeaks, NoLostReload,
     reloadVars, chanVars, hubVars, netVars
<1>6. QED
  BY <1>1, <1>2, <1>3, <1>4, <1>5 DEF Next

-----------------------------------------------------------------------------
(* The theorems.                                                           *)

\* The parts of the invariant hold together in every reachable state.
THEOREM Invariance == Spec => []HubInv
  BY InitInv, NextInv, PTL DEF Spec

\* The variables have their types: in particular no socket holds more than it
\* has room for, because a write waits for room.
THEOREM TypeCorrect == Spec => []TypeOK
<1>1. HubInv => TypeOK
  BY DEF HubInv
<1>2. QED
  BY <1>1, Invariance, PTL

\* No connection that was registered when a change was reported is forgotten
\* by the handlers, the coalesced events and the broadcast between them.
THEOREM ReloadsNotLost == Spec => []NoLostReload
<1>1. HubInv => NoLostReload
  BY DEF HubInv
<1>2. QED
  BY <1>1, Invariance, PTL

\* A connection that is open is registered or about to be.
THEOREM NoLeaks == Spec => []NoConnectionLeaks
<1>1. HubInv => NoConnectionLeaks
  BY DEF HubInv
<1>2. QED
  BY <1>1, Invariance, PTL

\* No handler writes the map of connections while the broadcast ranges over it.
THEOREM NoMapRace == Spec => MapNotRaced
<1>1. HubInv /\ [Next]_reloadVars => [mu = "broadcast" => conns' \subseteq conns]_reloadVars
  <2> SUFFICES ASSUME Next, mu = "broadcast" PROVE conns' \subseteq conns
    BY DEF reloadVars
  <2>1. ASSUME NEW c \in Conns, Upgrade(c) \/ Register(c) PROVE conns' \subseteq conns
    BY <2>1 DEF Upgrade, Register
  <2>2. CASE Broadcast
    BY <2>2 DEF Broadcast, TakeEvent, FeedEnds, LockConns, PickConn, WriteSucceeds, WriteFails,
       UnlockConns
  <2>3. ASSUME NEW c \in Conns, Drain(c) \/ PeerCloses(c) \/ PeerResets(c) \/ LinkBreaks(c)
        PROVE  conns' \subseteq conns
    BY <2>3 DEF Drain, PeerCloses, PeerResets, LinkBreaks, hubVars
  <2>4. CASE Report \/ EndFeed
    BY <2>4 DEF Report, PutEvent, EndFeed, hubVars
  <2>5. QED
    BY <2>1, <2>2, <2>3, <2>4 DEF Next
<1>2. QED
  BY <1>1, Invariance, PTL DEF Spec, MapNotRaced
=============================================================================
