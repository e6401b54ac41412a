----------------------------- MODULE LiveReload -----------------------------
(***************************************************************************)
(* Live reload from end to end (internal/server Serve, internal/watcher):  *)
(* the watcher's goroutine, the broadcasting goroutine and the handlers of *)
(* one Serve, and the browsers that load pages from it.  Watcher and       *)
(* ReloadHub share the event channel; the pages' script opens a connection *)
(* and reloads the page at any message.                                    *)
(*                                                                         *)
(* What a page shows is the state of the whole tree when it was loaded.    *)
(* Serve ends when its listener fails: it cancels the context, closes the  *)
(* watcher and then the server's root, and waits for no goroutine.         *)
(*                                                                         *)
(* A connection fails only with its client here: the script does not       *)
(* connect again, so that a page whose connection broke hears nothing.     *)
(***************************************************************************)
EXTENDS Integers, FiniteSets, FiniteSetsExt

CONSTANTS
    NumFiles, MaxClock,             \* of Watcher
    Browsers,       \* the pages that may be open
    MaxLoads,       \* bound: how many times one browser connects
    SockCap, NoConn \* of ReloadHub

VARIABLES
    disk, clock, rootOpen, cancelled, wpc, started, last, current, listing,
    tick, events, evClosed,
    handler, conns, mu, bpc, todo, target, sock, peer, fd,
    spc,            \* where Serve is
    bst,            \* where each browser is
    load,           \* how many connections each browser has asked for
    page,           \* the tree each browser's page shows
    untold          \* ghost: the tree changed since the page was loaded in a
                    \* way that nobody would tell it

ASSUME LiveAssumption ==
    /\ NumFiles \in Nat /\ MaxClock \in Nat /\ MaxLoads \in Nat
    /\ SockCap \in Nat \ {0}
    /\ NoConn \notin Browsers \X (1..MaxLoads)

MayRemove == TRUE   \* files are added, rewritten and removed

Conns    == Browsers \X (1..MaxLoads)
Conn(b)  == <<b, load[b]>>
Draining == Conns

W == INSTANCE Watcher
H == INSTANCE ReloadHub WITH owed <- {}   \* this ghost plays no part here

runVars     == <<wpc, started, last, current, listing, tick>>
watchVars   == <<disk, clock, rootOpen, cancelled, runVars>>
chanVars    == <<events, evClosed>>
hubVars     == <<handler, conns, mu, bpc, todo, target, sock, peer, fd>>
browserVars == <<bst, load, page, untold>>
vars == <<watchVars, chanVars, hubVars, spc, browserVars>>

Init ==
    /\ W!Init
    /\ H!HubInit
    /\ spc = "listening"
    /\ bst = [b \in Browsers |-> "closed"]
    /\ load = [b \in Browsers |-> 0]
    /\ page = [b \in Browsers |-> W!NoFiles]
    /\ untold = [b \in Browsers |-> FALSE]

Registered(b) == bst[b] = "live" /\ Conn(b) \in conns

-----------------------------------------------------------------------------
(* The tree and the watcher.                                               *)

\* A file that came since the watcher looked and goes before it looks again is
\* never reported, and a page that was loaded in between still shows it.
CameAndWent(f, b) == disk'[f] = W!Absent /\ last[f] = W!Absent /\ page[b][f] # W!Absent

\* A file is added, rewritten or removed.  Any other change is sure to be told
\* to the pages registered when it is made, if the watcher has its first
\* snapshot by then.
Change ==
    /\ \E f \in W!Files :
          /\ W!Write(f) \/ W!Remove(f)
          /\ untold' = [b \in Browsers |->
                 untold[b] \/ ~ (Registered(b) /\ started) \/ CameAndWent(f, b)]
    /\ UNCHANGED <<hubVars, spc, bst, load, page>>

\* A step of Run, or a tick.  One that comes during a snapshot is taken after
\* it, so that it may as well come then.
Watch ==
    /\ W!Run \/ (wpc = "select" /\ W!Tick)
    /\ UNCHANGED <<hubVars, spc, browserVars>>

-----------------------------------------------------------------------------
(* The server.                                                             *)

Hub ==
    /\ H!Broadcast \/ \E c \in Conns : H!Register(c)
    /\ UNCHANGED <<watchVars, spc, browserVars>>

\* ListenAndServe returns, and the deferred calls run: cancel, w.Close, and
\* s.Close, which ends Serve.
ListenerFails ==
    /\ spc = "listening"
    /\ spc' = "cancel"
    /\ UNCHANGED <<watchVars, chanVars, hubVars, browserVars>>

\* Mistake: the watcher is closed before the context is cancelled.
CloseFirst ==
    /\ spc = "cancel"
    /\ rootOpen' = FALSE
    /\ spc' = "closeWatcher"
    /\ UNCHANGED <<disk, clock, cancelled, runVars, chanVars, hubVars, browserVars>>

CancelWatch ==
    /\ spc = "cancel"
    /\ W!Cancel
    /\ spc' = "closeWatcher"
    /\ UNCHANGED <<hubVars, browserVars>>

CloseWatcher ==
    /\ spc = "closeWatcher"
    /\ W!Close
    /\ spc' = "returned"
    /\ UNCHANGED <<hubVars, browserVars>>

-----------------------------------------------------------------------------
(* The browsers.                                                           *)

\* The browser's end of the page's connection is closed, if it is open.
Disconnect(b) ==
    IF peer[Conn(b)] = "open" THEN H!PeerCloses(Conn(b)) ELSE UNCHANGED <<chanVars, hubVars>>

\* A page is loaded: handleFile answers with the tree as it is.  A page that
\* was loaded before closes its connection in the same step.
Load(b) ==
    /\ spc = "listening"
    /\ bst[b] \in {"closed", "reloading"}
    /\ load[b] < MaxLoads
    /\ page' = [page EXCEPT ![b] = disk]
    /\ untold' = [untold EXCEPT ![b] = FALSE]
    /\ bst' = [bst EXCEPT ![b] = "loaded"]
    /\ IF bst[b] = "reloading" THEN Disconnect(b) ELSE UNCHANGED <<chanVars, hubVars>>
    /\ UNCHANGED <<watchVars, spc, load>>

\* No reload is answered once the listener has failed: the browser drops the
\* page with its connection.  At the bound MaxLoads it gives up like that too.
LoadFails(b) ==
    /\ bst[b] = "reloading"
    /\ spc # "listening" \/ load[b] = MaxLoads
    /\ bst' = [bst EXCEPT ![b] = "closed"]
    /\ Disconnect(b)
    /\ UNCHANGED <<watchVars, spc, load, page, untold>>

\* The page's script opens its WebSocket; it does not try again if it fails.
Connect(b) ==
    /\ bst[b] = "loaded"
    /\ load' = [load EXCEPT ![b] = @ + 1]
    /\ H!Upgrade(<<b, load[b] + 1>>)
    /\ LET answer == handler'[<<b, load[b] + 1>>]
       IN  bst' = [bst EXCEPT ![b] = IF answer = "upgraded" THEN "live" ELSE "deaf"]
    /\ UNCHANGED <<watchVars, spc, page, untold>>

\* ws.onmessage: location.reload().
OnMessage(b) ==
    /\ bst[b] = "live"
    /\ H!Drain(Conn(b))
    /\ bst' = [bst EXCEPT ![b] = "reloading"]
    /\ UNCHANGED <<watchVars, spc, load, page, untold>>

\* The tab is closed.
CloseTab(b) ==
    /\ bst[b] = "live"
    /\ Disconnect(b)
    /\ bst' = [bst EXCEPT ![b] = "closed"]
    /\ UNCHANGED <<watchVars, spc, load, page, untold>>

\* What a browser does without its user: it connects, reads its messages and
\* reloads.
Script(b) ==
    \/ Connect(b) \/ OnMessage(b)
    \/ bst[b] = "reloading" /\ Load(b)
    \/ LoadFails(b)

Reset(c) ==
    /\ H!PeerResets(c)
    /\ UNCHANGED <<watchVars, spc, browserVars>>

-----------------------------------------------------------------------------
Next ==
    \/ Change \/ Watch \/ Hub
    \/ ListenerFails \/ CancelWatch \/ CloseWatcher
    \/ \E b \in Browsers :
          Load(b) \/ LoadFails(b) \/ Connect(b) \/ OnMessage(b) \/ CloseTab(b)
    \/ \E c \in Conns : Reset(c)

Spec == Init /\ [][Next]_vars

\* The goroutines of the server run, the ticker ticks, Go's select picks the
\* end of the context if it is offered for ever, a browser follows its script,
\* and a reset arrives.
FairSpec ==
    /\ Spec
    /\ WF_vars(W!Run /\ Watch)
    /\ SF_vars(W!SelectDone /\ Watch)
    /\ WF_vars(W!Tick /\ Watch)
    /\ WF_vars(H!Broadcast /\ Hub)
    /\ SF_vars((\E c \in Conns : H!Register(c)) /\ Hub)
    /\ WF_vars(CancelWatch \/ CloseWatcher)
    /\ \A b \in Browsers : WF_vars(Script(b))
    /\ WF_vars(\E c \in Conns : Reset(c))

-----------------------------------------------------------------------------
(* Properties.                                                             *)

\* "the browser reloads whenever the server reports a change" (server.go):
\* while the server listens, a page that stays open and live shows the tree as
\* it is in the end, through polls, coalesced events, broadcasts and reloads.
\* Excused (untold) are the changes made after the page was loaded and before
\* its connection was registered or before the watcher's first snapshot, which
\* may have been told to everybody by the time the page could hear it, and those
\* that no two looks of the watcher tell apart (CameAndWent).
OpenPageIsFresh ==
    \A b \in Browsers :
        <>[](bst[b] = "live" /\ spc = "listening")
            => <>[](page[b] = disk \/ untold[b])

\* After Serve has returned, its two goroutines end, although nobody waits
\* for them and the root is closed under them.
GoroutinesEnd == spc = "returned" ~> wpc = "exited" /\ bpc = "exited"

\* The message that tells browser b to reload is on its way: an event waits,
\* the broadcast has yet to visit b's connection, or the socket holds it.
Coming(b) ==
    \/ events = 1 \/ bpc = "lock"
    \/ Conn(b) \in todo \/ (bpc = "write" /\ target = Conn(b))
    \/ sock[Conn(b)] > 0

\* The safety behind OpenPageIsFresh: an open page that shows an old file, one
\* that has gone, or not a new one, and was there to be told, is told of it yet,
\* or the watcher is behind in that file as well.  No step of poll, comparison,
\* event, lock, broadcast or write may let go of a change before the next has it.
StalePageIsTold ==
    \A b \in Browsers, f \in W!Files :
        bst[b] = "live" /\ page[b][f] # disk[f] /\ ~ untold[b]
            => last[f] # disk[f] \/ Coming(b)

\* The server gives the watcher what Watcher asks of its owner: it cancels the
\* context before it closes the watcher, and only receives from the channel.
WatcherKept == W!Spec

\* The hub's surroundings keep to ReloadHub, but for the ghost that it has for
\* its own properties: a difference of two snapshots is always put on the
\* channel, which is closed once and takes nothing after, and each connection is
\* asked for, drained, closed and reset as ReloadHub's clients may do it.
HubKept == H!Init /\ [][H!Next \/ H!PutEvent]_H!reloadVars
=============================================================================
