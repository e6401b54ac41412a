-------------------------- MODULE LiveReloadProofs --------------------------
(***************************************************************************)
(* Theorems about live reload from end to end, for every tree, every       *)
(* browser and every size of the sockets: the watcher's and the hub's      *)
(* surroundings keep to what Watcher and ReloadHub ask of them, so that    *)
(* what is proved of either holds here, and no page that was there to be   *)
(* told of a change is forgotten between the two.                          *)
(***************************************************************************)
EXTENDS LiveReload, TLAPS

VARIABLE owed      \* history: the ghost of ReloadHub, which LiveReload leaves out

\* The theorems about the two parts, with the constants they have here.  They
\* speak of copies of the parts' definitions, equal to those of W and R.
WP == INSTANCE WatcherProofs
HP == INSTANCE ReloadHubProofs

\* ReloadHub as it is, with its ghost.
R == INSTANCE ReloadHub

\* The constants are what Watcher and ReloadHub assume of theirs.
LEMMA Assumed ==
    /\ NumFiles \in Nat /\ MaxClock \in Nat /\ MayRemove \in BOOLEAN
    /\ SockCap \in Nat \ {0} /\ Draining \subseteq Conns /\ NoConn \notin Conns
  BY LiveAssumption DEF MayRemove, Draining, Conns

-----------------------------------------------------------------------------
(* What is proved of the parts.                                            *)

\* The two copies of Watcher have the same behaviours.
LEMMA SameWatcher ==
    /\ W!Init => WP!Init
    /\ [W!Next]_W!watcherVars => [WP!Next]_WP!watcherVars
<1> USE DEF W!treeVars, WP!treeVars, W!ctlVars, WP!ctlVars, W!runVars, WP!runVars, W!chanVars,
    WP!chanVars, W!Files, WP!Files, W!NoFiles, WP!NoFiles, W!Absent, WP!Absent, W!Stamps, WP!Stamps
<1>1. W!Init => WP!Init
  BY DEF W!Init, WP!Init
<1>2. W!ListDir => WP!ListDir
  BY DEF W!ListDir, WP!ListDir
<1>3. W!StatFile => WP!StatFile
  BY DEF W!StatFile, WP!StatFile, W!Min, WP!Min
<1>4. W!Compare => WP!Compare
  <2>1. W!SnapshotsEqual(last, current) <=> WP!SnapshotsEqual(last, current)
    <3>1. W!Keys(last) = WP!Keys(last) /\ W!Keys(current) = WP!Keys(current)
      BY DEF W!Keys, WP!Keys
    <3>2. /\ W!Cardinality(W!Keys(last)) = WP!Cardinality(WP!Keys(last))
          /\ W!Cardinality(W!Keys(current)) = WP!Cardinality(WP!Keys(current))
      BY <3>1 DEF W!Cardinality, WP!Cardinality
    <3>3. QED
      BY <3>1, <3>2 DEF W!SnapshotsEqual, WP!SnapshotsEqual
  <2>2. QED
    BY <2>1 DEF W!Compare, WP!Compare
<1>5. W!SelectTick \/ W!SelectDone => WP!SelectTick \/ WP!SelectDone
  BY DEF W!SelectTick, WP!SelectTick, W!SelectDone, WP!SelectDone
<1>6. W!Next => WP!Next
  BY <1>2, <1>3, <1>4, <1>5 DEF W!Run, WP!Run, W!Next, WP!Next, W!Write, WP!Write, W!Remove,
     WP!Remove, W!Tick, WP!Tick, W!Receive, WP!Receive, W!Cancel, WP!Cancel, W!Close, WP!Close
<1>7. QED
  BY <1>1, <1>6 DEF W!watcherVars, WP!watcherVars

\* WatcherProofs' results for W: whatever keeps to Watcher has its properties.
LEMMA WatcherSound == W!Spec => []W!TypeOK /\ W!ReportedBeforeForgotten
<1>1. WP!TypeOK => W!TypeOK
  BY DEF W!TypeOK, WP!TypeOK, W!Files, WP!Files, W!Stamps, WP!Stamps, W!Absent, WP!Absent
<1>2. [started /\ last' # last => events' = 1]_WP!watcherVars
        => [started /\ last' # last => events' = 1]_W!watcherVars
  BY DEF W!treeVars, WP!treeVars, W!ctlVars, WP!ctlVars, W!runVars, WP!runVars, W!chanVars,
     WP!chanVars, W!watcherVars, WP!watcherVars
<1>3. WP!Spec => []WP!TypeOK
  BY Assumed, WP!TypeCorrect
<1>4. WP!Spec => WP!ReportedBeforeForgotten
  BY Assumed, WP!ChangesReported
<1>5. QED
  BY <1>1, <1>2, <1>3, <1>4, SameWatcher, PTL
  DEF W!Spec, WP!Spec, W!ReportedBeforeForgotten, WP!ReportedBeforeForgotten

\* The two copies of ReloadHub have the same behaviours.
LEMMA SameHub == (R!Init => HP!Init) /\ ([R!Next]_R!reloadVars => [HP!Next]_HP!reloadVars)
<1> USE DEF R!chanVars, HP!chanVars, R!hubVars, HP!hubVars, R!netVars, HP!netVars
<1>1. R!Init => HP!Init
  BY DEF R!Init, R!HubInit, HP!Init, HP!HubInit
<1>2. ASSUME NEW c \in Conns, R!Upgrade(c) \/ R!Register(c) PROVE HP!Upgrade(c) \/ HP!Register(c)
  BY <1>2 DEF R!Upgrade, R!Register, HP!Upgrade, HP!Register
<1>3. R!Broadcast => HP!Broadcast
  BY DEF R!Broadcast, R!TakeEvent, R!FeedEnds, R!LockConns, R!PickConn, R!WriteSucceeds,
     R!WriteFails, R!UnlockConns, HP!Broadcast, HP!TakeEvent, HP!FeedEnds, HP!LockConns,
     HP!PickConn, HP!WriteSucceeds, HP!WriteFails, HP!UnlockConns
<1>4. ASSUME NEW c \in Conns,
             R!Drain(c) \/ R!PeerCloses(c) \/ R!PeerResets(c) \/ R!LinkBreaks(c)
      PROVE  HP!Drain(c) \/ HP!PeerCloses(c) \/ HP!PeerResets(c) \/ HP!LinkBreaks(c)
  BY <1>4 DEF R!Drain, R!PeerCloses, R!PeerResets, R!LinkBreaks,
     HP!Drain, HP!PeerCloses, HP!PeerResets, HP!LinkBreaks
<1>5. R!Report \/ R!EndFeed => HP!Report \/ HP!EndFeed
  BY DEF R!Report, R!PutEvent, R!EndFeed, HP!Report, HP!PutEvent, HP!EndFeed
<1>6. R!Next => HP!Next
  BY <1>2, <1>3, <1>4, <1>5 DEF R!Next, HP!Next
<1>7. QED
  BY <1>1, <1>6 DEF R!reloadVars, HP!reloadVars

\* ReloadHubProofs' results for R.
LEMMA HubSound ==
    R!Spec => [](R!TypeOK /\ R!NoLostReload /\ R!NoConnectionLeaks) /\ R!MapNotRaced
<1>1. HP!HubInv => R!TypeOK /\ R!NoLostReload /\ R!NoConnectionLeaks
  BY DEF HP!HubInv, HP!TypeOK, HP!NoLostReload, HP!NoConnectionLeaks,
     R!TypeOK, R!NoLostReload, R!NoConnectionLeaks
<1>2. [mu = "broadcast" => conns' \subseteq conns]_HP!reloadVars
        => [mu = "broadcast" => conns' \subseteq conns]_R!reloadVars
  BY DEF R!chanVars, HP!chanVars, R!hubVars, HP!hubVars, R!netVars, HP!netVars,
     R!reloadVars, HP!reloadVars
<1>3. HP!Spec => []HP!HubInv
  BY Assumed, HP!Invariance
<1>4. HP!Spec => HP!MapNotRaced
  BY Assumed, HP!NoMapRace
<1>5. QED
  BY <1>1, <1>2, <1>3, <1>4, SameHub, PTL
  DEF R!Spec, HP!Spec, R!MapNotRaced, HP!MapNotRaced

-----------------------------------------------------------------------------
(* The watcher's part.                                                     *)

\* Every step is one of the watcher's, of its tree or of its owner, or leaves
\* it alone: the hub receives from the channel, Serve cancels before it closes.
LEMMA WatcherStep == [Next]_vars => [W!Next]_W!watcherVars
<1> SUFFICES ASSUME [Next]_vars PROVE [W!Next]_W!watcherVars
  OBVIOUS
<1> USE DEF watchVars, runVars, chanVars, W!watcherVars, W!treeVars, W!ctlVars, W!runVars,
    W!chanVars
<1>1. CASE Change
  BY <1>1 DEF Change, W!Next
<1>2. CASE Watch
  BY <1>2 DEF Watch, W!Next
<1>3. CASE Hub
  <2>1. CASE H!Broadcast
    <3>1. CASE H!TakeEvent
      BY <1>3, <3>1 DEF Hub, H!TakeEvent, W!Next, W!Receive
    <3>2. CASE ~ H!TakeEvent
      BY <1>3, <2>1, <3>2 DEF Hub, H!Broadcast, H!FeedEnds, H!LockConns, H!PickConn,
         H!WriteSucceeds, H!WriteFails, H!UnlockConns, H!chanVars
    <3>3. QED
      BY <3>1, <3>2
  <2>2. ASSUME NEW c \in Conns, H!Register(c) PROVE UNCHANGED W!watcherVars
    BY <1>3, <2>2 DEF Hub, H!Register, H!chanVars
  <2>3. QED
    BY <1>3, <2>1, <2>2 DEF Hub
<1>4. CASE CancelWatch
  BY <1>4 DEF CancelWatch, W!Next
<1>5. CASE CloseWatcher
  BY <1>5 DEF CloseWatcher, W!Next
<1>6. ASSUME ListenerFails \/ UNCHANGED vars PROVE UNCHANGED W!watcherVars
  BY <1>6 DEF ListenerFails, vars
<1>7. ASSUME NEW b \in Browsers, Load(b) \/ LoadFails(b) \/ Connect(b) \/ OnMessage(b) \/ CloseTab(b)
      PROVE  UNCHANGED W!watcherVars
  BY <1>7 DEF Load, LoadFails, Connect, OnMessage, CloseTab, Disconnect, H!PeerCloses,
     H!Upgrade, H!Drain, H!chanVars
<1>8. ASSUME NEW c \in Conns, Reset(c) PROVE UNCHANGED W!watcherVars
  BY <1>8 DEF Reset, H!PeerResets, H!chanVars
<1>9. QED
  BY <1>1, <1>2, <1>3, <1>4, <1>5, <1>6, <1>7, <1>8 DEF Next

\* Live reload gives the watcher what Watcher asks of its owner.
THEOREM WatcherIsKept == Spec => WatcherKept
<1>1. Init => W!Init
  BY DEF Init
<1>2. QED
  BY <1>1, WatcherStep, PTL DEF Spec, WatcherKept, W!Spec

\* So its channel is never overfilled, and it reports each change before it
\* forgets it, whatever Serve, the broadcast and the browsers do.
THEOREM WatcherSafe == Spec => []W!TypeOK /\ W!ReportedBeforeForgotten
  BY WatcherIsKept, WatcherSound DEF WatcherKept

-----------------------------------------------------------------------------
(* The watcher's state, as its surroundings may rely on it.                *)

\* The channel is closed by Run alone, as it ends.
ClosedByRun == evClosed => wpc = "exited"

\* No snapshot holds a stamp that a file is given later.
Stamped == \A f \in W!Files : disk[f] <= clock /\ last[f] <= clock /\ current[f] <= clock

\* A poll reads stamps that have been given; only SelectDone closes and ends.
LEMMA WatcherState == W!Spec => [](ClosedByRun /\ Stamped)
<1> USE DEF W!treeVars, W!ctlVars, W!runVars, W!chanVars
<1>1. W!Init => ClosedByRun /\ Stamped
  BY DEF W!Init, W!NoFiles, W!Absent, ClosedByRun, Stamped
<1>2. ClosedByRun /\ [W!Next]_W!watcherVars => ClosedByRun'
  BY Zenon DEF ClosedByRun, W!Next, W!Run, W!Write, W!Remove, W!ListDir, W!StatFile, W!Compare,
     W!SelectTick, W!SelectDone, W!Tick, W!Receive, W!Cancel, W!Close, W!watcherVars
<1>3. W!TypeOK /\ Stamped /\ [W!Next]_W!watcherVars => Stamped'
  <2> SUFFICES ASSUME W!TypeOK, Stamped, [W!Next]_W!watcherVars PROVE Stamped'
    OBVIOUS
  <2>t. /\ clock \in Nat /\ NumFiles \in Nat
        /\ \A f \in W!Files : disk[f] \in Nat /\ last[f] \in Nat /\ current[f] \in Nat
        /\ disk \in [W!Files -> W!Stamps] /\ current \in [W!Files -> W!Stamps]
    BY Assumed DEF W!TypeOK, W!Stamps, W!Absent
  <2>1. ASSUME NEW f \in W!Files, W!Write(f) PROVE Stamped'
    BY <2>t, <2>1 DEF Stamped, W!Write
  <2>2. ASSUME NEW f \in W!Files, W!Remove(f) PROVE Stamped'
    BY <2>t, <2>2 DEF Stamped, W!Remove, W!Absent
  <2>3. CASE W!ListDir
    BY <2>t, <2>3 DEF Stamped, W!ListDir, W!NoFiles, W!Absent
  <2>4. CASE W!StatFile
    <3>1. PICK f : \E s \in {disk[f], 0} : current' = [current EXCEPT ![f] = s]
      BY <2>4 DEF W!StatFile, W!Absent
    <3>2. ASSUME NEW g \in W!Files PROVE current'[g] <= clock
      BY <2>t, <3>1 DEF Stamped
    <3>3. QED
      BY <2>4, <3>2 DEF Stamped, W!StatFile
  <2>5. CASE W!Compare
    BY <2>5 DEF Stamped, W!Compare
  <2>6. CASE W!SelectTick \/ W!SelectDone \/ W!Tick \/ W!Receive \/ W!Cancel \/ W!Close
    BY <2>6 DEF Stamped, W!SelectTick, W!SelectDone, W!Tick, W!Receive, W!Cancel, W!Close
  <2>7. CASE UNCHANGED W!watcherVars
    BY <2>7 DEF Stamped, W!watcherVars
  <2>8. QED
    BY <2>1, <2>2, <2>3, <2>4, <2>5, <2>6, <2>7 DEF W!Next, W!Run
<1>4. QED
  BY <1>1, <1>2, <1>3, WatcherSound, PTL DEF W!Spec

-----------------------------------------------------------------------------
(* The browsers.                                                           *)

\* A browser that is about to connect may, and one that is connected did.
BrowserType ==
    /\ load \in [Browsers -> 0..MaxLoads]
    /\ bst \in [Browsers -> {"closed", "loaded", "live", "deaf", "reloading"}]
    /\ \A b \in Browsers :
          /\ bst[b] = "loaded" => load[b] < MaxLoads
          /\ bst[b] \in {"live", "reloading"} => load[b] > 0

\* Each browser's own steps keep to that; the others leave it alone.
LEMMA BrowserStep == BrowserType /\ [Next]_vars => BrowserType'
<1> SUFFICES ASSUME BrowserType, [Next]_vars PROVE BrowserType'
  OBVIOUS
<1> USE LiveAssumption DEF BrowserType
<1>1. ASSUME NEW b \in Browsers, Load(b) PROVE BrowserType'
  BY <1>1 DEF Load
<1>2. ASSUME NEW b \in Browsers, LoadFails(b) \/ OnMessage(b) \/ CloseTab(b) PROVE BrowserType'
  BY <1>2 DEF LoadFails, OnMessage, CloseTab
<1>3. ASSUME NEW b \in Browsers, Connect(b) PROVE BrowserType'
  <2>1. PICK s \in {"live", "deaf"} : bst' = [bst EXCEPT ![b] = s]
    BY <1>3 DEF Connect
  <2>2. load' = [load EXCEPT ![b] = @ + 1] /\ bst[b] = "loaded"
    BY <1>3 DEF Connect
  <2>3. QED
    BY <2>1, <2>2
<1>4. ASSUME \/ Change \/ Watch \/ Hub \/ ListenerFails \/ CancelWatch \/ CloseWatcher
             \/ (\E c \in Conns : Reset(c)) \/ UNCHANGED vars
      PROVE  bst' = bst /\ load' = load
  BY <1>4 DEF Change, Watch, Hub, ListenerFails, CancelWatch, CloseWatcher, Reset, browserVars, vars
<1>5. QED
  BY <1>1, <1>2, <1>3, <1>4 DEF Next

\* A browser asks for connections among Conns.
LEMMA BrowsersConns ==
    ASSUME BrowserType, NEW b \in Browsers
    PROVE  /\ bst[b] = "loaded" => <<b, load[b] + 1>> \in Conns
           /\ bst[b] \in {"live", "reloading"} => Conn(b) \in Conns
  BY LiveAssumption DEF BrowserType, Conns, Conn

-----------------------------------------------------------------------------
(* The hub's part.                                                         *)

\* A poll that changes Run's view is the hub's PutEvent, the end of Run its
\* EndFeed; the hub sees no other step of the watcher.
LEMMA WatchIsFeed ==
    ASSUME ClosedByRun, Watch, started /\ last' # last => events' = 1
    PROVE  /\ H!PutEvent \/ H!EndFeed \/ UNCHANGED H!reloadVars
           /\ started /\ last' # last => H!PutEvent
           /\ ~ (started /\ last' # last) => H!EndFeed \/ UNCHANGED H!reloadVars
<1> USE DEF Watch, chanVars, hubVars, H!reloadVars, H!chanVars, H!hubVars, H!netVars
<1>1. CASE W!Compare
  <2>1. ~ evClosed /\ evClosed' = evClosed
    BY <1>1, Zenon DEF W!Compare, ClosedByRun
  <2>2. CASE started /\ last' # last
    BY <2>1, <2>2 DEF H!PutEvent
  <2>3. CASE ~ (started /\ last' # last)
    <3>1. last = current => W!SnapshotsEqual(last, current)
      BY DEF W!SnapshotsEqual
    <3>2. events' = events
      BY <1>1, <2>3, <3>1 DEF W!Compare
    <3>3. QED
      BY <2>1, <2>3, <3>2
  <2>4. QED
    BY <2>2, <2>3
<1>2. CASE W!SelectDone
  <2>1. ~ evClosed /\ evClosed' = TRUE
    BY <1>2, Zenon DEF W!SelectDone, ClosedByRun
  <2>2. events' = events /\ last' = last
    BY <1>2 DEF W!SelectDone
  <2>3. H!EndFeed
    BY <2>1, <2>2, Zenon DEF H!EndFeed
  <2>4. QED
    BY <2>2, <2>3
<1>3. CASE W!ListDir \/ W!StatFile \/ W!SelectTick \/ W!Tick
  BY <1>3 DEF W!ListDir, W!StatFile, W!SelectTick, W!Tick, W!chanVars
<1>4. QED
  BY <1>1, <1>2, <1>3 DEF W!Run

\* No other step changes Run's view, and each is one of ReloadHub's or leaves
\* its state alone.
LEMMA OthersStep ==
    ASSUME BrowserType, [Next]_vars, ~ Watch
    PROVE  /\ last' = last
           /\ \/ UNCHANGED H!reloadVars
              \/ \E c \in Conns : H!Upgrade(c) \/ H!Register(c)
              \/ H!Broadcast
              \/ \E c \in Conns : H!Drain(c) \/ H!PeerCloses(c) \/ H!PeerResets(c)
<1> USE DEF chanVars, hubVars, watchVars, runVars, H!reloadVars, H!chanVars, H!hubVars, H!netVars
<1>1. CASE Hub
  BY <1>1 DEF Hub
<1>2. CASE Change
  BY <1>2 DEF Change, W!Write, W!Remove, W!runVars, W!chanVars
<1>3. CASE ListenerFails \/ CancelWatch \/ CloseWatcher
  BY <1>3 DEF ListenerFails, CancelWatch, CloseWatcher, W!Cancel, W!Close, W!runVars, W!chanVars
<1>4. ASSUME NEW b \in Browsers, Load(b) \/ LoadFails(b) \/ OnMessage(b) \/ CloseTab(b)
      PROVE  /\ last' = last
             /\ \/ UNCHANGED H!reloadVars
                \/ \E c \in Conns : H!Drain(c) \/ H!PeerCloses(c)
  BY <1>4, BrowsersConns DEF Load, LoadFails, OnMessage, CloseTab, Disconnect
<1>5. ASSUME NEW b \in Browsers, Connect(b)
      PROVE  last' = last /\ \E c \in Conns : H!Upgrade(c)
  BY <1>5, BrowsersConns DEF Connect
<1>6. ASSUME NEW c \in Conns, Reset(c) PROVE last' = last /\ H!PeerResets(c)
  BY <1>6 DEF Reset
<1>7. CASE UNCHANGED vars
  BY <1>7 DEF vars
<1>8. QED
  BY <1>1, <1>2, <1>3, <1>4, <1>5, <1>6, <1>7 DEF Next

\* Live reload gives the hub what ReloadHub asks of its watcher and clients.
THEOREM HubIsKept == Spec => HubKept
<1>1. Init => BrowserType /\ H!Init
  BY LiveAssumption DEF Init, BrowserType, H!Init, W!Init
<1>2. /\ ClosedByRun /\ BrowserType /\ [Next]_vars
      /\ [started /\ last' # last => events' = 1]_W!watcherVars
      => [H!Next \/ H!PutEvent]_H!reloadVars
  <2> SUFFICES ASSUME ClosedByRun, BrowserType, [Next]_vars,
                      [started /\ last' # last => events' = 1]_W!watcherVars
               PROVE  [H!Next \/ H!PutEvent]_H!reloadVars
    OBVIOUS
  <2>1. started /\ last' # last => events' = 1
    BY DEF W!watcherVars, W!runVars
  <2>2. CASE Watch
    BY <2>1, <2>2, WatchIsFeed DEF H!Next
  <2>3. CASE ~ Watch
    BY <2>3, OthersStep DEF H!Next
  <2>4. QED
    BY <2>2, <2>3
<1>3. QED
  BY <1>1, <1>2, BrowserStep, WatcherIsKept, WatcherSound, WatcherState, PTL
  DEF Spec, WatcherKept, HubKept, W!ReportedBeforeForgotten

-----------------------------------------------------------------------------
(* The hub's part, with the ghost.                                         *)

\* A difference that the watcher sees is owed to all that are registered, and a
\* write by which the broadcast sends it to one of them, or drops that one,
\* settles it.
Owe ==
    owed' = IF started /\ last' # last THEN owed \cup conns
            ELSE IF bpc = "write" /\ bpc' = "range" THEN owed \ {target}
            ELSE owed

OwingSpec == Init /\ owed = {} /\ [][Next /\ Owe]_<<vars, owed>>

\* With the ghost each step of the hub's part is a step of ReloadHub.
LEMMA OwingStep ==
    ASSUME ClosedByRun, BrowserType, [Next /\ Owe]_<<vars, owed>>,
           started /\ last' # last => events' = 1
    PROVE  [R!Next]_R!reloadVars
<1> USE DEF R!reloadVars, R!chanVars, R!hubVars, R!netVars, H!reloadVars, H!chanVars, H!hubVars,
    H!netVars
<1>1. CASE UNCHANGED <<vars, owed>>
  BY <1>1 DEF vars, chanVars, hubVars
<1> SUFFICES ASSUME Next, Owe PROVE [R!Next]_R!reloadVars
  BY <1>1
<1>2. CASE Watch
  <2>1. bpc' = bpc
    BY <1>2 DEF Watch, hubVars
  <2>2. CASE started /\ last' # last
    BY <1>2, <2>2, WatchIsFeed DEF Owe, H!PutEvent, R!PutEvent, R!Report, R!Next
  <2>3. CASE ~ (started /\ last' # last)
    <3>1. owed' = owed
      BY <2>1, <2>3 DEF Owe
    <3>2. H!EndFeed \/ UNCHANGED H!reloadVars
      BY <1>2, <2>3, WatchIsFeed
    <3>3. QED
      BY <3>1, <3>2 DEF H!EndFeed, R!EndFeed, R!Next
  <2>4. QED
    BY <2>2, <2>3
<1>3. CASE ~ Watch
  <2> USE DEF Owe
  <2>1. last' = last
    BY <1>3, OthersStep
  <2>2. CASE UNCHANGED H!reloadVars
    BY <2>1, <2>2
  <2>3. ASSUME NEW c \in Conns, H!Upgrade(c) \/ H!Register(c) PROVE [R!Next]_R!reloadVars
    BY <2>1, <2>3 DEF H!Upgrade, H!Register, R!Upgrade, R!Register, R!Next
  <2>4. ASSUME NEW c \in Conns, H!Drain(c) \/ H!PeerCloses(c) \/ H!PeerResets(c)
        PROVE  [R!Next]_R!reloadVars
    BY <2>1, <2>4 DEF H!Drain, H!PeerCloses, H!PeerResets, R!Drain, R!PeerCloses, R!PeerResets,
       R!Next
  <2>5. CASE H!WriteSucceeds
    BY <2>1, <2>5 DEF H!WriteSucceeds, R!WriteSucceeds, R!Broadcast, R!Next
  <2>6. CASE H!WriteFails
    BY <2>1, <2>6 DEF H!WriteFails, R!WriteFails, R!Broadcast, R!Next
  <2>7. CASE H!TakeEvent \/ H!FeedEnds \/ H!LockConns \/ H!UnlockConns
    BY <2>1, <2>7 DEF H!TakeEvent, H!FeedEnds, H!LockConns, H!UnlockConns,
       R!TakeEvent, R!FeedEnds, R!LockConns, R!UnlockConns, R!Broadcast, R!Next
  <2>8. ASSUME NEW c \in Conns, H!PickConn(c) PROVE [R!Next]_R!reloadVars
    BY <2>1, <2>8 DEF H!PickConn, R!PickConn, R!Broadcast, R!Next
  <2>9. QED
    BY <1>3, <2>2, <2>3, <2>4, <2>5, <2>6, <2>7, <2>8, OthersStep DEF H!Broadcast
<1>4. QED
  BY <1>2, <1>3

\* So no reload is lost, no connection leaks, no socket is overfilled and the
\* map is not raced, whatever the watcher, Serve and the browsers do.
THEOREM HubSafe ==
    OwingSpec => [](R!TypeOK /\ R!NoLostReload /\ R!NoConnectionLeaks) /\ R!MapNotRaced
<1>1. Init /\ owed = {} => BrowserType /\ R!Init
  BY LiveAssumption DEF Init, BrowserType, H!HubInit, R!Init, R!HubInit, W!Init
<1>2. [Next /\ Owe]_<<vars, owed>> => [Next]_vars
  OBVIOUS
<1>3. /\ ClosedByRun /\ BrowserType /\ [Next /\ Owe]_<<vars, owed>>
      /\ [started /\ last' # last => events' = 1]_W!watcherVars
      => [R!Next]_R!reloadVars
  <2>1. ASSUME UNCHANGED W!watcherVars PROVE last' = last
    BY <2>1 DEF W!watcherVars, W!runVars
  <2>2. QED
    BY <2>1, OwingStep
<1>4. QED
  BY <1>1, <1>2, <1>3, BrowserStep, WatcherIsKept, WatcherSound, WatcherState, HubSound, PTL
  DEF OwingSpec, Spec, WatcherKept, R!Spec, W!ReportedBeforeForgotten

-----------------------------------------------------------------------------
(* A stale page is told.                                                   *)

\* The types of what a page and its connection are.
NetType ==
    /\ handler \in [Conns -> {"none", "upgraded", "failed", "done"}]
    /\ sock \in [Conns -> Nat]
    /\ peer \in [Conns -> {"none", "open", "closed", "reset"}]
    /\ page \in [Browsers -> [W!Files -> W!Stamps]]
    /\ untold \in [Browsers -> BOOLEAN]

\* What makes StalePageIsTold hold for ever: a page that is loading, or that
\* is not registered yet, or that was loaded before the watcher's first
\* snapshot is excused by any change, so that a stale page that is not excused
\* is registered, with its client's end open, and watched for.
Told(b) ==
    /\ bst[b] = "loaded" /\ ~ untold[b] => page[b] = disk
    /\ bst[b] = "live" => peer[Conn(b)] = "open"
    /\ \A f \in W!Files :
          bst[b] = "live" /\ page[b][f] # disk[f] /\ ~ untold[b] =>
             /\ started /\ Conn(b) \in conns
             /\ last[f] # disk[f] \/ Coming(b)

LiveInv == BrowserType /\ NetType /\ \A b \in Browsers : Told(b)

\* No browser has a page at first.
LEMMA LiveInit == Init => LiveInv
<1> SUFFICES ASSUME Init PROVE LiveInv
  OBVIOUS
<1> USE LiveAssumption DEF Init
<1>1. BrowserType
  BY DEF BrowserType
<1>2. NetType
  <2>1. /\ handler \in [Conns -> {"none", "upgraded", "failed", "done"}]
        /\ sock \in [Conns -> Nat]
        /\ peer \in [Conns -> {"none", "open", "closed", "reset"}]
    BY DEF H!HubInit
  <2>2. page \in [Browsers -> [W!Files -> W!Stamps]]
    <3>1. W!NoFiles \in [W!Files -> W!Stamps]
      BY DEF W!NoFiles, W!Stamps, W!Absent
    <3>2. QED
      BY <3>1
  <2>3. untold \in [Browsers -> BOOLEAN]
    BY Zenon
  <2>4. QED
    BY <2>1, <2>2, <2>3 DEF NetType
<1>3. ASSUME NEW b \in Browsers PROVE Told(b)
  BY DEF Told
<1>4. QED
  BY <1>1, <1>2, <1>3 DEF LiveInv

\* Each variable is changed by few of the steps.
LEMMA NetStep == W!TypeOK /\ BrowserType /\ NetType /\ [Next]_vars => NetType'
<1> SUFFICES ASSUME W!TypeOK, BrowserType, NetType, [Next]_vars PROVE NetType'
  OBVIOUS
<1> USE DEF hubVars, browserVars, H!netVars
<1>1. page' \in [Browsers -> [W!Files -> W!Stamps]]
  <2>1. page' = page \/ \E b \in Browsers : page' = [page EXCEPT ![b] = disk]
    BY DEF Next, Change, Watch, Hub, ListenerFails, CancelWatch, CloseWatcher, Load, LoadFails,
       Connect, OnMessage, CloseTab, Reset, vars
  <2>2. QED
    BY <2>1 DEF NetType, W!TypeOK
<1>2. untold' \in [Browsers -> BOOLEAN]
  <2>1. CASE Change
    BY <2>1, Zenon DEF Change
  <2>2. CASE untold' = untold \/ \E b \in Browsers : untold' = [untold EXCEPT ![b] = FALSE]
    BY <2>2, Zenon DEF NetType
  <2>3. ~ Change => untold' = untold \/ \E b \in Browsers : untold' = [untold EXCEPT ![b] = FALSE]
    BY DEF Next, Watch, Hub, ListenerFails, CancelWatch, CloseWatcher, Load, LoadFails,
       Connect, OnMessage, CloseTab, Reset, vars
  <2>4. QED
    BY <2>1, <2>2, <2>3
<1>3. sock' \in [Conns -> Nat] /\ peer' \in [Conns -> {"none", "open", "closed", "reset"}]
  <2> USE DEF NetType
  <2>1. CASE H!WriteSucceeds
    <3>1. sock' = [sock EXCEPT ![target] = @ + 1] /\ peer' = peer
      BY <2>1 DEF H!WriteSucceeds
    <3>2. ASSUME NEW c \in Conns PROVE sock'[c] \in Nat
      BY <3>1
    <3>3. sock' \in [Conns -> Nat]
      BY <3>1, <3>2
    <3>4. QED
      BY <3>1, <3>3
  <2>2. ASSUME NEW c, H!Drain(c) \/ H!PeerCloses(c) \/ H!PeerResets(c) \/ H!Upgrade(c)
        PROVE  sock' \in [Conns -> Nat] /\ peer' \in [Conns -> {"none", "open", "closed", "reset"}]
    BY <2>2 DEF H!Drain, H!PeerCloses, H!PeerResets, H!Upgrade
  <2>3. CASE UNCHANGED <<sock, peer>>
    BY <2>3
  <2>4. Hub /\ ~ H!WriteSucceeds => UNCHANGED <<sock, peer>>
    BY DEF Hub, H!Broadcast, H!TakeEvent, H!FeedEnds, H!LockConns, H!PickConn, H!WriteFails,
       H!UnlockConns, H!Register
  <2>5. QED
    BY <2>1, <2>2, <2>3, <2>4 DEF Next, Change, Watch, ListenerFails, CancelWatch, CloseWatcher,
       Load, LoadFails, Connect, OnMessage, CloseTab, Disconnect, Reset, vars
<1>4. handler' \in [Conns -> {"none", "upgraded", "failed", "done"}]
  <2> USE DEF NetType
  <2>1. ASSUME NEW c, H!Upgrade(c) \/ H!Register(c)
        PROVE  handler' \in [Conns -> {"none", "upgraded", "failed", "done"}]
    BY <2>1 DEF H!Upgrade, H!Register
  <2>2. ASSUME NEW c, H!Drain(c) \/ H!PeerCloses(c) \/ H!PeerResets(c) PROVE handler' = handler
    BY <2>2 DEF H!Drain, H!PeerCloses, H!PeerResets, H!hubVars
  <2>3. H!Broadcast => handler' = handler
    BY DEF H!Broadcast, H!TakeEvent, H!FeedEnds, H!LockConns, H!PickConn, H!WriteSucceeds,
       H!WriteFails, H!UnlockConns
  <2>4. QED
    BY <2>1, <2>2, <2>3 DEF Next, Change, Watch, Hub, ListenerFails, CancelWatch, CloseWatcher,
       Load, LoadFails, Connect, OnMessage, CloseTab, Disconnect, Reset, vars
<1>5. QED
  BY <1>1, <1>2, <1>3, <1>4 DEF NetType

\* A file that is written gets a stamp later than every snapshot's, one that is
\* removed is missed by whoever saw it, and whoever misses a change is excused.
LEMMA ChangeTold ==
    ASSUME W!TypeOK, Stamped, LiveInv, Change, NEW b \in Browsers
    PROVE  Told(b)'
<1> USE DEF hubVars
<1>1. PICK f \in W!Files :
         /\ W!Write(f) \/ W!Remove(f)
         /\ untold' = [a \in Browsers |->
                untold[a] \/ ~ (Registered(a) /\ started) \/ CameAndWent(f, a)]
  BY DEF Change
<1>2. ~ untold'[b] => ~ untold[b] /\ Registered(b) /\ started /\ ~ CameAndWent(f, b)
  BY <1>1, Zenon
<1>3. UNCHANGED <<bst, peer, load, page, started, conns, last, events, bpc, todo, target, sock>>
  BY DEF Change, W!Write, W!Remove, W!runVars, W!chanVars
<1>4. bst[b] = "live" => peer[Conn(b)] = "open"
  BY DEF LiveInv, Told
<1>5. disk \in [W!Files -> W!Stamps] /\ last \in [W!Files -> W!Stamps] /\ clock \in Nat
  BY Assumed DEF W!TypeOK
<1>6. ASSUME NEW g \in W!Files, g # f PROVE disk'[g] = disk[g]
  BY <1>1, <1>5, <1>6 DEF W!Write, W!Remove
<1>7. \/ last[f] # disk'[f]
      \/ disk'[f] = W!Absent /\ last[f] = W!Absent
  <2>1. CASE W!Write(f)
    <3>1. last[f] <= clock /\ last[f] \in Nat
      BY <1>5, Assumed DEF Stamped, W!Stamps, W!Absent
    <3>2. disk'[f] = clock + 1
      BY <2>1, <1>5 DEF W!Write
    <3>3. QED
      BY <3>1, <3>2, <1>5
  <2>2. CASE W!Remove(f)
    BY <2>2, <1>5 DEF W!Remove
  <2>3. QED
    BY <1>1, <2>1, <2>2
<1>8. ASSUME NEW g \in W!Files, bst[b] = "live", page[b][g] # disk'[g], ~ untold'[b]
      PROVE  /\ started /\ Conn(b) \in conns
             /\ last[g] # disk'[g] \/ Coming(b)
  <2>1. ~ untold[b] /\ started /\ Conn(b) \in conns
    BY <1>2, <1>8 DEF Registered
  <2>2. CASE g = f
    BY <1>2, <1>7, <1>8, <2>1, <2>2 DEF CameAndWent
  <2>3. CASE g # f
    BY <1>6, <1>8, <2>1, <2>3 DEF LiveInv, Told
  <2>4. QED
    BY <2>2, <2>3
<1>9. bst[b] # "loaded" \/ untold'[b]
  BY <1>2 DEF Registered
<1>10. Coming(b)' <=> Coming(b)
  BY <1>3 DEF Coming, Conn
<1>11. QED
  BY <1>3, <1>4, <1>8, <1>9, <1>10 DEF Told, Conn

\* A poll that brings Run's view up to date leaves an event.
LEMMA WatchTold ==
    ASSUME LiveInv, Watch, NEW b \in Browsers, started /\ last' # last => events' = 1
    PROVE  Told(b)'
<1> USE DEF Watch, hubVars, browserVars
<1>1. CASE W!Compare
  <2>1. disk' = disk /\ started' = TRUE /\ events' \in {events, 1}
    BY <1>1 DEF W!Compare, W!treeVars
  <2>2. CASE last' = last
    BY <2>1, <2>2 DEF LiveInv, Told, Coming, Conn
  <2>3. CASE last' # last
    BY <2>1, <2>3 DEF LiveInv, Told, Coming, Conn
  <2>4. QED
    BY <2>2, <2>3
<1>2. CASE W!ListDir \/ W!StatFile \/ W!SelectTick \/ W!SelectDone \/ W!Tick
  <2>1. UNCHANGED <<disk, started, last, events>>
    BY <1>2 DEF W!ListDir, W!StatFile, W!SelectTick, W!SelectDone, W!Tick, W!treeVars, W!chanVars
  <2>2. QED
    BY <2>1 DEF LiveInv, Told, Coming, Conn
<1>3. QED
  BY <1>1, <1>2 DEF W!Run

\* An event becomes a broadcast, which visits each connection; a write that
\* finds room leaves the message in the socket, and none to a live page fails.
LEMMA HubTold ==
    ASSUME LiveInv, Hub, NEW b \in Browsers
    PROVE  Told(b)'
<1> USE DEF Hub, watchVars, runVars, browserVars
<1>1. UNCHANGED <<disk, started, last, bst, load, page, untold>>
  OBVIOUS
<1>2. CASE H!WriteSucceeds
  <2>1. /\ sock' = [sock EXCEPT ![target] = @ + 1]
        /\ UNCHANGED <<events, conns, peer, todo>>
    BY <1>2 DEF H!WriteSucceeds, H!chanVars
  <2>2. ASSUME bst[b] = "live" /\ target = Conn(b) PROVE sock'[Conn(b)] > 0
    <3>1. Conn(b) \in Conns
      BY <2>2, BrowsersConns DEF LiveInv
    <3>2. sock'[Conn(b)] = sock[Conn(b)] + 1 /\ sock[Conn(b)] \in Nat
      BY <2>1, <2>2, <3>1 DEF LiveInv, NetType
    <3>3. QED
      BY <3>2
  <2>3. ASSUME target # Conn(b) PROVE sock'[Conn(b)] = sock[Conn(b)]
    BY <2>1, <2>3 DEF LiveInv, NetType
  <2>4. bpc = "write"
    BY <1>2 DEF H!WriteSucceeds
  <2>5. QED
    BY <1>1, <2>1, <2>2, <2>3, <2>4 DEF LiveInv, Told, Coming, Conn
<1>3. CASE H!WriteFails
  <2>1. /\ bpc = "write" /\ peer[target] = "reset"
        /\ conns' = conns \ {target}
        /\ UNCHANGED <<events, peer, todo, sock>>
    BY <1>3 DEF H!WriteFails, H!chanVars
  <2>2. QED
    BY <1>1, <2>1 DEF LiveInv, Told, Coming, Conn
<1>4. CASE H!TakeEvent \/ H!FeedEnds \/ H!LockConns \/ H!UnlockConns
  BY <1>1, <1>4 DEF H!TakeEvent, H!FeedEnds, H!LockConns, H!UnlockConns, H!chanVars, H!netVars,
     LiveInv, Told, Coming, Conn
<1>5. ASSUME NEW c \in Conns, H!PickConn(c) \/ H!Register(c) PROVE Told(b)'
  BY <1>1, <1>5 DEF H!PickConn, H!Register, H!chanVars, H!netVars, LiveInv, Told, Coming, Conn
<1>6. QED
  BY <1>2, <1>3, <1>4, <1>5 DEF H!Broadcast

\* The browsers: a page is up to date when it is loaded.
LEMMA BrowserTold ==
    ASSUME LiveInv, NEW a \in Browsers, NEW b \in Browsers,
           Load(a) \/ LoadFails(a) \/ Connect(a) \/ OnMessage(a) \/ CloseTab(a)
    PROVE  Told(b)'
<1> USE DEF watchVars, runVars, chanVars, hubVars, H!chanVars, H!hubVars, H!netVars
<1>1. UNCHANGED <<disk, started, last, events, conns, bpc, todo, target>>
  BY DEF Load, LoadFails, Connect, OnMessage, CloseTab, Disconnect, H!PeerCloses, H!Upgrade,
     H!Drain
<1>2. CASE a = b
  <2>1. CASE Load(a)
    <3>1. bst'[b] = "loaded" /\ page'[b] = disk'
      BY <1>1, <1>2, <2>1 DEF Load, LiveInv, BrowserType, NetType
    <3>2. QED
      BY <3>1 DEF Told
  <2>2. CASE LoadFails(a) \/ OnMessage(a) \/ CloseTab(a)
    BY <1>1, <1>2, <2>2 DEF LoadFails, OnMessage, CloseTab, LiveInv, BrowserType,
       NetType, Told
  <2>3. CASE Connect(a)
    <3> DEFINE c == <<b, load[b] + 1>>
    <3>1. c \in Conns /\ Conn(b)' = c
      BY <1>2, <2>3, BrowsersConns DEF Connect, Conn, LiveInv, BrowserType
    <3>2. bst'[b] # "loaded" /\ (bst'[b] = "live" => handler'[c] = "upgraded")
      BY <1>2, <2>3 DEF Connect, LiveInv, BrowserType
    <3>3. handler'[c] = "upgraded" => peer'[c] = "open"
      <4>1. CASE handler' = [handler EXCEPT ![c] = "upgraded"] /\ peer' = [peer EXCEPT ![c] = "open"]
        BY <3>1, <4>1 DEF LiveInv, NetType
      <4>2. CASE handler' = [handler EXCEPT ![c] = "failed"]
        BY <3>1, <4>2 DEF LiveInv, NetType
      <4>3. QED
        BY <1>2, <2>3, <4>1, <4>2 DEF Connect, H!Upgrade
    <3>4. page'[b] = disk' \/ untold'[b]
      BY <1>1, <1>2, <2>3 DEF Connect, LiveInv, Told
    <3>5. QED
      BY <3>1, <3>2, <3>3, <3>4 DEF Told
  <2>4. QED
    BY <2>1, <2>2, <2>3
<1>3. CASE a # b
  <2>1. /\ bst'[b] = bst[b] /\ load'[b] = load[b] /\ page'[b] = page[b]
        /\ untold'[b] = untold[b]
    <3>1. CASE Load(a)
      <4>1. untold'[b] = untold[b]
        BY <1>3, <3>1, Zenon DEF Load, LiveInv, NetType
      <4>2. load' = load /\ bst' = [bst EXCEPT ![a] = "loaded"] /\ page' = [page EXCEPT ![a] = disk]
        BY <3>1 DEF Load
      <4>3. QED
        BY <1>3, <4>1, <4>2 DEF LiveInv, BrowserType, NetType
    <3>2. CASE Connect(a)
      BY <1>3, <3>2 DEF Connect, LiveInv, BrowserType, NetType
    <3>3. CASE LoadFails(a) \/ OnMessage(a) \/ CloseTab(a)
      BY <1>3, <3>3 DEF LoadFails, OnMessage, CloseTab, LiveInv, BrowserType, NetType
    <3>4. QED
      BY <3>1, <3>2, <3>3
  <2>2. ASSUME bst[b] = "live"
        PROVE  peer'[Conn(b)] = peer[Conn(b)] /\ sock'[Conn(b)] = sock[Conn(b)]
    <3>1. \A k : <<a, k>> # Conn(b)
      BY <1>3 DEF Conn
    <3>2. peer' = peer \/ \E k, s : peer' = [peer EXCEPT ![<<a, k>>] = s]
      BY DEF Load, LoadFails, Connect, OnMessage, CloseTab, Disconnect, H!PeerCloses, H!Upgrade,
         H!Drain, Conn
    <3>3. sock' = sock \/ \E k, n : sock' = [sock EXCEPT ![<<a, k>>] = n]
      BY DEF Load, LoadFails, Connect, OnMessage, CloseTab, Disconnect, H!PeerCloses, H!Upgrade,
         H!Drain, Conn
    <3>4. peer \in [Conns -> {"none", "open", "closed", "reset"}] /\ sock \in [Conns -> Nat]
      BY DEF LiveInv, NetType
    <3>5. Conn(b) \in Conns
      BY <2>2, BrowsersConns DEF LiveInv
    <3>6. peer'[Conn(b)] = peer[Conn(b)] /\ sock'[Conn(b)] = sock[Conn(b)]
      <4>1. ASSUME NEW k, NEW s, peer' = [peer EXCEPT ![<<a, k>>] = s]
            PROVE  peer'[Conn(b)] = peer[Conn(b)]
        BY <3>1, <3>4, <3>5, <4>1
      <4>2. ASSUME NEW k, NEW n, sock' = [sock EXCEPT ![<<a, k>>] = n]
            PROVE  sock'[Conn(b)] = sock[Conn(b)]
        BY <3>1, <3>4, <3>5, <4>2
      <4>3. QED
        BY <3>2, <3>3, <4>1, <4>2
    <3>7. QED
      BY <3>6
  <2>3. QED
    BY <1>1, <2>1, <2>2 DEF LiveInv, Told, Coming, Conn
<1>4. QED
  BY <1>2, <1>3

\* The steps of Serve and a reset touch nothing a live page relies on.
LEMMA LiveStep ==
    /\ W!TypeOK /\ Stamped /\ LiveInv /\ [Next]_vars
    /\ [started /\ last' # last => events' = 1]_W!watcherVars
    => LiveInv'
<1> SUFFICES ASSUME W!TypeOK, Stamped, LiveInv, [Next]_vars,
                    [started /\ last' # last => events' = 1]_W!watcherVars
             PROVE  LiveInv'
  OBVIOUS
<1>1. started /\ last' # last => events' = 1
  BY DEF W!watcherVars, W!runVars
<1>2. BrowserType' /\ NetType'
  BY BrowserStep, NetStep DEF LiveInv
<1>3. ASSUME NEW b \in Browsers PROVE Told(b)'
  <2>1. CASE Change
    BY <2>1, ChangeTold
  <2>2. CASE Watch
    BY <1>1, <2>2, WatchTold
  <2>3. CASE Hub
    BY <2>3, HubTold
  <2>4. CASE ListenerFails \/ CancelWatch \/ CloseWatcher \/ UNCHANGED vars
    BY <2>4 DEF ListenerFails, CancelWatch, CloseWatcher, W!Cancel, W!Close, W!treeVars, W!runVars,
       W!chanVars, watchVars, runVars, chanVars, hubVars, browserVars, vars, LiveInv, Told, Coming,
       Conn
  <2>5. ASSUME NEW a \in Browsers,
               Load(a) \/ LoadFails(a) \/ Connect(a) \/ OnMessage(a) \/ CloseTab(a)
        PROVE  Told(b)'
    BY <2>5, BrowserTold
  <2>6. ASSUME NEW c \in Conns, Reset(c) PROVE Told(b)'
    BY <2>6 DEF Reset, H!PeerResets, H!chanVars, H!hubVars, watchVars, runVars, browserVars,
       LiveInv, NetType, Told, Coming, Conn
  <2>7. QED
    BY <2>1, <2>2, <2>3, <2>4, <2>5, <2>6 DEF Next
<1>4. QED
  BY <1>2, <1>3 DEF LiveInv

\* An open page that shows an old tree and was there to be told will be: the
\* change it misses is at any time a difference from the watcher's view, an
\* event in the channel, a visit of the broadcast or a message in the socket.
THEOREM StalePagesTold == Spec => []StalePageIsTold
<1>1. LiveInv => StalePageIsTold
  BY DEF LiveInv, Told, StalePageIsTold
<1>2. QED
  BY <1>1, LiveInit, LiveStep, WatcherSafe, WatcherIsKept, WatcherState, PTL
  DEF Spec, WatcherKept, W!ReportedBeforeForgotten
=============================================================================
