------------------------------ MODULE Watcher ------------------------------
(***************************************************************************)
(* internal/watcher: the goroutine in Run takes a snapshot of the watched  *)
(* directory at every tick, compares it with the one before and reports a  *)
(* difference on a channel of capacity one, without ever blocking on it.   *)
(*                                                                         *)
(* A snapshot is not atomic: the directory is listed, then each listed     *)
(* file is looked at on its own while other processes write and remove     *)
(* files.  A file's size and modification time are one value, its stamp:   *)
(* every write gives the file a stamp never used before.                   *)
(***************************************************************************)
EXTENDS Integers, FiniteSets, FiniteSetsExt

CONSTANTS
    NumFiles,          \* the files the directory may hold, in walk order
    MaxClock,          \* bound: how many writes the environment makes
    MayRemove          \* whether the environment removes files

ASSUME WatcherAssumption ==
    NumFiles \in Nat /\ MaxClock \in Nat /\ MayRemove \in BOOLEAN

Files  == 1..NumFiles
Absent == 0                        \* the stamp of a file that is not there
Stamps == Absent..(MaxClock + 1)

VARIABLES
    disk,              \* each file's stamp now
    clock,             \* the newest stamp given out
    rootOpen,          \* Watcher.root has not been closed
    cancelled,         \* ctx is done
    wpc,               \* where Run is
    started,           \* the initial snapshot has been taken
    last, current,     \* Run's two snapshots, Absent for a missing key
    listing,           \* names listed but not yet looked at
    tick,              \* a tick waits in ticker.C
    events,            \* how many events wait in Watcher.events
    evClosed           \* Watcher.events is closed

treeVars == <<disk, clock>>
ctlVars  == <<rootOpen, cancelled>>
runVars  == <<wpc, started, last, current, listing, tick>>
chanVars == <<events, evClosed>>
watcherVars == <<treeVars, ctlVars, runVars, chanVars>>

NoFiles == [f \in Files |-> Absent]

Init ==
    /\ disk \in [Files -> {Absent, 1}]
    /\ clock = 1
    /\ rootOpen = TRUE
    /\ cancelled = FALSE
    /\ wpc = "list"
    /\ started = FALSE
    /\ last = NoFiles
    /\ current = NoFiles
    /\ listing = {}
    /\ tick = FALSE
    /\ events = 0
    /\ evClosed = FALSE

-----------------------------------------------------------------------------
(* The tree, changed by other processes.                                   *)

Write(f) ==
    /\ clock <= MaxClock
    /\ clock' = clock + 1
    /\ disk' = [disk EXCEPT ![f] = clock']
    /\ UNCHANGED <<ctlVars, runVars, chanVars>>

Remove(f) ==
    /\ MayRemove
    /\ disk[f] # Absent
    /\ disk' = [disk EXCEPT ![f] = Absent]
    /\ UNCHANGED <<clock, ctlVars, runVars, chanVars>>

-----------------------------------------------------------------------------
(* Run.                                                                    *)

\* Mistake: the names already looked at stay in the map of the snapshot that
\* the next walk fills, and a removed file is never missed.
ListDirReusesMap ==
    /\ wpc = "list"
    /\ listing' = IF rootOpen THEN {f \in Files : disk[f] # Absent} ELSE {}
    /\ wpc' = "stat"
    /\ UNCHANGED <<treeVars, ctlVars, started, last, current, tick, chanVars>>

\* snapshot: WalkDir reads the whole directory; on a closed root it finds
\* nothing and the callback swallows the error.
ListDir ==
    /\ wpc = "list"
    /\ listing' = IF rootOpen THEN {f \in Files : disk[f] # Absent} ELSE {}
    /\ current' = NoFiles
    /\ wpc' = "stat"
    /\ UNCHANGED <<treeVars, ctlVars, started, last, tick, chanVars>>

\* snapshot: d.Info of the next name.  A file that has gone is left out;
\* under a closed root the call may fail or may still reach the file.
StatFile ==
    /\ wpc = "stat"
    /\ listing # {}
    /\ LET f == Min(listing)
       IN  /\ \E s \in {disk[f]} \cup (IF rootOpen THEN {} ELSE {Absent}) :
                 current' = [current EXCEPT ![f] = s]
           /\ listing' = listing \ {f}
    /\ UNCHANGED <<treeVars, ctlVars, wpc, started, last, tick, chanVars>>

Keys(s) == {f \in Files : s[f] # Absent}

\* Mistake: the comparison forgets the keys that only b has.
SnapshotsEqualOneWay(a, b) == \A k \in Keys(a) : b[k] = a[k]

SnapshotsEqual(a, b) ==
    /\ Cardinality(Keys(a)) = Cardinality(Keys(b))
    /\ \A k \in Keys(a) : b[k] = a[k]

\* Mistake: last keeps the first snapshot.
CompareWithFirst ==
    /\ wpc = "stat"
    /\ listing = {}
    /\ last' = IF started THEN last ELSE current
    /\ started' = TRUE
    /\ wpc' = "select"
    /\ events' = IF started /\ ~ SnapshotsEqual(last, current) THEN 1 ELSE events
    /\ UNCHANGED <<treeVars, ctlVars, current, listing, tick, evClosed>>

\* Mistake: every difference is queued, and the channel must take it.
CompareQueues ==
    /\ wpc = "stat"
    /\ listing = {}
    /\ last' = current
    /\ started' = TRUE
    /\ wpc' = "select"
    /\ events' = IF started /\ ~ SnapshotsEqual(last, current) THEN events + 1 ELSE events
    /\ UNCHANGED <<treeVars, ctlVars, current, listing, tick, evClosed>>

\* The snapshot is complete: the first one becomes last, a later one is
\* compared, reported unless an event is already waiting, and becomes last.
Compare ==
    /\ wpc = "stat"
    /\ listing = {}
    /\ last' = current
    /\ started' = TRUE
    /\ wpc' = "select"
    /\ events' = IF started /\ ~ SnapshotsEqual(last, current) THEN 1 ELSE events
    /\ UNCHANGED <<treeVars, ctlVars, current, listing, tick, evClosed>>

\* The select of the loop: a tick, or the end of ctx.
SelectTick ==
    /\ wpc = "select"
    /\ tick
    /\ tick' = FALSE
    /\ wpc' = "list"
    /\ UNCHANGED <<treeVars, ctlVars, started, last, current, listing, chanVars>>

\* Mistake: Run returns without closing the channel.
SelectDoneNoClose ==
    /\ wpc = "select"
    /\ cancelled
    /\ wpc' = "exited"
    /\ UNCHANGED <<treeVars, ctlVars, started, last, current, listing, tick, chanVars>>

SelectDone ==
    /\ wpc = "select"
    /\ cancelled
    /\ evClosed' = TRUE
    /\ wpc' = "exited"
    /\ UNCHANGED <<treeVars, ctlVars, started, last, current, listing, tick, events>>

\* The runtime's ticker: a tick is dropped when one is waiting; none are
\* made before NewTicker or after the deferred Stop.
Tick ==
    /\ started
    /\ wpc # "exited"
    /\ ~ tick
    /\ tick' = TRUE
    /\ UNCHANGED <<treeVars, ctlVars, wpc, started, last, current, listing, chanVars>>

-----------------------------------------------------------------------------
(* What the owner of the Watcher does with it.                             *)

Receive ==
    /\ events = 1
    /\ events' = 0
    /\ UNCHANGED <<treeVars, ctlVars, runVars, evClosed>>

Cancel ==
    /\ ~ cancelled
    /\ cancelled' = TRUE
    /\ UNCHANGED <<treeVars, rootOpen, runVars, chanVars>>

\* Close, which Serve calls after cancel without waiting for Run.
Close ==
    /\ cancelled
    /\ rootOpen
    /\ rootOpen' = FALSE
    /\ UNCHANGED <<treeVars, cancelled, runVars, chanVars>>

-----------------------------------------------------------------------------
Run == ListDir \/ StatFile \/ Compare \/ SelectTick \/ SelectDone

Next ==
    \/ \E f \in Files : Write(f) \/ Remove(f)
    \/ Run \/ Tick
    \/ Receive \/ Cancel \/ Close

Spec == Init /\ [][Next]_watcherVars

\* Run is scheduled and the ticker ticks.  When ctx is done and a tick waits,
\* select chooses at random, so the end is taken if it is offered for ever.
Fairness == WF_watcherVars(Run) /\ SF_watcherVars(SelectDone) /\ WF_watcherVars(Tick)

FairSpec == Spec /\ Fairness

-----------------------------------------------------------------------------
(* Properties.                                                             *)

TypeOK ==
    /\ disk \in [Files -> Stamps]
    /\ clock \in 1..(MaxClock + 1)
    /\ rootOpen \in BOOLEAN /\ cancelled \in BOOLEAN
    /\ wpc \in {"list", "stat", "select", "exited"}
    /\ started \in BOOLEAN /\ tick \in BOOLEAN
    /\ last \in [Files -> Stamps] /\ current \in [Files -> Stamps]
    /\ listing \subseteq Files
    /\ events \in 0..1
    /\ evClosed \in BOOLEAN

\* A difference is not absorbed into last before it is on its way to the
\* receiver: whenever Run takes over a new view of the tree, an event waits
\* in the channel, this one's or one that has not been received yet.
ReportedBeforeForgotten ==
    [][started /\ last' # last => events' = 1]_watcherVars

\* A tree that is left alone (writes are bounded, so it is in the end) causes
\* no more events: a change is reported by finitely many polls, and a browser
\* is not told to reload for ever.
QuietTreeQuietFeed == <>[][events' <= events]_watcherVars

\* Once the tree stays as it is, Run's view of it becomes the truth and stays
\* so, whatever the snapshots taken while it changed looked like, unless ctx
\* is done.
CatchesUp == <>[](last = disk) \/ <>cancelled

\* After ctx is done, the channel is closed, which ends its receivers.
FeedCloses == cancelled ~> evClosed
=============================================================================
