--------------------------- MODULE WatcherProofs ---------------------------
(***************************************************************************)
(* Theorems about Watcher, for every number of files, of writes and of     *)
(* removals between any two steps of a snapshot.                           *)
(***************************************************************************)
EXTENDS Watcher, FiniteSetTheorems, TLAPS

-----------------------------------------------------------------------------
(* The comparison of snapshots.                                            *)

\* snapshotsEqual looks up the keys of one map in the other and compares the
\* numbers of keys: that finds every difference, a key that only the other map
\* has included.
THEOREM ComparisonIsEquality ==
    ASSUME NEW a \in [Files -> Stamps], NEW b \in [Files -> Stamps]
    PROVE  SnapshotsEqual(a, b) <=> a = b
<1>1. ASSUME a = b PROVE SnapshotsEqual(a, b)
  BY <1>1 DEF SnapshotsEqual
<1>2. ASSUME SnapshotsEqual(a, b) PROVE a = b
  <2>1. Keys(a) \subseteq Keys(b)
    BY <1>2 DEF SnapshotsEqual, Keys
  <2>2. IsFiniteSet(Keys(b))
    <3>1. IsFiniteSet(Files)
      BY WatcherAssumption, FS_Interval DEF Files
    <3>2. Keys(b) \subseteq Files
      BY DEF Keys
    <3>3. QED
      BY <3>1, <3>2, FS_Subset
  <2>3. Keys(a) = Keys(b)
    BY <1>2, <2>1, <2>2, FS_Subset DEF SnapshotsEqual
  <2>4. ASSUME NEW f \in Files PROVE a[f] = b[f]
    <3>1. CASE f \in Keys(a)
      BY <1>2, <3>1 DEF SnapshotsEqual
    <3>2. CASE f \notin Keys(a)
      BY <2>3, <3>2 DEF Keys
    <3>3. QED
      BY <3>1, <3>2
  <2>5. QED
    BY <2>4
<1>3. QED
  BY <1>1, <1>2

-----------------------------------------------------------------------------
(* Type correctness.                                                       *)

LEMMA InitType == Init => TypeOK
<1> SUFFICES ASSUME Init PROVE TypeOK
  OBVIOUS
<1> USE WatcherAssumption DEF Init
<1>1. clock \in 1..(MaxClock + 1) /\ events \in 0..1 /\ listing \subseteq Files
  OBVIOUS
<1>2. NoFiles \in [Files -> Stamps] /\ disk \in [Files -> Stamps]
  BY DEF NoFiles, Stamps, Absent
<1>3. /\ rootOpen \in BOOLEAN /\ cancelled \in BOOLEAN /\ started \in BOOLEAN
      /\ tick \in BOOLEAN /\ evClosed \in BOOLEAN
  BY Zenon
<1>4. wpc \in {"list", "stat", "select", "exited"}
  OBVIOUS
<1>5. QED
  BY <1>1, <1>2, <1>3, <1>4 DEF TypeOK

\* Each action changes a few of the variables.
LEMMA NextType == TypeOK /\ [Next]_watcherVars => TypeOK'
<1> SUFFICES ASSUME TypeOK, [Next]_watcherVars PROVE TypeOK'
  OBVIOUS
<1> USE WatcherAssumption DEF treeVars, ctlVars, runVars, chanVars
<1>1. ASSUME NEW f \in Files, Write(f) PROVE TypeOK'
  <2>1. clock' \in 1..(MaxClock + 1) /\ clock' \in Stamps
    BY <1>1 DEF TypeOK, Write, Stamps, Absent
  <2>2. disk' \in [Files -> Stamps]
    BY <1>1, <2>1 DEF TypeOK, Write
  <2>3. QED
    BY <1>1, <2>1, <2>2, Zenon DEF TypeOK, Write
<1>2. ASSUME NEW f \in Files, Remove(f) PROVE TypeOK'
  <2>1. disk' \in [Files -> Stamps]
    BY <1>2 DEF TypeOK, Remove, Stamps, Absent
  <2>2. QED
    BY <1>2, <2>1, Zenon DEF TypeOK, Remove
<1>3. CASE ListDir
  <2>1. listing' \subseteq Files /\ current' \in [Files -> Stamps] /\ wpc' = "stat"
    BY <1>3 DEF ListDir, NoFiles, Stamps, Absent
  <2>2. QED
    BY <1>3, <2>1, Zenon DEF TypeOK, ListDir
<1>4. CASE StatFile
  <2>1. current' \in [Files -> Stamps]
    <3>1. PICK s \in {disk[Min(listing)]} \cup (IF rootOpen THEN {} ELSE {Absent}) :
              current' = [current EXCEPT ![Min(listing)] = s]
      BY <1>4 DEF StatFile
    <3>2. CASE Min(listing) \in Files
      BY <3>1, <3>2 DEF TypeOK, Stamps, Absent
    <3>3. CASE Min(listing) \notin Files
      BY <3>1, <3>3 DEF TypeOK
    <3>4. QED
      BY <3>2, <3>3
  <2>2. listing' \subseteq Files
    BY <1>4 DEF TypeOK, StatFile
  <2>3. QED
    BY <1>4, <2>1, <2>2, Zenon DEF TypeOK, StatFile
<1>5. CASE Compare
  <2>1. events' \in 0..1 /\ last' \in [Files -> Stamps] /\ wpc' = "select"
    BY <1>5 DEF TypeOK, Compare
  <2>2. started' \in BOOLEAN
    BY <1>5, Zenon DEF Compare
  <2>3. QED
    BY <1>5, <2>1, <2>2, Zenon DEF TypeOK, Compare
<1>6. CASE SelectTick \/ SelectDone \/ Tick
  <2>1. /\ tick' \in BOOLEAN /\ evClosed' \in BOOLEAN
        /\ wpc' \in {"list", "stat", "select", "exited"}
    BY <1>6, Zenon DEF TypeOK, SelectTick, SelectDone, Tick
  <2>2. QED
    BY <1>6, <2>1, Zenon DEF TypeOK, SelectTick, SelectDone, Tick
<1>7. CASE Receive
  <2>1. events' \in 0..1
    BY <1>7 DEF Receive
  <2>2. QED
    BY <1>7, <2>1, Zenon DEF TypeOK, Receive
<1>8. CASE Cancel \/ Close
  BY <1>8, Zenon DEF TypeOK, Cancel, Close
<1>9. CASE UNCHANGED watcherVars
  BY <1>9, Zenon DEF TypeOK, watcherVars
<1>10. QED
  BY <1>1, <1>2, <1>3, <1>4, <1>5, <1>6, <1>7, <1>8, <1>9 DEF Next, Run

\* The variables have their types: the channel never holds a second event.
THEOREM TypeCorrect == Spec => []TypeOK
  BY InitType, NextType, PTL DEF Spec

-----------------------------------------------------------------------------
(* Changes are reported.                                                   *)

\* Whatever changed while the snapshots were taken, Run replaces its view of
\* the tree by a different one only in a step after which an event waits.
THEOREM ChangesReported == Spec => ReportedBeforeForgotten
<1>1. TypeOK /\ [Next]_watcherVars => [started /\ last' # last => events' = 1]_watcherVars
  <2> SUFFICES ASSUME TypeOK, Next, started, last' # last PROVE events' = 1
    BY DEF watcherVars
  <2> USE DEF treeVars, ctlVars, runVars, chanVars
  <2>1. CASE Compare
    <3>1. last' = current /\ last \in [Files -> Stamps] /\ current \in [Files -> Stamps]
      BY <2>1 DEF Compare, TypeOK
    <3>2. ~SnapshotsEqual(last, current)
      BY <3>1, ComparisonIsEquality
    <3>3. QED
      BY <2>1, <3>2 DEF Compare
  <2>2. ASSUME NEW f \in Files, Write(f) \/ Remove(f) PROVE last' = last
    BY <2>2 DEF Write, Remove
  <2>3. CASE ListDir \/ StatFile \/ SelectTick \/ SelectDone
    BY <2>3 DEF ListDir, StatFile, SelectTick, SelectDone
  <2>4. CASE Tick \/ Receive \/ Cancel \/ Close
    BY <2>4 DEF Tick, Receive, Cancel, Close
  <2>5. QED
    BY <2>1, <2>2, <2>3, <2>4 DEF Next, Run
<1>2. QED
  BY <1>1, TypeCorrect, PTL DEF Spec, ReportedBeforeForgotten
=============================================================================
