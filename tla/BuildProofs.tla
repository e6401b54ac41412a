---------------------------- MODULE BuildProofs ----------------------------
(***************************************************************************)
(* Theorems about Build, for every tree, every number of workers and every *)
(* set of faults.                                                          *)
(***************************************************************************)
EXTENDS Build, FiniteSetTheorems, TLAPS

-----------------------------------------------------------------------------
(* The inductive invariant.                                                *)

InPool == {"check", "send", "closeQueue", "wait"}

\* What each phase of the main goroutine has already settled.
Phases ==
    /\ pc \in {"mkdirAll", "openSrc", "openDest", "walk"}
         => /\ wpc = [w \in Workers |-> "idle"]
            /\ next = 1
            /\ firstErr = None
            /\ ret = "none"
    /\ pc \in {"mkdirAll", "openSrc"} => open = {}
    /\ pc = "openDest" => open = {"src"}
    /\ pc \in InPool => ret = "none"
    /\ pc \in InPool \cup {"walk"} => open = {"src", "dest"}
    /\ pc \in InPool => pos = NumEntries + 1
    /\ pc = "send" => next <= Len(tasks)
    /\ pc \in {"closeQueue", "wait"} => firstErr # None \/ next = Len(tasks) + 1
    /\ pc \in {"unwind", "returned"} =>
         /\ ret # "none"
         /\ \A w \in Workers : wpc[w] \in {"idle", "done"}
    /\ ret = "nil" =>
         firstErr = None /\ next = Len(tasks) + 1 /\ pos = NumEntries + 1

\* The task list is the selected entries visited so far, each of them once.
TaskList ==
    /\ \A i \in 1..Len(tasks) : tasks[i] \in Selected /\ tasks[i] < pos
    /\ \A e \in Selected : e < pos => \E i \in 1..Len(tasks) : tasks[i] = e
    /\ \A i, j \in 1..Len(tasks) : tasks[i] = tasks[j] => i = j

\* Entry e has been handed to a worker.
Sent(e) == \E i \in 1..(next - 1) : tasks[i] = e

\* Which worker holds what, and how far its output is.
Holdings ==
    \A w \in Workers :
      /\ wtask[w] # None <=> wpc[w] \in Working \cup {"setErr"}
      /\ wtask[w] # None => Sent(wtask[w])
      /\ \A v \in Workers : v # w /\ wtask[v] # None => wtask[v] # wtask[w]
      /\ wpc[w] \in {"read", "write", "lock", "update"} => wtask[w] \in Minifiable
      /\ wpc[w] \in {"open", "create", "copy", "close"} => wtask[w] \notin Minifiable
      /\ wpc[w] \in {"read", "mkdir", "write", "open", "create"}
           => out[wtask[w]] = "absent"
      /\ wpc[w] = "copy" => out[wtask[w]] = "partial"
      /\ wpc[w] \in {"lock", "update", "close"} => out[wtask[w]] = "whole"

Held(e) == \E w \in Workers : wtask[w] = e

\* A file handed out is delivered, in some worker's hands, or was given up
\* after a failure that is on record; nothing else has an output.
Dispatch ==
    /\ \A i \in 1..(next - 1) :
         \/ tasks[i] \in Delivered
         \/ Held(tasks[i])
         \/ firstErr # None
    /\ \A e \in Entries : out[e] # "absent" => Sent(e)

\* The statistics' critical section.
Mutex ==
    \A w \in Workers :
      /\ wpc[w] = "update" <=> statsMu = w
      /\ wpc[w] = "update" => loaded[w] = stats

IInv == TypeOK /\ Phases /\ TaskList /\ Holdings /\ Dispatch /\ Mutex
-----------------------------------------------------------------------------
LEMMA InitInv == Init => IInv
<1> SUFFICES ASSUME Init PROVE IInv
  OBVIOUS
<1> USE BuildAssumption DEF Init
<1>1. TypeOK
  <2>1. stats \in [totalFiles : Nat, originalSize : Nat,
                  processedFiles : Nat, totalSaved : Int]
    BY DEF Stats0
  <2>2. loaded \in [Workers -> [totalFiles : Nat, originalSize : Nat,
                               processedFiles : Nat, totalSaved : Int]]
    BY DEF Stats0
  <2>3. pos \in 1..(NumEntries + 1)
    BY DEF Entries
  <2>4. tasks \in Seq(Entries) /\ next \in 1..(Len(tasks) + 1)
    OBVIOUS
  <2>5. /\ wpc \in [Workers -> WorkerStates]
        /\ wtask \in [Workers -> Entries \cup {None}]
        /\ out \in [Entries -> {"absent", "partial", "whole", "lost"}]
    BY DEF WorkerStates
  <2>6. QED
    BY <2>1, <2>2, <2>3, <2>4, <2>5 DEF TypeOK
<1>2. Phases
  BY DEF Phases, InPool
<1>3. TaskList
  BY DEF TaskList, Selected, Entries
<1>4. Holdings
  BY DEF Holdings, Working, None
<1>5. Dispatch
  BY DEF Dispatch, Sent
<1>6. Mutex
  BY DEF Mutex, None, Workers
<1>7. QED
  BY <1>1, <1>2, <1>3, <1>4, <1>5, <1>6 DEF IInv

\* Steps of the main goroutine that touch neither the pool nor the outputs.
LEMMA RootsInv == IInv /\ (MkdirDist \/ OpenSrc \/ OpenDest) => IInv'
<1> SUFFICES ASSUME IInv, MkdirDist \/ OpenSrc \/ OpenDest PROVE IInv'
  OBVIOUS
<1> USE BuildAssumption DEF IInv, MkdirDist, OpenSrc, OpenDest, Return, poolVars, statVars
<1>1. TypeOK'
  BY DEF TypeOK
<1>2. Phases'
  BY DEF Phases, InPool
<1>3. TaskList'
  BY DEF TaskList
<1>4. Holdings'
  BY DEF Holdings, Sent
<1>5. Dispatch'
  BY DEF Dispatch, Sent, Held, Delivered
<1>6. Mutex'
  BY DEF Mutex
<1>7. QED
  BY <1>1, <1>2, <1>3, <1>4, <1>5, <1>6

LEMMA VisitInv == IInv /\ Visit => IInv'
<1> SUFFICES ASSUME IInv, Visit PROVE IInv'
  OBVIOUS
<1> USE BuildAssumption DEF IInv, Visit, poolVars
<1>1. /\ pos \in Entries /\ pos' = pos + 1
      /\ \/ tasks' = tasks /\ pos \notin Selected
         \/ tasks' = Append(tasks, pos) /\ pos \in Selected
      /\ tasks \in Seq(Entries)
  <2>1. tasks \in Seq(Entries) /\ pos \in 1..(NumEntries + 1)
    BY DEF TypeOK
  <2>2. pos \in Entries
    BY <2>1 DEF Entries
  <2>3. QED
    BY <2>1, <2>2
<1>2. TypeOK'
  <2>1. tasks' \in Seq(Entries) /\ next' \in 1..(Len(tasks') + 1)
    <3>1. next \in 1..(Len(tasks) + 1) /\ next' = next
      BY DEF TypeOK
    <3>2. CASE tasks' = tasks
      BY <1>1, <3>1, <3>2
    <3>3. CASE tasks' = Append(tasks, pos)
      BY <1>1, <3>1, <3>3
    <3>4. QED
      BY <1>1, <3>2, <3>3
  <2>2. pos' \in 1..(NumEntries + 1)
    BY <1>1 DEF Entries
  <2>3. stats' \in [totalFiles : Nat, originalSize : Nat,
                   processedFiles : Nat, totalSaved : Int]
    <3>1. Size[pos] \in Nat
      BY <1>1
    <3>2. stats \in [totalFiles : Nat, originalSize : Nat,
                    processedFiles : Nat, totalSaved : Int]
      BY DEF TypeOK
    <3>3. CASE stats' = stats
      BY <3>2, <3>3
    <3>4. CASE stats' = [stats EXCEPT !.totalFiles = @ + 1,
                                      !.originalSize = @ + Size[pos]]
      <4>1. /\ stats.totalFiles + 1 \in Nat
            /\ stats.originalSize + Size[pos] \in Nat
        <5>1. stats.totalFiles \in Nat /\ stats.originalSize \in Nat
          BY <3>2
        <5>2. QED
          BY <3>1, <5>1
      <4>2. QED
        BY <3>2, <3>4, <4>1
    <3>5. QED
      BY <3>3, <3>4
  <2>4. QED
    BY <2>1, <2>2, <2>3 DEF TypeOK
<1>3. Phases'
  BY DEF Phases, InPool
<1>4. TaskList'
  <2>1. \A i \in 1..Len(tasks) : tasks'[i] = tasks[i]
    BY <1>1
  <2>a. \A e \in Selected : e \in Entries /\ e \in Int
    BY DEF Selected, Entries
  <2>b. pos \in Int /\ Len(tasks) \in Nat
    BY <1>1 DEF Entries
  <2>c. \A e \in Selected : e < pos' => e < pos \/ e = pos
    BY <1>1, <2>a, <2>b
  <2>2. CASE tasks' = tasks /\ pos \notin Selected
    <3>1. \A e \in Selected : e < pos' => e < pos
      BY <2>2, <2>c
    <3>2. \A i \in 1..Len(tasks) : tasks[i] < pos'
      <4> TAKE i \in 1..Len(tasks)
      <4>1. tasks[i] \in Selected /\ tasks[i] < pos
        BY DEF TaskList
      <4>2. tasks[i] \in Int
        BY <4>1, <2>a
      <4>3. pos < pos' /\ pos' \in Int
        BY <1>1, <2>b
      <4>4. QED
        BY <2>b, <4>1, <4>2, <4>3
    <3>3. QED
      BY <2>2, <3>1, <3>2 DEF TaskList
  <2>3. CASE tasks' = Append(tasks, pos) /\ pos \in Selected
    <3>1. Len(tasks') = Len(tasks) + 1 /\ tasks'[Len(tasks) + 1] = pos
      BY <1>1, <2>3
    <3>2. \A i \in 1..Len(tasks') : tasks'[i] \in Selected /\ tasks'[i] < pos'
      BY <1>1, <2>1, <2>3, <3>1 DEF TaskList, Entries, Selected
    <3>3. \A e \in Selected : e < pos' => \E i \in 1..Len(tasks') : tasks'[i] = e
      <4> SUFFICES ASSUME NEW e \in Selected, e < pos'
                   PROVE  \E i \in 1..Len(tasks') : tasks'[i] = e
        OBVIOUS
      <4>1. CASE e = pos
        <5>1. Len(tasks) + 1 \in 1..Len(tasks')
          BY <2>b, <3>1
        <5>2. QED
          BY <3>1, <4>1, <5>1
      <4>2. CASE e < pos
        <5>1. PICK i \in 1..Len(tasks) : tasks[i] = e
          BY <4>2 DEF TaskList
        <5>2. QED
          BY <2>b, <2>1, <3>1, <5>1
      <4>3. QED
        BY <2>c, <4>1, <4>2
    <3>4. \A i, j \in 1..Len(tasks') : tasks'[i] = tasks'[j] => i = j
      <4> TAKE i, j \in 1..Len(tasks')
      <4>1. \A k \in 1..Len(tasks') :
               \/ k \in 1..Len(tasks) /\ tasks'[k] = tasks[k] /\ tasks'[k] # pos
               \/ k = Len(tasks) + 1 /\ tasks'[k] = pos
        <5> TAKE k \in 1..Len(tasks')
        <5>1. k \in 1..Len(tasks) \/ k = Len(tasks) + 1
          BY <2>b, <3>1
        <5>2. k \in 1..Len(tasks) => tasks[k] < pos /\ tasks[k] \in Int
          BY <2>a DEF TaskList
        <5>3. QED
          BY <2>b, <2>1, <3>1, <5>1, <5>2
      <4>2. QED
        BY <4>1 DEF TaskList
    <3>5. QED
      BY <3>2, <3>3, <3>4 DEF TaskList
  <2>4. QED
    BY <1>1, <2>2, <2>3
<1>5. Holdings'
  BY DEF Holdings, Sent, Phases, Working, None
<1>6. Dispatch'
  BY DEF Dispatch, Sent, Held, Delivered, Phases
<1>7. Mutex'
  BY DEF Mutex, Phases
<1>8. QED
  BY <1>2, <1>3, <1>4, <1>5, <1>6, <1>7

LEMMA MainInv ==
  IInv /\ (VisitFails \/ CheckStop \/ CloseQueue \/ Wait \/ Unwind) => IInv'
<1> SUFFICES ASSUME IInv,
                    VisitFails \/ CheckStop \/ CloseQueue \/ Wait \/ Unwind
             PROVE  IInv'
  OBVIOUS
<1> USE BuildAssumption
    DEF IInv, VisitFails, CheckStop, CloseQueue, Wait, Unwind, Return,
        poolVars, statVars
<1>1. TypeOK'
  BY DEF TypeOK
<1>2. Phases'
  <2>1. next \in 1..(Len(tasks) + 1) /\ Len(tasks) \in Nat
    BY DEF TypeOK
  <2>2. CASE VisitFails \/ CloseQueue
    BY <2>2 DEF Phases, InPool
  <2>3. CASE CheckStop
    BY <2>1, <2>3 DEF Phases, InPool
  <2>4. CASE Wait
    BY <2>4 DEF Phases, InPool
  <2>5. CASE Unwind
    BY <2>5 DEF Phases, InPool
  <2>6. QED
    BY <2>2, <2>3, <2>4, <2>5
<1>3. TaskList'
  BY DEF TaskList
<1>4. Holdings'
  BY DEF Holdings, Sent
<1>5. Dispatch'
  BY DEF Dispatch, Sent, Held, Delivered
<1>6. Mutex'
  BY DEF Mutex
<1>7. QED
  BY <1>1, <1>2, <1>3, <1>4, <1>5, <1>6

LEMMA StartInv == IInv /\ StartWorkers => IInv'
<1> SUFFICES ASSUME IInv, StartWorkers PROVE IInv'
  OBVIOUS
<1> USE BuildAssumption DEF IInv, StartWorkers, Return, statVars
<1>1. TypeOK'
  BY DEF TypeOK, WorkerStates
<1>2. Phases'
  <2>1. /\ Len(tasks) \in Nat /\ pos = NumEntries + 1 /\ pc = "walk"
        /\ open = {"src", "dest"} /\ firstErr = None /\ next = 1
        /\ \A w \in Workers : wpc[w] = "idle"
    BY DEF Phases, InPool, TypeOK
  <2>2. CASE WorkerCount < 1
    <3>1. next = Len(tasks) + 1
      BY <2>1, <2>2 DEF WorkerCount
    <3>2. QED
      BY <2>1, <2>2, <3>1 DEF Phases, InPool
  <2>3. CASE ~ (WorkerCount < 1)
    BY <2>1, <2>3 DEF Phases, InPool
  <2>4. QED
    BY <2>2, <2>3
<1>3. TaskList'
  BY DEF TaskList
<1>4. Holdings'
  <2>1. \A w \in Workers : wpc[w] = "idle" /\ wpc'[w] \in {"idle", "recv"}
    BY DEF Phases
  <2>2. QED
    BY <2>1 DEF Holdings, Sent, Working
<1>5. Dispatch'
  BY DEF Dispatch, Sent, Held, Delivered
<1>6. Mutex'
  BY DEF Mutex, Phases
<1>7. QED
  BY <1>1, <1>2, <1>3, <1>4, <1>5, <1>6

LEMMA SendInv == \A w \in Workers : IInv /\ Send(w) => IInv'
<1> SUFFICES ASSUME NEW w \in Workers, IInv, Send(w) PROVE IInv'
  OBVIOUS
<1> USE BuildAssumption DEF IInv
<1>0. /\ tasks \in Seq(Entries) /\ Len(tasks) \in Nat
      /\ wpc \in [Workers -> WorkerStates]
      /\ wtask \in [Workers -> Entries \cup {None}]
  <2>1. tasks \in Seq(Entries)
    BY DEF TypeOK
  <2>2. Len(tasks) \in Nat
    BY <2>1
  <2>3. /\ wpc \in [Workers -> WorkerStates]
        /\ wtask \in [Workers -> Entries \cup {None}]
    BY DEF TypeOK
  <2>4. QED
    BY <2>1, <2>2, <2>3
<1>1. next \in 1..Len(tasks) /\ next \in Nat
  BY <1>0 DEF Phases, TypeOK, Send
<1>2. PICK t \in Entries : t = tasks[next]
  BY <1>0, <1>1
<1>3. /\ pc = "send" /\ pc' = "check"
      /\ wpc[w] = "recv"
      /\ wtask' = [wtask EXCEPT ![w] = t]
      /\ wpc' = [wpc EXCEPT ![w] = IF t \in Minifiable THEN "read" ELSE "mkdir"]
      /\ next' = next + 1
      /\ UNCHANGED <<open, pos, tasks, closed, ret, firstErr, stats, statsMu,
                     loaded, out>>
  BY <1>2 DEF Send, statVars
<1>4. t # None /\ wtask[w] = None
  <2>1. t # None
    BY DEF Entries, None
  <2>2. wtask[w] = None
    BY <1>3 DEF Holdings, Working
  <2>3. QED
    BY <2>1, <2>2
<1>5. ~ Sent(t)
  BY <1>0, <1>1, <1>2 DEF Sent, TaskList
<1>6. \A e : Sent(e) => Sent(e)'
  BY <1>1, <1>3 DEF Sent
<1>7. Sent(t)'
  BY <1>1, <1>2, <1>3 DEF Sent
<1>8. out[t] = "absent"
  BY <1>5 DEF Dispatch
<1>9. \A v \in Workers \ {w} : wtask'[v] = wtask[v] /\ wpc'[v] = wpc[v]
  BY <1>0, <1>3
<1>10. /\ wtask'[w] = t
       /\ wpc'[w] = IF t \in Minifiable THEN "read" ELSE "mkdir"
  BY <1>0, <1>3
<1>11. TypeOK'
  <2>1. next' \in 1..(Len(tasks') + 1)
    BY <1>0, <1>1, <1>3
  <2>2. /\ wpc' \in [Workers -> WorkerStates]
        /\ wtask' \in [Workers -> Entries \cup {None}]
    BY <1>0, <1>3 DEF WorkerStates
  <2>3. QED
    BY <1>3, <2>1, <2>2 DEF TypeOK
<1>12. Phases'
  BY <1>1, <1>3 DEF Phases, InPool
<1>13. TaskList'
  BY <1>3 DEF TaskList
<1>14. Holdings'
  <2>1. Holdings!(w)'
    <3>1. \A v \in Workers : v # w => wtask'[v] # t
      BY <1>4, <1>5, <1>9 DEF Holdings
    <3>2. QED
      BY <1>3, <1>4, <1>7, <1>8, <1>10, <3>1 DEF Working
  <2>2. ASSUME NEW u \in Workers, u # w PROVE Holdings!(u)'
    <3>1. \A v \in Workers : v # u /\ wtask'[v] # None => wtask'[v] # wtask[u]
      BY <1>4, <1>5, <1>9, <1>10, <2>2 DEF Holdings
    <3>2. QED
      BY <1>3, <1>6, <1>9, <2>2, <3>1 DEF Holdings
  <2>3. QED
    BY <2>1, <2>2 DEF Holdings
<1>15. Dispatch'
  <2>1. \A e \in Entries : Held(e) => Held(e)'
    BY <1>4, <1>9 DEF Held, Entries, None
  <2>2. Held(t)'
    BY <1>10 DEF Held
  <2>3. ASSUME NEW i \in 1..(next' - 1)
        PROVE  \/ tasks[i] \in Delivered
               \/ \E e \in Entries : e = tasks[i] /\ Held(e)'
               \/ firstErr # None
    <3>1. CASE i = next
      BY <1>2, <2>2, <3>1
    <3>2. CASE i # next
      <4>1. i \in 1..(next - 1) /\ tasks[i] \in Entries
        BY <1>0, <1>1, <1>3, <3>2
      <4>2. QED
        BY <2>1, <4>1 DEF Dispatch
    <3>3. QED
      BY <3>1, <3>2
  <2>4. \A e \in Entries : out'[e] # "absent" => Sent(e)'
    BY <1>3, <1>6 DEF Dispatch
  <2>5. QED
    BY <1>3, <2>3, <2>4 DEF Dispatch, Held, Delivered
<1>16. Mutex'
  BY <1>3, <1>9, <1>10 DEF Mutex
<1>17. QED
  BY <1>11, <1>12, <1>13, <1>14, <1>15, <1>16

Outputs == {"absent", "partial", "whole", "lost"}

\* A worker inside its task moves to another place of it: only its own pc and
\* its own output change.
LEMMA MoveInv ==
  ASSUME IInv,
         NEW w \in Workers, wtask[w] # None,
         NEW s \in Working \cup {"setErr"}, wpc' = [wpc EXCEPT ![w] = s],
         NEW o \in Outputs, out' = [out EXCEPT ![wtask[w]] = o],
         UNCHANGED <<mainVars, wtask, firstErr>>,
         s \in {"read", "write", "lock", "update"} => wtask[w] \in Minifiable,
         s \in {"open", "create", "copy", "close"} => wtask[w] \notin Minifiable,
         s \in {"read", "mkdir", "write", "open", "create"} => o = "absent",
         s = "copy" => o = "partial",
         s \in {"lock", "update", "close"} => o = "whole"
  PROVE  /\ wpc' \in [Workers -> WorkerStates]
         /\ out' \in [Entries -> Outputs]
         /\ Phases' /\ TaskList' /\ Holdings' /\ Dispatch'
<1> USE DEF IInv
<1>0. /\ wpc \in [Workers -> WorkerStates]
      /\ wtask \in [Workers -> Entries \cup {None}]
      /\ out \in [Entries -> Outputs]
      /\ pc \in InPool \cup {"mkdirAll", "openSrc", "openDest", "walk",
                            "unwind", "returned"}
  BY DEF TypeOK, Outputs, InPool
<1>1. PICK e \in Entries : e = wtask[w]
  BY <1>0
<1>2. wpc[w] \in Working \cup {"setErr"} /\ Sent(e)
  BY <1>1 DEF Holdings
<1>3. pc \in InPool
  BY <1>0, <1>2 DEF Phases, Working
<1>4. /\ wpc'[w] = s /\ out'[e] = o
      /\ \A v \in Workers \ {w} : wpc'[v] = wpc[v]
      /\ \A f \in Entries \ {e} : out'[f] = out[f]
  BY <1>0, <1>1
<1>5. wpc' \in [Workers -> WorkerStates] /\ out' \in [Entries -> Outputs]
  BY <1>0, <1>1 DEF Working, WorkerStates, Outputs
<1>6. Phases'
  BY <1>3 DEF Phases, InPool, mainVars
<1>7. TaskList'
  BY DEF TaskList, mainVars
<1>8. \A f : Sent(f) => Sent(f)'
  BY DEF Sent, mainVars
<1>9. Holdings'
  <2>1. Holdings!(w)'
    BY <1>1, <1>2, <1>4, <1>8 DEF Holdings
  <2>2. ASSUME NEW u \in Workers, u # w PROVE Holdings!(u)'
    <3>1. CASE wtask[u] = None
      BY <1>0, <1>4, <2>2, <3>1 DEF Holdings, Working
    <3>2. CASE wtask[u] # None
      <4>1. wtask[u] \in Entries \ {e}
        BY <1>0, <1>1, <2>2, <3>2 DEF Holdings
      <4>2. QED
        BY <1>4, <1>8, <2>2, <3>2, <4>1 DEF Holdings
    <3>3. QED
      BY <3>1, <3>2
  <2>3. QED
    BY <2>1, <2>2 DEF Holdings
<1>10. Dispatch'
  <2>1. \A f : Held(f) => Held(f)'
    BY DEF Held
  <2>2. ASSUME NEW i \in 1..(next - 1)
        PROVE  tasks[i] \in Delivered' \/ Held(tasks[i]) \/ firstErr # None
    BY <1>1, <1>4 DEF Dispatch, Delivered, Held
  <2>3. \A f \in Entries : out'[f] # "absent" => Sent(f)'
    BY <1>2, <1>4, <1>8 DEF Dispatch
  <2>4. QED
    BY <2>1, <2>2, <2>3 DEF Dispatch, Held, mainVars
<1>11. QED
  BY <1>5, <1>6, <1>7, <1>9, <1>10

\* A worker puts its task down: the output is delivered or an error recorded.
LEMMA PutDownInv ==
  ASSUME IInv,
         NEW w \in Workers, wtask[w] # None,
         NEW s \in {"recv", "done"}, wpc' = [wpc EXCEPT ![w] = s],
         wtask' = [wtask EXCEPT ![w] = None],
         NEW o \in Outputs, out' = [out EXCEPT ![wtask[w]] = o],
         UNCHANGED mainVars,
         firstErr' = firstErr \/ (firstErr' \in Entries /\ firstErr' # None),
         o \in {"whole", "lost"} \/ firstErr' # None
  PROVE  /\ wpc' \in [Workers -> WorkerStates]
         /\ wtask' \in [Workers -> Entries \cup {None}]
         /\ out' \in [Entries -> Outputs]
         /\ Phases' /\ TaskList' /\ Holdings' /\ Dispatch'
<1> USE DEF IInv
<1>0. /\ wpc \in [Workers -> WorkerStates]
      /\ wtask \in [Workers -> Entries \cup {None}]
      /\ out \in [Entries -> Outputs]
      /\ pc \in InPool \cup {"mkdirAll", "openSrc", "openDest", "walk",
                            "unwind", "returned"}
  BY DEF TypeOK, Outputs, InPool
<1>1. PICK e \in Entries : e = wtask[w]
  BY <1>0
<1>2. wpc[w] \in Working \cup {"setErr"} /\ Sent(e)
  BY <1>1 DEF Holdings
<1>3. pc \in InPool
  BY <1>0, <1>2 DEF Phases, Working
<1>4. /\ wpc'[w] = s /\ wtask'[w] = None /\ out'[e] = o
      /\ \A v \in Workers \ {w} : wpc'[v] = wpc[v] /\ wtask'[v] = wtask[v]
      /\ \A f \in Entries \ {e} : out'[f] = out[f]
  BY <1>0, <1>1
<1>5. /\ wpc' \in [Workers -> WorkerStates]
      /\ wtask' \in [Workers -> Entries \cup {None}]
      /\ out' \in [Entries -> Outputs]
  BY <1>0, <1>1 DEF WorkerStates, Outputs
<1>6. Phases'
  BY <1>3 DEF Phases, InPool, mainVars
<1>7. TaskList'
  BY DEF TaskList, mainVars
<1>8. \A f : Sent(f) => Sent(f)'
  BY DEF Sent, mainVars
<1>9. Holdings'
  <2>1. Holdings!(w)'
    BY <1>4 DEF Working
  <2>2. ASSUME NEW u \in Workers, u # w PROVE Holdings!(u)'
    <3>1. CASE wtask[u] = None
      BY <1>0, <1>4, <2>2, <3>1 DEF Holdings, Working
    <3>2. CASE wtask[u] # None
      <4>1. wtask[u] \in Entries \ {e}
        BY <1>0, <1>1, <2>2, <3>2 DEF Holdings
      <4>2. \A v \in Workers : v # u /\ wtask'[v] # None => wtask'[v] # wtask[u]
        BY <1>4 DEF Holdings
      <4>3. QED
        BY <1>4, <1>8, <2>2, <3>2, <4>1, <4>2 DEF Holdings
    <3>3. QED
      BY <3>1, <3>2
  <2>3. QED
    BY <2>1, <2>2 DEF Holdings
<1>10. Dispatch'
  <2>1. \A f \in Entries \ {e} : Held(f) => Held(f)'
    BY <1>1, <1>4 DEF Held
  <2>2. ASSUME NEW i \in 1..(next - 1)
        PROVE  \/ tasks[i] \in Delivered'
               \/ \E f \in Entries : f = tasks[i] /\ Held(f)'
               \/ firstErr' # None
    <3>1. tasks[i] \in Entries
      BY DEF TypeOK
    <3>2. CASE tasks[i] = e
      BY <1>4, <3>1, <3>2 DEF Delivered
    <3>3. CASE tasks[i] # e
      BY <1>4, <2>1, <3>1, <3>3 DEF Dispatch, Delivered
    <3>4. QED
      BY <3>2, <3>3
  <2>3. \A f \in Entries : out'[f] # "absent" => Sent(f)'
    BY <1>2, <1>4, <1>8 DEF Dispatch
  <2>4. QED
    BY <2>2, <2>3 DEF Dispatch, Held, mainVars
<1>11. QED
  BY <1>5, <1>6, <1>7, <1>9, <1>10

\* The moves that touch no output and no statistics.
LEMMA SilentMovesInv ==
  \A w \in Workers :
    IInv /\ (ReadSource(w) \/ MkDestDir(w) \/ OpenSource(w)) => IInv'
<1> SUFFICES ASSUME NEW w \in Workers, IInv,
                    ReadSource(w) \/ MkDestDir(w) \/ OpenSource(w)
             PROVE  IInv'
  OBVIOUS
<1>1. PICK s \in {"write", "open", "mkdir", "create", "setErr"} :
        /\ wpc' = [wpc EXCEPT ![w] = s]
        /\ s = "write" => wtask[w] \in Minifiable
        /\ s \in {"open", "create"} => wtask[w] \notin Minifiable
  BY DEF ReadSource, MkDestDir, OpenSource, Goto, Fails, IInv, Holdings
<1>2. /\ wpc[w] \in {"read", "mkdir", "open"}
      /\ UNCHANGED <<mainVars, wtask, firstErr, statVars, out>>
  BY DEF ReadSource, MkDestDir, OpenSource
<1>3. wtask[w] # None /\ out[wtask[w]] = "absent"
  BY <1>2 DEF IInv, Holdings, Working
<1>4. out \in [Entries -> Outputs]
  BY DEF IInv, TypeOK, Outputs
<1>5. out' = [out EXCEPT ![wtask[w]] = "absent"]
  BY <1>2, <1>3, <1>4
<1>6. /\ wpc' \in [Workers -> WorkerStates]
      /\ Phases' /\ TaskList' /\ Holdings' /\ Dispatch'
  BY <1>1, <1>2, <1>3, <1>5, MoveInv DEF Working, Outputs
<1>7. TypeOK'
  BY <1>2, <1>6 DEF TypeOK, IInv, mainVars, statVars
<1>8. Mutex'
  BY <1>1, <1>2 DEF IInv, TypeOK, Mutex, statVars
<1>9. QED
  BY <1>6, <1>7, <1>8 DEF IInv

\* The moves that write the output.
LEMMA WritesInv ==
  \A w \in Workers :
    IInv /\ (WriteFile(w) \/ CreateOutput(w) \/ CopyContents(w)) => IInv'
<1> SUFFICES ASSUME NEW w \in Workers, IInv,
                    WriteFile(w) \/ CreateOutput(w) \/ CopyContents(w)
             PROVE  IInv'
  OBVIOUS
<1>1. /\ wpc[w] \in {"write", "create", "copy"}
      /\ UNCHANGED <<mainVars, wtask, firstErr, statVars>>
  BY DEF WriteFile, CreateOutput, CopyContents
<1>2. /\ wtask[w] # None
      /\ wpc[w] = "write" <=> wtask[w] \in Minifiable
      /\ wpc[w] = "copy" => out[wtask[w]] = "partial"
      /\ wpc[w] = "create" => out[wtask[w]] = "absent"
  BY <1>1 DEF IInv, Holdings, Working
<1>3. out \in [Entries -> Outputs]
  BY DEF IInv, TypeOK, Outputs
<1>4. PICK s \in {"lock", "copy", "close", "setErr"}, o \in Outputs :
        /\ wpc' = [wpc EXCEPT ![w] = s]
        /\ out' = [out EXCEPT ![wtask[w]] = o]
        /\ s = "lock" => wtask[w] \in Minifiable
        /\ s \in {"copy", "close"} => wtask[w] \notin Minifiable
        /\ s = "copy" => o = "partial"
        /\ s \in {"lock", "close"} => o = "whole"
  <2>1. CASE WriteFile(w)
    BY <1>2, <2>1 DEF WriteFile, Goto, Fails, Outputs
  <2>2. CASE CreateOutput(w)
    <3>1. CASE UNCHANGED out /\ Fails(w)
      <4>1. out' = [out EXCEPT ![wtask[w]] = "absent"]
        BY <1>2, <1>3, <2>2, <3>1 DEF CreateOutput
      <4>2. QED
        BY <3>1, <4>1 DEF Fails, Goto, Outputs
    <3>2. QED
      BY <1>2, <2>2, <3>1 DEF CreateOutput, Goto, Outputs
  <2>3. CASE CopyContents(w)
    <3>1. CASE UNCHANGED out /\ Fails(w)
      <4>1. out' = [out EXCEPT ![wtask[w]] = "partial"]
        BY <1>2, <1>3, <2>3, <3>1 DEF CopyContents
      <4>2. QED
        BY <3>1, <4>1 DEF Fails, Goto, Outputs
    <3>2. QED
      BY <1>2, <2>3, <3>1 DEF CopyContents, Goto, Outputs
  <2>4. QED
    BY <2>1, <2>2, <2>3
<1>5. /\ wpc' \in [Workers -> WorkerStates]
      /\ out' \in [Entries -> Outputs]
      /\ Phases' /\ TaskList' /\ Holdings' /\ Dispatch'
  BY <1>1, <1>2, <1>4, MoveInv DEF Working
<1>6. TypeOK'
  BY <1>1, <1>5 DEF TypeOK, IInv, mainVars, statVars, Outputs
<1>7. Mutex'
  BY <1>1, <1>4 DEF IInv, TypeOK, Mutex, statVars
<1>8. QED
  BY <1>5, <1>6, <1>7 DEF IInv

LEMMA LockStatsInv == \A w \in Workers : IInv /\ LockStats(w) => IInv'
<1> SUFFICES ASSUME NEW w \in Workers, IInv, LockStats(w) PROVE IInv'
  OBVIOUS
<1>1. /\ wpc[w] = "lock" /\ wpc' = [wpc EXCEPT ![w] = "update"]
      /\ statsMu = None /\ statsMu' = w /\ stats' = stats
      /\ loaded' = [loaded EXCEPT ![w] = stats]
      /\ UNCHANGED <<mainVars, wtask, firstErr, out>>
  BY DEF LockStats, Goto
<1>2. /\ wtask[w] # None /\ wtask[w] \in Minifiable
      /\ out[wtask[w]] = "whole" /\ out \in [Entries -> Outputs]
  BY <1>1 DEF IInv, Holdings, Working, TypeOK, Outputs
<1>3. out' = [out EXCEPT ![wtask[w]] = "whole"]
  BY <1>1, <1>2
<1>4. /\ wpc' \in [Workers -> WorkerStates]
      /\ Phases' /\ TaskList' /\ Holdings' /\ Dispatch'
  <2>1. PICK s \in Working \cup {"setErr"}, o \in Outputs : s = "update" /\ o = "whole"
    BY DEF Working, Outputs
  <2>2. /\ wpc' = [wpc EXCEPT ![w] = s] /\ out' = [out EXCEPT ![wtask[w]] = o]
        /\ UNCHANGED <<mainVars, wtask, firstErr>>
        /\ s \notin {"read", "write", "lock", "open", "create", "copy", "close", "mkdir"}
    BY <1>1, <1>3, <2>1
  <2>3. QED
    BY <1>2, <2>1, <2>2, MoveInv
<1>5. TypeOK'
  BY <1>1, <1>4 DEF TypeOK, IInv, mainVars
<1>6. Mutex'
  BY <1>1 DEF IInv, TypeOK, Mutex, Workers, None
<1>7. QED
  BY <1>4, <1>5, <1>6 DEF IInv

LEMMA UpdateStatsInv == \A w \in Workers : IInv /\ UpdateStats(w) => IInv'
<1> SUFFICES ASSUME NEW w \in Workers, IInv, UpdateStats(w) PROVE IInv'
  OBVIOUS
<1>1. /\ wpc[w] = "update" /\ wpc' = [wpc EXCEPT ![w] = "recv"]
      /\ wtask' = [wtask EXCEPT ![w] = None]
      /\ statsMu' = None
      /\ UNCHANGED <<mainVars, firstErr, loaded, out>>
  BY DEF UpdateStats, NextTask, Goto
<1>2. /\ wtask[w] # None /\ wtask[w] \in Entries
      /\ out[wtask[w]] = "whole" /\ out \in [Entries -> Outputs]
  BY <1>1 DEF IInv, Holdings, Working, TypeOK, Outputs
<1>3. out' = [out EXCEPT ![wtask[w]] = "whole"]
  BY <1>1, <1>2
<1>4. /\ wpc' \in [Workers -> WorkerStates]
      /\ wtask' \in [Workers -> Entries \cup {None}]
      /\ Phases' /\ TaskList' /\ Holdings' /\ Dispatch'
  BY <1>1, <1>2, <1>3, PutDownInv DEF Outputs
<1>5. stats' \in [totalFiles : Nat, originalSize : Nat,
                 processedFiles : Nat, totalSaved : Int]
  <2>1. Size[wtask[w]] - MinSize[wtask[w]] \in Int
    BY <1>2, BuildAssumption
  <2>2. /\ stats \in [totalFiles : Nat, originalSize : Nat,
                     processedFiles : Nat, totalSaved : Int]
        /\ loaded[w] \in [totalFiles : Nat, originalSize : Nat,
                          processedFiles : Nat, totalSaved : Int]
    BY DEF IInv, TypeOK
  <2>3. /\ loaded[w].totalSaved + (Size[wtask[w]] - MinSize[wtask[w]]) \in Int
        /\ loaded[w].processedFiles + 1 \in Nat
    BY <2>1, <2>2
  <2>4. QED
    BY <2>2, <2>3 DEF UpdateStats
<1>6. TypeOK'
  BY <1>1, <1>4, <1>5 DEF TypeOK, IInv, mainVars
<1>7. Mutex'
  BY <1>1 DEF IInv, TypeOK, Mutex, Workers, None
<1>8. QED
  BY <1>4, <1>6, <1>7 DEF IInv

LEMMA CloseOutputInv == \A w \in Workers : IInv /\ CloseOutput(w) => IInv'
<1> SUFFICES ASSUME NEW w \in Workers, IInv, CloseOutput(w) PROVE IInv'
  OBVIOUS
<1>1. /\ wpc[w] = "close" /\ wpc' = [wpc EXCEPT ![w] = "recv"]
      /\ wtask' = [wtask EXCEPT ![w] = None]
      /\ UNCHANGED <<mainVars, firstErr, statVars>>
      /\ out' = out \/ out' = [out EXCEPT ![wtask[w]] = "lost"]
  BY DEF CloseOutput, NextTask, Goto
<1>2. /\ wtask[w] # None
      /\ out[wtask[w]] = "whole" /\ out \in [Entries -> Outputs]
  BY <1>1 DEF IInv, Holdings, Working, TypeOK, Outputs
<1>3. PICK o \in {"whole", "lost"} : out' = [out EXCEPT ![wtask[w]] = o]
  BY <1>1, <1>2
<1>4. /\ wpc' \in [Workers -> WorkerStates]
      /\ wtask' \in [Workers -> Entries \cup {None}]
      /\ out' \in [Entries -> Outputs]
      /\ Phases' /\ TaskList' /\ Holdings' /\ Dispatch'
  BY <1>1, <1>2, <1>3, PutDownInv DEF Outputs
<1>5. TypeOK'
  BY <1>1, <1>4 DEF TypeOK, IInv, mainVars, statVars, Outputs
<1>6. Mutex'
  BY <1>1 DEF IInv, TypeOK, Mutex, statVars
<1>7. QED
  BY <1>4, <1>5, <1>6 DEF IInv

LEMMA SetErrInv == \A w \in Workers : IInv /\ SetErr(w) => IInv'
<1> SUFFICES ASSUME NEW w \in Workers, IInv, SetErr(w) PROVE IInv'
  OBVIOUS
<1>1. /\ wpc[w] = "setErr" /\ wpc' = [wpc EXCEPT ![w] = "done"]
      /\ wtask' = [wtask EXCEPT ![w] = None]
      /\ UNCHANGED <<mainVars, statVars, out>>
  BY DEF SetErr, Goto
<1>2. /\ wtask[w] # None /\ wtask[w] \in Entries
      /\ out \in [Entries -> Outputs] /\ firstErr \in Entries \cup {None}
  BY <1>1 DEF IInv, Holdings, TypeOK, Outputs
<1>3. firstErr' \in Entries /\ firstErr' # None
  BY <1>2 DEF SetErr
<1>4. out' = [out EXCEPT ![wtask[w]] = out[wtask[w]]] /\ out[wtask[w]] \in Outputs
  BY <1>1, <1>2
<1>5. /\ wpc' \in [Workers -> WorkerStates]
      /\ wtask' \in [Workers -> Entries \cup {None}]
      /\ Phases' /\ TaskList' /\ Holdings' /\ Dispatch'
  BY <1>1, <1>2, <1>3, <1>4, PutDownInv
<1>6. TypeOK'
  BY <1>1, <1>3, <1>5 DEF TypeOK, IInv, mainVars, statVars
<1>7. Mutex'
  BY <1>1 DEF IInv, TypeOK, Mutex, statVars
<1>8. QED
  BY <1>5, <1>6, <1>7 DEF IInv

LEMMA QueueClosedInv == \A w \in Workers : IInv /\ QueueClosed(w) => IInv'
<1> SUFFICES ASSUME NEW w \in Workers, IInv, QueueClosed(w) PROVE IInv'
  OBVIOUS
<1> USE DEF IInv
<1>1. /\ wpc[w] = "recv" /\ wpc' = [wpc EXCEPT ![w] = "done"]
      /\ UNCHANGED <<mainVars, wtask, firstErr, statVars, out>>
  BY DEF QueueClosed, Goto
<1>2. wpc \in [Workers -> WorkerStates]
  BY DEF TypeOK
<1>3. /\ wpc'[w] = "done"
      /\ \A v \in Workers \ {w} : wpc'[v] = wpc[v]
  BY <1>1, <1>2
<1>4. wpc' \in [Workers -> WorkerStates]
  BY <1>1, <1>2 DEF WorkerStates
<1>5. TypeOK'
  BY <1>1, <1>4 DEF TypeOK, mainVars, statVars
<1>6. Phases'
  BY <1>1, <1>3 DEF Phases, InPool, mainVars
<1>7. TaskList'
  BY <1>1 DEF TaskList, mainVars
<1>8. Holdings'
  BY <1>1, <1>3 DEF Holdings, Sent, Working, mainVars
<1>9. Dispatch'
  BY <1>1 DEF Dispatch, Sent, Held, Delivered, mainVars
<1>10. Mutex'
  BY <1>1, <1>3 DEF Mutex, statVars
<1>11. QED
  BY <1>5, <1>6, <1>7, <1>8, <1>9, <1>10

LEMMA StutterInv == IInv /\ UNCHANGED vars => IInv'
BY DEF IInv, vars, mainVars, poolVars, statVars, TypeOK, Phases, TaskList,
       Holdings, Dispatch, Mutex, Sent, Held, Delivered

LEMMA StepInv == IInv /\ [Next]_vars => IInv'
<1>1. IInv /\ Main => IInv'
  BY RootsInv, VisitInv, MainInv, StartInv, SendInv DEF Main
<1>2. \A w \in Workers : IInv /\ Worker(w) => IInv'
  BY SilentMovesInv, WritesInv, LockStatsInv, UpdateStatsInv, CloseOutputInv,
     SetErrInv, QueueClosedInv DEF Worker
<1>3. QED
  BY <1>1, <1>2, StutterInv DEF Next, Finished

THEOREM Invariance == Spec => []IInv
BY InitInv, StepInv, PTL DEF Spec

-----------------------------------------------------------------------------
(* What follows from it.                                                   *)

\* Every variable of a build has its type in every reachable state: no task
\* index runs past the list, no worker holds anything but an entry.
THEOREM TypeCorrect == Spec => []TypeOK
<1>1. IInv => TypeOK
  BY DEF IInv
<1>2. QED
  BY <1>1, Invariance, PTL

LEMMA NilMeansComplete == IInv /\ ret = "nil" => Delivered = Selected
<1> SUFFICES ASSUME IInv, ret = "nil" PROVE Delivered = Selected
  OBVIOUS
<1> USE DEF IInv
<1>1. /\ firstErr = None /\ next = Len(tasks) + 1 /\ pos = NumEntries + 1
      /\ tasks \in Seq(Entries) /\ NumEntries \in Nat /\ Len(tasks) \in Nat
  BY BuildAssumption DEF Phases, TypeOK
<1>2. \A w \in Workers : wtask[w] = None
  <2>1. pc \in {"unwind", "returned"}
    BY DEF Phases, InPool, TypeOK
  <2>2. QED
    BY <2>1 DEF Phases, Holdings, Working
<1>3. ASSUME NEW e \in Selected PROVE e \in Delivered
  <2>1. e \in Entries /\ e < pos
    BY <1>1 DEF Selected, Entries
  <2>2. PICK i \in 1..Len(tasks) : tasks[i] = e
    BY <2>1 DEF TaskList
  <2>3. i \in 1..(next - 1) /\ e # None
    BY <1>1, <2>1 DEF Entries, None
  <2>4. QED
    BY <1>1, <1>2, <2>2, <2>3 DEF Dispatch, Held
<1>4. ASSUME NEW e \in Delivered PROVE e \in Selected
  <2>1. e \in Entries /\ out[e] # "absent"
    BY DEF Delivered
  <2>2. PICK i \in 1..(next - 1) : tasks[i] = e
    BY <2>1 DEF Dispatch, Sent
  <2>3. QED
    BY <1>1, <2>2 DEF TaskList
<1>5. QED
  BY <1>3, <1>4

\* A build that returns nil has written the output of every selected file,
\* whatever the tree, the number of workers and the failures on the way.
THEOREM Completeness == Spec => []SuccessMeansComplete
<1>1. IInv => SuccessMeansComplete
  BY NilMeansComplete DEF SuccessMeansComplete, Returned
<1>2. QED
  BY <1>1, Invariance, PTL

\* Neither root is closed while a worker is inside a file's function.
THEOREM RootsOpen == Spec => []RootsOpenWhileWorking
<1>1. IInv => RootsOpenWhileWorking
  BY DEF IInv, Phases, TypeOK, InPool, RootsOpenWhileWorking, Working
<1>2. QED
  BY <1>1, Invariance, PTL

\* Each output path is written on behalf of one task, by one worker.
THEOREM OneWriter == Spec => []OneWriterPerOutput
<1>1. IInv => OneWriterPerOutput
  BY DEF IInv, Holdings, OneWriterPerOutput
<1>2. QED
  BY <1>1, Invariance, PTL

-----------------------------------------------------------------------------
(* The statistics.                                                         *)

LEMMA CountedIs ==
  ASSUME NEW e
  PROVE  e \in Counted <=> /\ e \in Minifiable /\ out[e] = "whole"
                           /\ \A w \in Workers :
                                 wpc[w] \in {"lock", "update"} => wtask[w] # e
BY DEF Counted

LEMMA CountedFinite == IsFiniteSet(Counted)
<1>1. IsFiniteSet(Entries)
  BY BuildAssumption, FS_Interval DEF Entries
<1>2. Counted \subseteq Entries
  BY BuildAssumption DEF Counted
<1>3. QED
  BY <1>1, <1>2, FS_Subset

\* A minified file joins the count in the step that adds one to it.
LEMMA UpdateCounts ==
  ASSUME IInv, ProcessedCount, NEW w \in Workers, UpdateStats(w)
  PROVE  ProcessedCount'
<1>1. /\ wpc[w] = "update" /\ wpc' = [wpc EXCEPT ![w] = "recv"]
      /\ wtask' = [wtask EXCEPT ![w] = None]
      /\ out' = out
      /\ wpc \in [Workers -> WorkerStates]
      /\ wtask \in [Workers -> Entries \cup {None}]
  BY DEF UpdateStats, NextTask, Goto, IInv, TypeOK
<1>2. stats'.processedFiles = stats.processedFiles + 1
  <2>1. loaded[w].processedFiles = stats.processedFiles
    BY <1>1 DEF IInv, Mutex
  <2>2. stats \in [totalFiles : Nat, originalSize : Nat,
                  processedFiles : Nat, totalSaved : Int]
    BY DEF IInv, TypeOK
  <2>3. QED
    BY <2>1, <2>2 DEF UpdateStats
<1>3. PICK e \in Entries : e = wtask[w] /\ e \in Minifiable /\ out[e] = "whole"
  BY <1>1 DEF IInv, Holdings, Working
<1>4. e \notin Counted
  BY <1>1, <1>3, CountedIs
<1>5. \A v \in Workers \ {w} : wtask'[v] = wtask[v] /\ wpc'[v] = wpc[v] /\ wtask[v] # e
  <2>1. e # None
    BY DEF Entries, None
  <2>2. QED
    BY <1>1, <1>3, <2>1 DEF IInv, Holdings
<1>6. Counted' = Counted \cup {e}
  <2>1. wpc'[w] = "recv"
    BY <1>1
  <2>2. ASSUME NEW f
        PROVE  f \in Counted' <=> f \in Counted \/ f = e
    <3>1. f \in Counted' <=> /\ f \in Minifiable /\ out[f] = "whole"
                             /\ \A v \in Workers :
                                   wpc'[v] \in {"lock", "update"} => wtask'[v] # f
      BY <1>1 DEF Counted
    <3>2. CASE f = e
      BY <1>3, <1>5, <2>1, <3>1, <3>2
    <3>3. CASE f # e
      BY <1>3, <1>5, <2>1, <3>1, <3>3, CountedIs
    <3>4. QED
      BY <3>2, <3>3
  <2>3. QED
    BY <2>2
<1>7. Cardinality(Counted') = Cardinality(Counted) + 1
  BY <1>4, <1>6, CountedFinite, FS_AddElement
<1>8. QED
  BY <1>2, <1>7 DEF ProcessedCount

\* The other steps change neither the count nor the counted files.
LEMMA OthersKeepCount ==
  ASSUME IInv, ProcessedCount, [Next]_vars,
         \A w \in Workers : ~ UpdateStats(w)
  PROVE  ProcessedCount'
<1>0. /\ wpc \in [Workers -> WorkerStates]
      /\ wtask \in [Workers -> Entries \cup {None}]
      /\ out \in [Entries -> Outputs]
      /\ stats \in [totalFiles : Nat, originalSize : Nat,
                    processedFiles : Nat, totalSaved : Int]
  BY DEF IInv, TypeOK, Outputs
<1>1. SUFFICES ASSUME NEW f
               PROVE  /\ f \in Counted' <=> f \in Counted
                      /\ stats'.processedFiles = stats.processedFiles
  <2>1. stats'.processedFiles = stats.processedFiles /\ Counted' = Counted
    BY <1>1
  <2>2. QED
    BY <2>1 DEF ProcessedCount
<1>2. f \in Counted' <=> /\ f \in Minifiable /\ out'[f] = "whole"
                         /\ \A v \in Workers :
                               wpc'[v] \in {"lock", "update"} => wtask'[v] # f
  BY DEF Counted
<1>3. CASE Main
  <2>1. CASE Visit
    BY <1>0, <1>2, <2>1, CountedIs DEF Visit, poolVars
  <2>2. CASE StartWorkers
    <3>1. \A w \in Workers : wpc[w] = "idle" /\ wpc'[w] \in {"idle", "recv"}
      BY <2>2 DEF StartWorkers, Return, IInv, Phases
    <3>2. QED
      BY <1>2, <2>2, <3>1, CountedIs DEF StartWorkers, statVars
  <2>3. ASSUME NEW w \in Workers, Send(w)
        PROVE  /\ f \in Counted' <=> f \in Counted
               /\ stats'.processedFiles = stats.processedFiles
    <3>1. /\ wpc[w] \notin {"lock", "update"} /\ wpc'[w] \notin {"lock", "update"}
          /\ \A v \in Workers \ {w} : wpc'[v] = wpc[v] /\ wtask'[v] = wtask[v]
      BY <1>0, <2>3 DEF Send
    <3>2. QED
      BY <1>2, <2>3, <3>1, CountedIs DEF Send, statVars
  <2>4. CASE MkdirDist \/ OpenSrc \/ OpenDest \/ VisitFails \/ CheckStop
               \/ CloseQueue \/ Wait \/ Unwind
    BY <1>2, <2>4, CountedIs
       DEF MkdirDist, OpenSrc, OpenDest, VisitFails, CheckStop, CloseQueue, Wait,
           Unwind, poolVars, statVars
  <2>5. QED
    BY <1>3, <2>1, <2>2, <2>3, <2>4 DEF Main
<1>4. ASSUME NEW w \in Workers, Worker(w)
      PROVE  /\ f \in Counted' <=> f \in Counted
             /\ stats'.processedFiles = stats.processedFiles
  <2>1. CASE WriteFile(w)
    <3>1. PICK e \in Entries : e = wtask[w] /\ out[e] = "absent"
      BY <1>0, <2>1 DEF WriteFile, IInv, Holdings, Working
    <3>2. /\ wpc[w] = "write" /\ wtask' = wtask /\ stats' = stats
          /\ \A v \in Workers \ {w} : wpc'[v] = wpc[v]
          /\ \A g \in Entries \ {e} : out'[g] = out[g]
          /\ out'[e] = "whole" => wpc'[w] = "lock"
          /\ wpc'[w] = "lock" => out'[e] = "whole"
          /\ wpc'[w] \in {"lock", "setErr"}
      BY <1>0, <2>1, <3>1 DEF WriteFile, Goto, Fails, statVars
    <3>3. CASE f = e
      BY <1>2, <3>1, <3>2, <3>3, CountedIs
    <3>4. CASE f # e
      BY BuildAssumption, <1>2, <3>1, <3>2, <3>4, CountedIs
    <3>5. QED
      BY <3>2, <3>3, <3>4
  <2>2. CASE ReadSource(w) \/ MkDestDir(w) \/ OpenSource(w) \/ LockStats(w)
               \/ QueueClosed(w)
    <3>1. /\ wpc[w] \in {"lock", "update"} <=> wpc'[w] \in {"lock", "update"}
          /\ \A v \in Workers \ {w} : wpc'[v] = wpc[v]
          /\ wtask' = wtask /\ out' = out /\ stats' = stats
      BY <1>0, <2>2
         DEF ReadSource, MkDestDir, OpenSource, LockStats, QueueClosed, Goto,
             Fails, statVars
    <3>2. QED
      BY <1>2, <3>1, CountedIs
  <2>3. CASE CreateOutput(w) \/ CopyContents(w) \/ CloseOutput(w) \/ SetErr(w)
    <3>1. PICK e \in Entries : e = wtask[w]
      BY <1>0, <2>3
         DEF CreateOutput, CopyContents, CloseOutput, SetErr, IInv, Holdings, Working
    <3>2. /\ wpc[w] \notin {"lock", "update"} /\ wpc'[w] \notin {"lock", "update"}
          /\ \A v \in Workers \ {w} : wpc'[v] = wpc[v] /\ wtask'[v] = wtask[v]
          /\ \A g \in Entries \ {e} : out'[g] = out[g]
          /\ stats' = stats
      BY <1>0, <2>3, <3>1
         DEF CreateOutput, CopyContents, CloseOutput, SetErr, Goto, NextTask,
             Fails, statVars
    <3>3. e \in Minifiable => out'[e] = out[e]
      BY <2>3, <3>1
         DEF CreateOutput, CopyContents, CloseOutput, SetErr, IInv, Holdings
    <3>4. QED
      BY BuildAssumption, <1>2, <3>2, <3>3, CountedIs
  <2>4. QED
    BY <1>4, <2>1, <2>2, <2>3 DEF Worker
<1>5. CASE UNCHANGED vars
  BY <1>2, <1>5, CountedIs DEF vars, poolVars, statVars
<1>6. QED
  BY <1>3, <1>4, <1>5 DEF Next, Finished

\* ProcessedFiles is, at every moment, the number of minified files whose
\* worker is past its critical section: no update is ever lost.
THEOREM StatsExact == Spec => []ProcessedCount
<1>1. Init => ProcessedCount
  <2> SUFFICES ASSUME Init PROVE ProcessedCount
    OBVIOUS
  <2>1. Counted = {}
    BY BuildAssumption DEF Init, Counted
  <2>2. QED
    BY <2>1, FS_EmptySet DEF Init, ProcessedCount, Stats0
<1>2. IInv /\ ProcessedCount /\ [Next]_vars => ProcessedCount'
  BY UpdateCounts, OthersKeepCount
<1>3. QED
  BY <1>1, <1>2, Invariance, PTL DEF Spec

-----------------------------------------------------------------------------
(* The contract.                                                           *)

Faulted == ret = "error" \/ firstErr # None
             \/ \E w \in Workers : wpc[w] = "setErr"

Result == IF pc = "returned" THEN ret ELSE "running"

LEMMA ContractInit == Init => Contract!Init
<1> SUFFICES ASSUME Init PROVE Contract!Init
  OBVIOUS
<1>1. Delivered = {}
  BY DEF Init, Delivered
<1>2. QED
  BY <1>1 DEF Init, Contract!Init

\* A worker's step delivers its file, records or meets a fault, or is silent.
LEMMA ContractWorker ==
  ASSUME IInv, NEW w \in Workers, Worker(w)
  PROVE  Contract!Next \/ UNCHANGED Contract!vars
<1>0. /\ wpc \in [Workers -> WorkerStates]
      /\ wtask \in [Workers -> Entries \cup {None}]
      /\ out \in [Entries -> Outputs]
      /\ firstErr \in Entries \cup {None}
  BY DEF IInv, TypeOK, Outputs
<1>1. mainVars' = mainVars /\ pc' = pc /\ ret' = ret /\ pc # "returned"
  <2>1. wpc[w] \notin {"idle", "done"}
    BY DEF Worker, ReadSource, MkDestDir, WriteFile, LockStats, UpdateStats,
           OpenSource, CreateOutput, CopyContents, CloseOutput, SetErr, QueueClosed
  <2>2. mainVars' = mainVars
    BY DEF Worker, ReadSource, MkDestDir, WriteFile, LockStats, UpdateStats,
           OpenSource, CreateOutput, CopyContents, CloseOutput, SetErr, QueueClosed
  <2>3. QED
    BY <2>1, <2>2 DEF mainVars, IInv, Phases
<1>2. Result = "running" /\ Result' = "running"
  BY <1>1 DEF Result
<1>3. PICK e : e = wtask[w] /\ (e # None => e \in Entries /\ Sent(e))
  BY <1>0 DEF IInv, Holdings
<1>4. \A v \in Workers \ {w} : wpc'[v] = wpc[v]
  BY <1>0
     DEF Worker, ReadSource, MkDestDir, WriteFile, LockStats, UpdateStats,
         OpenSource, CreateOutput, CopyContents, CloseOutput, SetErr,
         QueueClosed, Goto, NextTask, Fails
<1>5. CASE wpc[w] = "setErr"
  <2>1. e # None
    BY <1>3, <1>5 DEF IInv, Holdings
  <2>2. out' = out /\ firstErr' # None
    BY <1>0, <1>3, <1>5, <2>1
       DEF Worker, ReadSource, MkDestDir, WriteFile, LockStats, UpdateStats,
           OpenSource, CreateOutput, CopyContents, CloseOutput, SetErr, QueueClosed
  <2>3. Faulted = TRUE /\ Faulted' = TRUE /\ Delivered' = Delivered
    BY <1>5, <2>2 DEF Faulted, Delivered
  <2>4. QED
    BY <1>2, <2>3 DEF Contract!vars, Faulted, Result
<1>6. CASE wpc[w] # "setErr" /\ wpc'[w] = "setErr"
  <2>1. /\ firstErr' = firstErr
        /\ wpc[w] \in {"read", "mkdir", "write", "open", "create", "copy"}
        /\ out' = out \/ \E o \in {"absent", "partial"} : out' = [out EXCEPT ![e] = o]
    BY <1>0, <1>3, <1>6
       DEF Worker, ReadSource, MkDestDir, WriteFile, LockStats, UpdateStats,
           OpenSource, CreateOutput, CopyContents, CloseOutput, SetErr,
           QueueClosed, Goto, NextTask, Fails
  <2>2. out[e] \in {"absent", "partial"}
    BY <1>3, <2>1 DEF IInv, Holdings
  <2>3. Delivered' = Delivered
    BY <1>0, <2>1, <2>2 DEF Delivered
  <2>4. Faulted' = TRUE
    BY <1>6 DEF Faulted
  <2>5. QED
    BY <1>2, <2>3, <2>4 DEF Contract!Next, Contract!Fault, Faulted, Result
<1>7. CASE wpc[w] # "setErr" /\ wpc'[w] # "setErr"
  <2>1. Faulted' = Faulted
    <3>1. firstErr' = firstErr
      BY <1>7
         DEF Worker, ReadSource, MkDestDir, WriteFile, LockStats, UpdateStats,
             OpenSource, CreateOutput, CopyContents, CloseOutput, SetErr, QueueClosed
    <3>2. (\E v \in Workers : wpc[v] = "setErr")
             <=> (\E v \in Workers : wpc'[v] = "setErr")
      BY <1>4, <1>7
    <3>3. QED
      BY <1>1, <3>1, <3>2 DEF Faulted
  <2>2. CASE wpc[w] \in {"write", "copy"}
    <3>1. /\ out' = [out EXCEPT ![e] = "whole"]
          /\ e \in Entries /\ Sent(e) /\ out[e] \in {"absent", "partial"}
      BY <1>0, <1>3, <1>7, <2>2
         DEF Worker, ReadSource, MkDestDir, WriteFile, LockStats, UpdateStats,
             OpenSource, CreateOutput, CopyContents, CloseOutput, SetErr,
             QueueClosed, Goto, Fails, IInv, Holdings, Working
    <3>2. e \in Selected /\ e \notin Delivered /\ Delivered' = Delivered \cup {e}
      <4>1. e \in Selected
        BY <3>1 DEF Sent, IInv, TaskList, TypeOK
      <4>2. QED
        BY <1>0, <3>1, <4>1 DEF Delivered
    <3>3. QED
      BY <1>2, <2>1, <3>2 DEF Contract!Next, Contract!Deliver, Faulted, Result
  <2>3. CASE wpc[w] \notin {"write", "copy"}
    <3>1. \/ out' = out
          \/ out' = [out EXCEPT ![e] = "partial"] /\ out[e] = "absent"
          \/ out' = [out EXCEPT ![e] = "lost"] /\ out[e] = "whole"
      BY <1>0, <1>3, <2>3
         DEF Worker, ReadSource, MkDestDir, WriteFile, LockStats, UpdateStats,
             OpenSource, CreateOutput, CopyContents, CloseOutput, SetErr,
             QueueClosed, IInv, Holdings, Working
    <3>2. Delivered' = Delivered
      BY <1>0, <3>1 DEF Delivered
    <3>3. QED
      BY <1>2, <2>1, <3>2 DEF Contract!vars, Faulted, Result
  <2>4. QED
    BY <2>2, <2>3
<1>8. QED
  BY <1>5, <1>6, <1>7

LEMMA ContractMain ==
  ASSUME IInv, Main
  PROVE  Contract!Next \/ UNCHANGED Contract!vars
<1>1. Delivered' = Delivered
  BY DEF Main, MkdirDist, OpenSrc, OpenDest, Visit, VisitFails, StartWorkers,
         CheckStop, Send, CloseQueue, Wait, Unwind, Delivered
<1>2. firstErr' = firstErr /\ pc # "returned"
  BY DEF Main, MkdirDist, OpenSrc, OpenDest, Visit, VisitFails, StartWorkers,
         CheckStop, Send, CloseQueue, Wait, Unwind, poolVars
<1>3. (\E w \in Workers : wpc[w] = "setErr")
        <=> (\E w \in Workers : wpc'[w] = "setErr")
  <2>1. CASE StartWorkers
    <3>1. \A w \in Workers : wpc[w] = "idle" /\ wpc'[w] \in {"idle", "recv"}
      BY <2>1 DEF StartWorkers, Return, IInv, Phases
    <3>2. QED
      BY <3>1
  <2>2. ASSUME NEW w \in Workers, Send(w)
        PROVE  \A v \in Workers : wpc[v] = "setErr" <=> wpc'[v] = "setErr"
    BY <2>2 DEF Send, IInv, TypeOK
  <2>3. CASE ~ StartWorkers /\ \A w \in Workers : ~ Send(w)
    BY <2>3
       DEF Main, MkdirDist, OpenSrc, OpenDest, Visit, VisitFails, CheckStop,
           CloseQueue, Wait, Unwind, poolVars
  <2>4. QED
    BY <2>1, <2>2, <2>3
<1>4. CASE Unwind
  <2>1. /\ Result = "running" /\ Result' = ret /\ ret \in {"nil", "error"}
        /\ Faulted' = Faulted
    BY <1>2, <1>3, <1>4 DEF Unwind, Result, Faulted, IInv, Phases, TypeOK
  <2>2. CASE ret = "nil"
    <3>1. Delivered = Selected
      BY <2>2, NilMeansComplete
    <3>2. ~ Faulted
      BY <1>4, <2>2 DEF Unwind, Faulted, IInv, Phases
    <3>3. QED
      BY <1>1, <2>1, <2>2, <3>1, <3>2 DEF Contract!Next, Contract!Succeed, Faulted, Result
  <2>3. CASE ret = "error"
    <3>1. Faulted
      BY <2>3 DEF Faulted
    <3>2. QED
      BY <1>1, <2>1, <2>3, <3>1 DEF Contract!Next, Contract!Fail, Faulted, Result
  <2>4. QED
    BY <2>1, <2>2, <2>3
<1>5. CASE ~ Unwind
  <2>1. /\ pc' # "returned"
        /\ ret' = ret \/ (ret' = "error" /\ ret = "none") \/ (ret' = "nil" /\ ret = "none")
    BY <1>5
       DEF Main, MkdirDist, OpenSrc, OpenDest, Visit, VisitFails, StartWorkers,
           CheckStop, Send, CloseQueue, Wait, Return, IInv, Phases, InPool
  <2>2. Result = "running" /\ Result' = "running"
    BY <1>2, <2>1 DEF Result
  <2>3. Faulted' = Faulted \/ Faulted' = TRUE
    BY <1>2, <1>3, <2>1 DEF Faulted
  <2>4. QED
    BY <1>1, <2>2, <2>3
       DEF Contract!Next, Contract!Fault, Contract!vars, Faulted, Result
<1>6. QED
  BY <1>4, <1>5

\* Build implements BuildContract: each of its steps delivers one more wanted
\* file, meets a fault, answers the caller as the contract allows, or is
\* invisible to the caller.
THEOREM Refinement == Spec => KeepsContract
<1>1. IInv /\ [Next]_vars => [Contract!Next]_(Contract!vars)
  <2> SUFFICES ASSUME IInv, [Next]_vars PROVE [Contract!Next]_(Contract!vars)
    OBVIOUS
  <2>1. CASE Main
    BY <2>1, ContractMain
  <2>2. ASSUME NEW w \in Workers, Worker(w) PROVE [Contract!Next]_(Contract!vars)
    BY <2>2, ContractWorker
  <2>3. CASE UNCHANGED vars
    BY <2>3 DEF vars, mainVars, poolVars, Contract!vars, Delivered
  <2>4. QED
    BY <2>1, <2>2, <2>3 DEF Next, Finished
<1>2. QED
  BY <1>1, ContractInit, Invariance, PTL DEF Spec, KeepsContract, Contract!Spec
=============================================================================
