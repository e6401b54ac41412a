------------------------------- MODULE Build -------------------------------
(***************************************************************************)
(* One call of Build, internal/builder/builder.go: the main goroutine      *)
(* makes and opens the two roots, walks the source tree into a task list   *)
(* and runs runTasks, which starts min(GOMAXPROCS, number of tasks) worker *)
(* goroutines and hands them the tasks over an unbuffered channel.  Each   *)
(* worker minifies or copies one file at a time, and leaves its loop for   *)
(* good at its first failure.                                              *)
(*                                                                         *)
(* The source tree is the sequence 1..NumEntries of directory entries in   *)
(* the order fs.WalkDir visits them.  A goroutine's local steps between    *)
(* two shared accesses are one action; a critical section whose outcome    *)
(* the mutex alone makes atomic (the statistics) is split into its lock    *)
(* and its unlock so that a missing mutex would show.                      *)
(***************************************************************************)
EXTENDS Integers, Sequences, FiniteSets

CONSTANTS
    Procs,          \* runtime.GOMAXPROCS(0)
    NumEntries,     \* how many entries the walk meets below "."
    Dirs,           \* the entries that are directories
    DotNamed,       \* the entries whose own name starts with "."
    Minifiable,     \* the entries with an .html, .css or .js extension
    Faulty,         \* the entries on which an operation may fail
    LossyClose,     \* the entries whose output's close may fail
    RootFaults,     \* which of the calls on the two roots may fail
    Size, MinSize   \* bytes of each entry, and of its minified output

Entries == 1..NumEntries

ASSUME BuildAssumption ==
    /\ Procs \in Nat \ {0}
    /\ NumEntries \in Nat
    /\ Dirs \subseteq Entries
    /\ DotNamed \subseteq Entries
    /\ Minifiable \subseteq Entries
    /\ Faulty \subseteq Entries
    /\ LossyClose \subseteq Entries
    /\ RootFaults \subseteq {"mkdirAll", "openSrc", "openDest"}
    /\ Size \in [Entries -> Nat]
    /\ MinSize \in [Entries -> Nat]

VARIABLES
    pc,        \* where the main goroutine is
    open,      \* the roots that are open
    pos,       \* the entry the walk visits next
    tasks,     \* the files found by the walk
    next,      \* index in tasks of the dispatch loop
    closed,    \* close(queue) has been called
    firstErr,  \* the entry whose failure setErr recorded, None before that
    ret,       \* the value Build is returning
    wpc,       \* where each worker goroutine is
    wtask,     \* the task each worker holds
    stats,     \* the fields of Stats
    statsMu,   \* the worker that holds stats.mu
    loaded,    \* the values a worker read inside its critical section
    out        \* each entry's output under the destination root

mainVars  == <<pc, open, pos, tasks, next, closed, ret>>
poolVars  == <<wpc, wtask, firstErr>>
statVars  == <<stats, statsMu, loaded>>
vars == <<mainVars, poolVars, statVars, out>>

None == 0                                 \* no error, no task, no worker

Workers == 1..Procs

\* The callback of the walk keeps what is neither a directory nor dot-named.
Selected == {e \in Entries : e \notin Dirs /\ e \notin DotNamed}

WorkerCount == IF Procs > Len(tasks) THEN Len(tasks) ELSE Procs

WorkerStates ==
    {"idle", "recv", "read", "mkdir", "write", "lock", "update",
     "open", "create", "copy", "close", "setErr", "done"}

\* A worker between the receive of a task and the end of that task's function.
Working == {"read", "mkdir", "write", "lock", "update", "open", "create",
            "copy", "close"}

Stats0 == [totalFiles |-> 0, originalSize |-> 0,
           processedFiles |-> 0, totalSaved |-> 0]

Init ==
    /\ pc = "mkdirAll"
    /\ open = {}
    /\ pos = 1
    /\ tasks = <<>>
    /\ next = 1
    /\ closed = FALSE
    /\ firstErr = None
    /\ ret = "none"
    /\ wpc = [w \in Workers |-> "idle"]
    /\ wtask = [w \in Workers |-> None]
    /\ stats = Stats0
    /\ statsMu = None
    /\ loaded = [w \in Workers |-> Stats0]
    /\ out = [e \in Entries |-> "absent"]

-----------------------------------------------------------------------------
(* The main goroutine: Build.                                              *)

\* `return v`: the deferred closes are still to run.
Return(v) == pc' = "unwind" /\ ret' = v

\* os.MkdirAll and the two os.OpenRoot calls, each with its early return.
MkdirDist ==
    /\ pc = "mkdirAll"
    /\ \/ pc' = "openSrc" /\ UNCHANGED ret
       \/ "mkdirAll" \in RootFaults /\ Return("error")
    /\ UNCHANGED <<open, pos, tasks, next, closed, poolVars, statVars, out>>

OpenSrc ==
    /\ pc = "openSrc"
    /\ \/ pc' = "openDest" /\ open' = open \cup {"src"} /\ UNCHANGED ret
       \/ "openSrc" \in RootFaults /\ Return("error") /\ UNCHANGED open
    /\ UNCHANGED <<pos, tasks, next, closed, poolVars, statVars, out>>

OpenDest ==
    /\ pc = "openDest"
    /\ \/ pc' = "walk" /\ open' = open \cup {"dest"} /\ UNCHANGED ret
       \/ "openDest" \in RootFaults /\ Return("error") /\ UNCHANGED open
    /\ UNCHANGED <<pos, tasks, next, closed, poolVars, statVars, out>>

\* Mistake: the walk calls back once more at its end.
VisitPastEnd ==
    /\ pc = "walk"
    /\ pos <= NumEntries + 1
    /\ IF pos \in Selected
       THEN /\ tasks' = Append(tasks, pos)
            /\ stats' = [stats EXCEPT !.totalFiles = @ + 1,
                                      !.originalSize = @ + Size[pos]]
       ELSE UNCHANGED <<tasks, stats>>
    /\ pos' = pos + 1
    /\ UNCHANGED <<pc, open, next, closed, ret, poolVars, statsMu, loaded, out>>

\* One call of the walk's callback.
Visit ==
    /\ pc = "walk"
    /\ pos <= NumEntries
    /\ IF pos \in Selected
       THEN /\ tasks' = Append(tasks, pos)
            /\ stats' = [stats EXCEPT !.totalFiles = @ + 1,
                                      !.originalSize = @ + Size[pos]]
       ELSE UNCHANGED <<tasks, stats>>
    /\ pos' = pos + 1
    /\ UNCHANGED <<pc, open, next, closed, ret, poolVars, statsMu, loaded, out>>

\* The callback gets or meets an error, and the walk and Build return it.
VisitFails ==
    /\ pc = "walk"
    /\ pos \in Faulty
    /\ Return("error")
    /\ UNCHANGED <<open, pos, tasks, next, closed, poolVars, statVars, out>>

-----------------------------------------------------------------------------
(* The main goroutine: runTasks.                                           *)

\* The pool is started in one step: a worker started early waits for the
\* channel until the dispatch loop runs.
StartWorkers ==
    /\ pc = "walk"
    /\ pos > NumEntries
    /\ IF WorkerCount < 1
       THEN Return("nil") /\ UNCHANGED wpc
       ELSE /\ pc' = "check"
            /\ wpc' = [w \in Workers |->
                          IF w <= WorkerCount THEN "recv" ELSE "idle"]
            /\ UNCHANGED ret
    /\ UNCHANGED <<open, pos, tasks, next, closed, wtask, firstErr, statVars, out>>

\* The head of the dispatch loop: read firstErr under mu, then go on to the
\* send or leave the loop.
CheckStop ==
    /\ pc = "check"
    /\ pc' = IF next <= Len(tasks) /\ firstErr = None THEN "send" ELSE "closeQueue"
    /\ UNCHANGED <<open, pos, tasks, next, closed, ret, poolVars, statVars, out>>

\* Mistake: the goroutines share a task variable that one of them outruns.
SendAgain(w) ==
    /\ pc = "send"
    /\ wpc[w] = "recv"
    /\ \E i \in {next, next - 1} \ {0} :
          /\ wtask' = [wtask EXCEPT ![w] = tasks[i]]
          /\ wpc' = [wpc EXCEPT ![w] =
                        IF tasks[i] \in Minifiable THEN "read" ELSE "mkdir"]
    /\ next' = next + 1
    /\ pc' = "check"
    /\ UNCHANGED <<open, pos, tasks, closed, ret, firstErr, statVars, out>>

\* queue <- task: the channel is unbuffered, so a worker takes it in the step.
Send(w) ==
    /\ pc = "send"
    /\ wpc[w] = "recv"
    /\ wtask' = [wtask EXCEPT ![w] = tasks[next]]
    /\ wpc' = [wpc EXCEPT ![w] =
                  IF tasks[next] \in Minifiable THEN "read" ELSE "mkdir"]
    /\ next' = next + 1
    /\ pc' = "check"
    /\ UNCHANGED <<open, pos, tasks, closed, ret, firstErr, statVars, out>>

\* Mistake: the loop ends without close(queue).
CloseForgotten ==
    /\ pc = "closeQueue"
    /\ pc' = "wait"
    /\ UNCHANGED <<open, pos, tasks, next, closed, ret, poolVars, statVars, out>>

CloseQueue ==
    /\ pc = "closeQueue"
    /\ closed' = TRUE
    /\ pc' = "wait"
    /\ UNCHANGED <<open, pos, tasks, next, ret, poolVars, statVars, out>>

\* Mistake: runTasks closes the queue and returns without wg.Wait.
WaitSkipped ==
    /\ pc = "wait"
    /\ Return(IF firstErr = None THEN "nil" ELSE "error")
    /\ UNCHANGED <<open, pos, tasks, next, closed, poolVars, statVars, out>>

\* wg.Wait, then the value of firstErr becomes Build's.
Wait ==
    /\ pc = "wait"
    /\ \A w \in Workers : wpc[w] \in {"idle", "done"}
    /\ Return(IF firstErr = None THEN "nil" ELSE "error")
    /\ UNCHANGED <<open, pos, tasks, next, closed, poolVars, statVars, out>>

\* The deferred closes of both roots, after which the caller has the value.
Unwind ==
    /\ pc = "unwind"
    /\ pc' = "returned"
    /\ open' = {}
    /\ UNCHANGED <<pos, tasks, next, closed, ret, poolVars, statVars, out>>

-----------------------------------------------------------------------------
(* A worker goroutine.                                                     *)

Goto(w, s) == wpc' = [wpc EXCEPT ![w] = s]

\* Some call made for the task at hand returns an error.
Fails(w) == wtask[w] \in Faulty /\ Goto(w, "setErr")

\* The task's function returned nil: back to the head of the range loop.
NextTask(w) ==
    /\ Goto(w, "recv")
    /\ wtask' = [wtask EXCEPT ![w] = None]

\* srcRoot.ReadFile and minify.Bytes.
ReadSource(w) ==
    /\ wpc[w] = "read"
    /\ Goto(w, "mkdir") \/ Fails(w)
    /\ UNCHANGED <<mainVars, wtask, firstErr, statVars, out>>

\* mkDestDir: the second call of a minified file, the first of a copied one.
MkDestDir(w) ==
    /\ wpc[w] = "mkdir"
    /\ \/ Goto(w, IF wtask[w] \in Minifiable THEN "write" ELSE "open")
       \/ Fails(w)
    /\ UNCHANGED <<mainVars, wtask, firstErr, statVars, out>>

\* destRoot.WriteFile creates, writes and closes, and returns any error; a
\* failed one may have created or half written the output.
WriteFile(w) ==
    /\ wpc[w] = "write"
    /\ \/ Goto(w, "lock") /\ out' = [out EXCEPT ![wtask[w]] = "whole"]
       \/ /\ Fails(w)
          /\ \E o \in {"absent", "partial"} : out' = [out EXCEPT ![wtask[w]] = o]
    /\ UNCHANGED <<mainVars, wtask, firstErr, statVars>>

\* Mistake: the updates are made without stats.mu.
LockStatsSkipped(w) ==
    /\ wpc[w] = "lock"
    /\ loaded' = [loaded EXCEPT ![w] = stats]
    /\ Goto(w, "update")
    /\ UNCHANGED <<mainVars, wtask, firstErr, stats, statsMu, out>>

\* stats.mu.Lock and the reads of the two updates made under it.
LockStats(w) ==
    /\ wpc[w] = "lock"
    /\ statsMu = None
    /\ statsMu' = w
    /\ loaded' = [loaded EXCEPT ![w] = stats]
    /\ Goto(w, "update")
    /\ UNCHANGED <<mainVars, wtask, firstErr, stats, out>>

\* The writes of the two updates and stats.mu.Unlock.
UpdateStats(w) ==
    /\ wpc[w] = "update"
    /\ LET saved == Size[wtask[w]] - MinSize[wtask[w]]
       IN  stats' = [stats EXCEPT !.totalSaved = loaded[w].totalSaved + saved,
                                  !.processedFiles = loaded[w].processedFiles + 1]
    /\ statsMu' = None
    /\ NextTask(w)
    /\ UNCHANGED <<mainVars, firstErr, loaded, out>>

\* copyFile: open the source, create the output, copy, close.
OpenSource(w) ==
    /\ wpc[w] = "open"
    /\ Goto(w, "create") \/ Fails(w)
    /\ UNCHANGED <<mainVars, wtask, firstErr, statVars, out>>

CreateOutput(w) ==
    /\ wpc[w] = "create"
    /\ \/ Goto(w, "copy") /\ out' = [out EXCEPT ![wtask[w]] = "partial"]
       \/ Fails(w) /\ UNCHANGED out
    /\ UNCHANGED <<mainVars, wtask, firstErr, statVars>>

CopyContents(w) ==
    /\ wpc[w] = "copy"
    /\ \/ Goto(w, "close") /\ out' = [out EXCEPT ![wtask[w]] = "whole"]
       \/ Fails(w) /\ UNCHANGED out
    /\ UNCHANGED <<mainVars, wtask, firstErr, statVars>>

\* The deferred dstFile.Close: a failure, which may have lost buffered data,
\* is logged and the task still counts as done.
CloseOutput(w) ==
    /\ wpc[w] = "close"
    /\ \/ UNCHANGED out
       \/ /\ wtask[w] \in LossyClose
          /\ out' = [out EXCEPT ![wtask[w]] = "lost"]
    /\ NextTask(w)
    /\ UNCHANGED <<mainVars, firstErr, statVars>>

\* Mistake: a failing worker returns without setErr.
SetErrForgotten(w) ==
    /\ wpc[w] = "setErr"
    /\ Goto(w, "done")
    /\ wtask' = [wtask EXCEPT ![w] = None]
    /\ UNCHANGED <<mainVars, firstErr, statVars, out>>

\* setErr, the return from the worker's function and the deferred wg.Done.
SetErr(w) ==
    /\ wpc[w] = "setErr"
    /\ firstErr' = IF firstErr = None THEN wtask[w] ELSE firstErr
    /\ Goto(w, "done")
    /\ wtask' = [wtask EXCEPT ![w] = None]
    /\ UNCHANGED <<mainVars, statVars, out>>

\* The range loop ends when the channel is closed.
QueueClosed(w) ==
    /\ wpc[w] = "recv"
    /\ closed
    /\ Goto(w, "done")
    /\ UNCHANGED <<mainVars, wtask, firstErr, statVars, out>>

-----------------------------------------------------------------------------
Main ==
    \/ MkdirDist \/ OpenSrc \/ OpenDest \/ Visit \/ VisitFails
    \/ StartWorkers \/ CheckStop \/ CloseQueue \/ Wait \/ Unwind
    \/ \E w \in Workers : Send(w)

Worker(w) ==
    \/ ReadSource(w) \/ MkDestDir(w) \/ WriteFile(w)
    \/ LockStats(w) \/ UpdateStats(w)
    \/ OpenSource(w) \/ CreateOutput(w) \/ CopyContents(w) \/ CloseOutput(w)
    \/ SetErr(w) \/ QueueClosed(w)

\* Build has returned; the process goes on elsewhere.
Finished == pc = "returned" /\ UNCHANGED vars

Next == Main \/ (\E w \in Workers : Worker(w)) \/ Finished

Spec == Init /\ [][Next]_vars

\* Go runs every runnable goroutine again and again, and the file operations
\* of a step return.
FairSpec ==
    /\ Spec
    /\ WF_vars(Main)
    /\ \A w \in Workers : WF_vars(Worker(w))

-----------------------------------------------------------------------------
(* Properties.                                                             *)

TypeOK ==
    /\ pc \in {"mkdirAll", "openSrc", "openDest", "walk", "check", "send",
               "closeQueue", "wait", "unwind", "returned"}
    /\ open \subseteq {"src", "dest"}
    /\ pos \in 1..(NumEntries + 1)
    /\ tasks \in Seq(Entries)
    /\ next \in 1..(Len(tasks) + 1)
    /\ closed \in BOOLEAN
    /\ firstErr \in Entries \cup {None}
    /\ ret \in {"none", "nil", "error"}
    /\ wpc \in [Workers -> WorkerStates]
    /\ wtask \in [Workers -> Entries \cup {None}]
    /\ stats \in [totalFiles : Nat, originalSize : Nat,
                  processedFiles : Nat, totalSaved : Int]
    /\ statsMu \in Workers \cup {None}
    /\ loaded \in [Workers -> [totalFiles : Nat, originalSize : Nat,
                               processedFiles : Nat, totalSaved : Int]]
    /\ out \in [Entries -> {"absent", "partial", "whole", "lost"}]

Returned(v) == pc = "returned" /\ ret = v

Delivered == {e \in Entries : out[e] \in {"whole", "lost"}}

\* Build returns nil only if every file the walk selected has its output
\* written: the workers' failures, the stop flag and the closing of the queue
\* never combine into a success that skipped a task.
SuccessMeansComplete == Returned("nil") => Delivered = Selected

\* A worker inside processMinifiableFile or copyFile never finds a root
\* closed: the deferred closes run only after wg.Wait.
RootsOpenWhileWorking ==
    \A w \in Workers : wpc[w] \in Working => open = {"src", "dest"}

\* Each output has one writer in the whole build: two workers never hold the
\* same file, and a file handed out has not been written before
\* ("Output paths never collide (one task per source file)").
OneWriterPerOutput ==
    /\ \A v, w \in Workers : v # w /\ wtask[v] # None => wtask[v] # wtask[w]
    /\ \A w \in Workers :
          wpc[w] \in {"read", "mkdir", "write", "open", "create"}
             => out[wtask[w]] = "absent"

\* The files whose processMinifiableFile has got as far as its statistics.
Counted ==
    {e \in Minifiable : out[e] = "whole"}
       \ {wtask[w] : w \in {v \in Workers : wpc[v] \in {"lock", "update"}}}

\* ProcessedFiles counts exactly the minified files, whichever workers
\* updated it at the same time.
ProcessedCount == stats.processedFiles = Cardinality(Counted)

\* The abstract contract, read off this state.
Contract == INSTANCE BuildContract WITH
    Wanted    <- Selected,
    delivered <- Delivered,
    faulted   <- ret = "error" \/ firstErr # None
                    \/ \E w \in Workers : wpc[w] = "setErr",
    result    <- IF pc = "returned" THEN ret ELSE "running"

\* Build implements its contract: nothing is written after it returned, nil
\* means complete and fault-free, an error means something failed.
KeepsContract == Contract!Spec

\* Build returns in the end, unless every worker has failed and the dispatch
\* loop still waits for one: a single surviving worker drains the queue.
ReturnsWhileOneSurvives ==
    <>(pc = "returned" \/ (pc = "send" /\ \A w \in Workers : wpc[w] \in {"idle", "done"}))

\* "runTasks processes tasks ... and returns the first error encountered"
\* (builder.go): whatever fails, every build ends.
Termination == <>(pc = "returned")
=============================================================================
