--------------------------- MODULE BuildContract ---------------------------
(***************************************************************************)
(* What a call of Build (internal/builder/builder.go) promises its caller, *)
(* said without walks, workers or channels: outputs are delivered while    *)
(* the call runs and never after it returned, nil is returned only when    *)
(* every wanted file is delivered and nothing failed, and an error is      *)
(* returned only when something did fail.                                  *)
(***************************************************************************)
EXTENDS FiniteSets

CONSTANT Wanted            \* the source files the walk selects

VARIABLES
    delivered,             \* the files whose output has been written
    faulted,               \* some operation of this call has failed
    result                 \* what the caller has received

vars == <<delivered, faulted, result>>

Init ==
    /\ delivered = {}
    /\ faulted = FALSE
    /\ result = "running"

Deliver(f) ==
    /\ result = "running"
    /\ f \notin delivered
    /\ delivered' = delivered \cup {f}
    /\ UNCHANGED <<faulted, result>>

Fault ==
    /\ result = "running"
    /\ faulted' = TRUE
    /\ UNCHANGED <<delivered, result>>

Succeed ==
    /\ result = "running"
    /\ ~faulted
    /\ delivered = Wanted
    /\ result' = "nil"
    /\ UNCHANGED <<delivered, faulted>>

Fail ==
    /\ result = "running"
    /\ faulted
    /\ result' = "error"
    /\ UNCHANGED <<delivered, faulted>>

Next == (\E f \in Wanted : Deliver(f)) \/ Fault \/ Succeed \/ Fail

Spec == Init /\ [][Next]_vars
=============================================================================
