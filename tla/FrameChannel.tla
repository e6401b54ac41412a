---------------------------- MODULE FrameChannel ----------------------------
(***************************************************************************)
(* What a server-side WebSocket connection (internal/websocket Conn)       *)
(* promises the goroutines that share it: each message reaches the client  *)
(* as one whole frame or not at all, a nil result means that it did, and   *)
(* nothing follows the close.                                              *)
(***************************************************************************)
EXTENDS Integers, Sequences

CONSTANT Messages

VARIABLES
    sent,              \* the messages the client can read, in order
    answered,          \* what each WriteMessage has returned
    closed             \* the connection takes no more messages

vars == <<sent, answered, closed>>

Init ==
    /\ sent = <<>>
    /\ answered = [m \in Messages |-> "pending"]
    /\ closed = FALSE

InSent(m) == \E i \in 1..Len(sent) : sent[i] = m

Arrive(m) ==
    /\ ~ closed
    /\ answered[m] = "pending"
    /\ ~ InSent(m)
    /\ sent' = Append(sent, m)
    /\ UNCHANGED <<answered, closed>>

ReturnNil(m) ==
    /\ answered[m] = "pending"
    /\ InSent(m)
    /\ answered' = [answered EXCEPT ![m] = "nil"]
    /\ UNCHANGED <<sent, closed>>

ReturnError(m) ==
    /\ answered[m] = "pending"
    /\ answered' = [answered EXCEPT ![m] = "error"]
    /\ UNCHANGED <<sent, closed>>

Close ==
    /\ closed' = TRUE
    /\ UNCHANGED <<sent, answered>>

Next ==
    \/ \E m \in Messages : Arrive(m) \/ ReturnNil(m) \/ ReturnError(m)
    \/ Close

Spec == Init /\ [][Next]_vars
=============================================================================
