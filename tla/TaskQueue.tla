------------------------------ MODULE TaskQueue ------------------------------
(***************************************************************************)
(* What a task buffer promises its callers: a bounded FIFO queue that can  *)
(* be closed.  A put that answers "true" has enqueued its task, a put that *)
(* answers "false" found the queue closed and enqueued nothing, and a      *)
(* worker is handed the oldest task, once.                                 *)
(***************************************************************************)
EXTENDS Naturals, Sequences

CONSTANTS Producers, Workers, Tasks, NoTask, Capacity

VARIABLES
    q,      \* the tasks accepted and not yet handed out, oldest first
    open,   \* FALSE once the queue has been closed
    taken,  \* the task each worker is running, or NoTask
    ret     \* what the last put of each producer returned

queueVars == <<q, open, taken, ret>>

Init ==
    /\ q = <<>>
    /\ open = TRUE
    /\ taken = [w \in Workers |-> NoTask]
    /\ ret = [p \in Producers |-> "none"]

Put(p, t) ==
    /\ open
    /\ Len(q) < Capacity
    /\ q' = Append(q, t)
    /\ ret' = [ret EXCEPT ![p] = "true"]
    /\ UNCHANGED <<open, taken>>

Refuse(p) ==
    /\ ~open
    /\ ret' = [ret EXCEPT ![p] = "false"]
    /\ UNCHANGED <<q, open, taken>>

Get(w) ==
    /\ open
    /\ q # <<>>
    /\ taken' = [taken EXCEPT ![w] = Head(q)]
    /\ q' = Tail(q)
    /\ UNCHANGED <<open, ret>>

Done(w) ==
    /\ taken[w] # NoTask
    /\ taken' = [taken EXCEPT ![w] = NoTask]
    /\ UNCHANGED <<q, open, ret>>

Close == open' = FALSE /\ UNCHANGED <<q, taken, ret>>

Next ==
    \/ \E p \in Producers : Refuse(p) \/ \E t \in Tasks : Put(p, t)
    \/ \E w \in Workers : Get(w) \/ Done(w)
    \/ Close

Spec == Init /\ [][Next]_queueVars
=============================================================================
