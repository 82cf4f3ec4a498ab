---------------------------- MODULE TaskDBuffer ----------------------------
(***************************************************************************)
(* The double buffer of tasks run once a frame (task_dbuffer.c): server    *)
(* tasks, added by the database thread and run by the server thread, and   *)
(* game tasks, run by the game thread.                                     *)
(*                                                                         *)
(* Each action is one section under db->write_lock, or the run of one task *)
(* of a batch.  A producer in "wait" is blocked in condvar_wait; "woken"   *)
(* it has to take the lock again.  Tasks are told apart by the order in    *)
(* which they were accepted: the n-th accepted task is the number n.       *)
(***************************************************************************)
EXTENDS Integers, Sequences, FiniteSets

CONSTANTS
    Producers,  \* threads that call task_dbuffer_add
    MaxTasks,   \* max_tasks of task_dbuffer_create
    MaxAdds     \* bound: adds accepted or under way

ASSUME ProducersAssumption == IsFiniteSet(Producers)
ASSUME MaxTasksAssumption == MaxTasks \in Nat \ {0}
ASSUME MaxAddsAssumption == MaxAdds \in Nat

VARIABLES
    active, write_idx, count, buffer,
    pc,         \* where each producer is
    idx,        \* the local idx of a producer inside task_dbuffer_add
    batch,      \* the batch being run: which buffer, next slot, slots left
    accepted,   \* how many adds have returned true
    ran         \* the tasks run so far, in order

vars == <<active, write_idx, count, buffer, pc, idx, batch, accepted, ran>>

Slots == 0 .. MaxTasks - 1
Unused == 0     \* what malloc left in a slot

TypeOK ==
    /\ active \in BOOLEAN
    /\ write_idx \in {0, 1}
    /\ count \in [{0, 1} -> 0 .. MaxTasks]
    /\ buffer \in [{0, 1} -> [Slots -> 0 .. MaxAdds]]
    /\ pc \in [Producers -> {"idle", "wait", "woken"}]
    /\ idx \in [Producers -> {0, 1}]
    /\ batch \in [buf : {0, 1}, next : 0 .. MaxTasks, left : 0 .. MaxTasks]
    /\ accepted \in 0 .. MaxAdds
    /\ ran \in Seq(1 .. MaxAdds)

\* task_dbuffer_create
Init ==
    /\ active = TRUE
    /\ write_idx = 0
    /\ count = [i \in {0, 1} |-> 0]
    /\ buffer = [i \in {0, 1} |-> [s \in Slots |-> Unused]]
    /\ pc = [p \in Producers |-> "idle"]
    /\ idx = [p \in Producers |-> 0]
    /\ batch = [buf |-> 0, next |-> 0, left |-> 0]
    /\ accepted = 0
    /\ ran = <<>>

-----------------------------------------------------------------------------
Blocked == {p \in Producers : pc[p] # "idle"}

\* The end of task_dbuffer_add: the task is stored and the call returns true.
Accept(p, i) ==
    /\ buffer' = [buffer EXCEPT ![i][count[i]] = accepted + 1]
    /\ count' = [count EXCEPT ![i] = @ + 1]
    /\ accepted' = accepted + 1
    /\ pc' = [pc EXCEPT ![p] = "idle"]

\* The while loop of task_dbuffer_add, up to condvar_wait or the return, with i
\* the index that was read when the call took the lock.
Add(p, i) ==
    \/ /\ count[i] >= MaxTasks /\ active
       /\ pc' = [pc EXCEPT ![p] = "wait"]
       /\ UNCHANGED <<buffer, count, accepted>>
    \/ /\ ~active
       /\ pc' = [pc EXCEPT ![p] = "idle"]
       /\ UNCHANGED <<buffer, count, accepted>>
    \/ /\ count[i] < MaxTasks /\ active
       /\ Accept(p, i)

AddEnter(p) ==
    /\ pc[p] = "idle"
    /\ accepted + Cardinality(Blocked) < MaxAdds
    /\ idx' = [idx EXCEPT ![p] = write_idx]
    /\ Add(p, write_idx)
    /\ UNCHANGED <<active, write_idx, batch, ran>>

\* Mutant: an if in the place of the while, so the count is not tested again.
AddResumeWithoutTest(p) ==
    /\ pc[p] = "woken"
    /\ Accept(p, idx[p])
    /\ UNCHANGED <<active, write_idx, idx, batch, ran>>

AddResume(p) ==
    /\ pc[p] = "woken"
    /\ Add(p, idx[p])
    /\ UNCHANGED <<active, write_idx, idx, batch, ran>>

\* condvar_wait may return although nobody signalled.
SpuriousWakeup(p) ==
    /\ pc[p] = "wait"
    /\ pc' = [pc EXCEPT ![p] = "woken"]
    /\ UNCHANGED <<active, write_idx, count, buffer, idx, batch, accepted, ran>>

WakeAll == [p \in Producers |-> IF pc[p] = "wait" THEN "woken" ELSE pc[p]]

\* Mutant: the buffer that becomes writable keeps its old count.
SwapWithoutReset ==
    /\ batch.left = 0
    /\ batch' = [buf |-> write_idx, next |-> 0, left |-> count[write_idx]]
    /\ write_idx' = 1 - write_idx
    /\ pc' = IF count[write_idx] >= MaxTasks THEN WakeAll ELSE pc
    /\ UNCHANGED <<active, count, buffer, idx, accepted, ran>>

\* Mutant: the buffer that is about to be run is marked empty already.
SwapResetsBatch ==
    /\ batch.left = 0
    /\ batch' = [buf |-> write_idx, next |-> 0, left |-> count[write_idx]]
    /\ write_idx' = 1 - write_idx
    /\ count' = [i \in {0, 1} |-> 0]
    /\ pc' = IF count[write_idx] >= MaxTasks THEN WakeAll ELSE pc
    /\ UNCHANGED <<active, buffer, idx, accepted, ran>>

\* The locked part of task_dbuffer_swap_and_run.
Swap ==
    /\ batch.left = 0
    /\ batch' = [buf |-> write_idx, next |-> 0, left |-> count[write_idx]]
    /\ write_idx' = 1 - write_idx
    /\ count' = [count EXCEPT ![1 - write_idx] = 0]
    /\ pc' = IF count[write_idx] >= MaxTasks THEN WakeAll ELSE pc
    /\ UNCHANGED <<active, buffer, idx, accepted, ran>>

\* Mutant: the loop ends one task early.
RunTaskOffByOne ==
    /\ batch.left > 0
    /\ ran' = IF batch.left > 1 THEN Append(ran, buffer[batch.buf][batch.next])
                                ELSE ran
    /\ batch' = [batch EXCEPT !.next = @ + 1, !.left = @ - 1]
    /\ UNCHANGED <<active, write_idx, count, buffer, pc, idx, accepted>>

\* One turn of the loop of task_dbuffer_swap_and_run, outside the lock.
RunTask ==
    /\ batch.left > 0
    /\ ran' = Append(ran, buffer[batch.buf][batch.next])
    /\ batch' = [batch EXCEPT !.next = @ + 1, !.left = @ - 1]
    /\ UNCHANGED <<active, write_idx, count, buffer, pc, idx, accepted>>

\* Mutant: closing wakes nobody.
SetInactiveWithoutBroadcast ==
    /\ active
    /\ active' = FALSE
    /\ UNCHANGED <<write_idx, count, buffer, pc, idx, batch, accepted, ran>>

task_dbuffer_set_inactive ==
    /\ active
    /\ active' = FALSE
    /\ pc' = WakeAll
    /\ UNCHANGED <<write_idx, count, buffer, idx, batch, accepted, ran>>

Next ==
    \/ \E p \in Producers : AddEnter(p) \/ AddResume(p) \/ SpuriousWakeup(p)
    \/ Swap
    \/ RunTask
    \/ task_dbuffer_set_inactive

\* The owner of the buffer swaps in every frame and a woken thread gets the
\* lock.  Nobody has to add, close, or be woken for nothing.
Fairness ==
    /\ WF_vars(Swap)
    /\ WF_vars(RunTask)
    /\ \A p \in Producers : WF_vars(AddResume(p))

Spec == Init /\ [][Next]_vars /\ Fairness

-----------------------------------------------------------------------------
\* The tasks that the next swap would put in its batch.
Writable == {buffer[write_idx][s] : s \in 0 .. count[write_idx] - 1}

\* The tasks of the batch that have not been run.
InBatch ==
    {buffer[batch.buf][s] : s \in batch.next .. batch.next + batch.left - 1}

RanTasks == {ran[i] : i \in DOMAIN ran}

\* Tasks run in the order in which task_dbuffer_add accepted them, and none
\* twice, although producers write to a buffer they chose before they waited.
RunInOrder == \A i, j \in DOMAIN ran : i < j => ran[i] < ran[j]

\* While task_dbuffer_swap_and_run runs a batch without the lock, nobody writes
\* to a slot it has still to run: a late producer that kept the index of that
\* buffer finds its count untouched and writes behind the batch.
BatchIntact ==
    [][ \A s \in Slots :
          s >= batch.next /\ s < batch.next + batch.left
            => buffer'[batch.buf][s] = buffer[batch.buf][s] ]_vars

\* A task in the buffer that task_dbuffer_swap_and_run takes next is run.
QueuedTaskRuns ==
    \A n \in 1 .. MaxAdds : n \in Writable ~> n \in RanTasks

\* After task_dbuffer_set_inactive no producer stays in task_dbuffer_add.
ShutdownReleases == ~active ~> Blocked = {}

\* A task that task_dbuffer_add accepted is run or still queued: "run queued
\* tasks", says task_dbuffer_swap_and_run, and the login protocol leaves the
\* release of its data to a task it queues.
AcceptedTaskKept ==
    \A n \in 1 .. accepted : n \in Writable \cup InBatch \cup RanTasks
=============================================================================
