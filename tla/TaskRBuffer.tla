---------------------------- MODULE TaskRBuffer ----------------------------
(***************************************************************************)
(* The ring of tasks between the server thread and the database thread     *)
(* (task_rbuffer.c, driven by db_thread of db/database.c).                 *)
(*                                                                         *)
(* Each action is one section under rb->lock: from mutex_lock to the next  *)
(* condvar_wait or mutex_unlock, or from the return of condvar_wait.  A    *)
(* thread blocked in condvar_wait is in "full" or "empty" (the condition   *)
(* variable it waits on) until a signal, a broadcast or a spurious wakeup  *)
(* makes it "woken", that is, ready to take the lock again.  The 32-bit    *)
(* positions count modulo PosMod.                                          *)
(***************************************************************************)
EXTENDS Integers, Sequences, FiniteSets

CONSTANTS
    Producers,  \* threads that call task_rbuffer_push
    Workers,    \* threads that loop on task_rbuffer_run_one
    Tasks,      \* pairs (fp, arg)
    NoTask,     \* no task; also what malloc left in a slot
    MaxTasks,   \* max_tasks of task_rbuffer_create
    PosMod      \* 2^32 in the code

ASSUME ThreadsAssumption == Producers \cap Workers = {}
ASSUME TasksAssumption == NoTask \notin Tasks

\* The ASSERT of task_rbuffer_create makes max_tasks a power of two: a proper
\* divisor of the range of the positions.
ASSUME SizeAssumption ==
    /\ MaxTasks \in Nat \ {0}
    /\ PosMod \in Nat
    /\ PosMod > MaxTasks
    /\ PosMod % MaxTasks = 0

VARIABLES
    active, readpos, writepos, buffer,
    pc,     \* where each thread is
    arg,    \* the task a producer is pushing, or a worker is running
    ret     \* what the producer's last push returned

vars == <<active, readpos, writepos, buffer, pc, arg, ret>>

Threads == Producers \cup Workers

TypeOK ==
    /\ active \in BOOLEAN
    /\ readpos \in 0 .. PosMod - 1
    /\ writepos \in 0 .. PosMod - 1
    /\ buffer \in [0 .. MaxTasks - 1 -> Tasks \cup {NoTask}]
    /\ pc \in [Threads -> {"idle", "full", "empty", "woken", "run", "done"}]
    /\ arg \in [Threads -> Tasks \cup {NoTask}]
    /\ ret \in [Producers -> {"none", "true", "false"}]

\* task_rbuffer_create, and the start of the threads
Init ==
    /\ active = TRUE
    /\ readpos = 0
    /\ writepos = 0
    /\ buffer = [i \in 0 .. MaxTasks - 1 |-> NoTask]
    /\ pc = [th \in Threads |-> "idle"]
    /\ arg = [th \in Threads |-> NoTask]
    /\ ret = [p \in Producers |-> "none"]

-----------------------------------------------------------------------------
Occupancy == (writepos - readpos) % PosMod

task_rbuffer_empty == readpos = writepos

\* Mutant: compares with max_tasks where the code compares with index_mask.
FullOffByOne == Occupancy > MaxTasks

task_rbuffer_full == Occupancy > MaxTasks - 1

\* pos & index_mask
Slot(pos) == pos % MaxTasks

Waiting(cv) == {th \in Threads : pc[th] = cv}

\* condvar_signal wakes one waiter, if there is one.
Signal(cv) == IF Waiting(cv) = {} THEN {{}} ELSE {{th} : th \in Waiting(cv)}

Wake(S) == [th \in Threads |-> IF th \in S THEN "woken" ELSE pc[th]]

\* Mutant: the write position outgrows its 32 bits.
StoreUnwrapped(t) ==
    /\ buffer' = [buffer EXCEPT ![Slot(writepos)] = t]
    /\ writepos' = writepos + 1
    /\ UNCHANGED <<active, readpos>>

Store(t) ==
    /\ buffer' = [buffer EXCEPT ![Slot(writepos)] = t]
    /\ writepos' = (writepos + 1) % PosMod
    /\ UNCHANGED <<active, readpos>>

Load(w) ==
    /\ arg' = [arg EXCEPT ![w] = buffer[Slot(readpos)]]
    /\ readpos' = (readpos + 1) % PosMod
    /\ UNCHANGED <<active, writepos, buffer, ret>>

-----------------------------------------------------------------------------
\* The section of task_rbuffer_push that starts with mutex_lock.
PushEnter(p, t) ==
    /\ pc[p] = "idle"
    /\ \/ /\ ~active
          /\ ret' = [ret EXCEPT ![p] = "false"]
          /\ UNCHANGED <<active, readpos, writepos, buffer, pc, arg>>
       \/ /\ active
          /\ task_rbuffer_full
          /\ pc' = [pc EXCEPT ![p] = "full"]
          /\ arg' = [arg EXCEPT ![p] = t]
          /\ UNCHANGED <<active, readpos, writepos, buffer, ret>>
       \/ /\ active
          /\ ~task_rbuffer_full
          /\ \E S \in (IF task_rbuffer_empty THEN Signal("empty") ELSE {{}}) :
                pc' = Wake(S)
          /\ Store(t)
          /\ ret' = [ret EXCEPT ![p] = "true"]
          /\ arg' = arg

\* The section of task_rbuffer_push that starts when condvar_wait returns.
PushResume(p) ==
    /\ pc[p] = "woken"
    /\ \/ /\ ~active
          /\ pc' = [pc EXCEPT ![p] = "idle"]
          /\ ret' = [ret EXCEPT ![p] = "false"]
          /\ arg' = [arg EXCEPT ![p] = NoTask]
          /\ UNCHANGED <<active, readpos, writepos, buffer>>
       \/ /\ active
          /\ task_rbuffer_full
          /\ pc' = [pc EXCEPT ![p] = "full"]
          /\ UNCHANGED <<active, readpos, writepos, buffer, arg, ret>>
       \/ /\ active
          /\ ~task_rbuffer_full
          /\ pc' = [pc EXCEPT ![p] = "idle"]
          /\ Store(arg[p])
          /\ ret' = [ret EXCEPT ![p] = "true"]
          /\ arg' = [arg EXCEPT ![p] = NoTask]

\* db_thread leaves its loop, and ends, when task_rbuffer_run_one is false.
RunEnter(w) ==
    /\ pc[w] = "idle"
    /\ \/ /\ ~active
          /\ pc' = [pc EXCEPT ![w] = "done"]
          /\ UNCHANGED <<active, readpos, writepos, buffer, arg, ret>>
       \/ /\ active
          /\ task_rbuffer_empty
          /\ pc' = [pc EXCEPT ![w] = "empty"]
          /\ UNCHANGED <<active, readpos, writepos, buffer, arg, ret>>
       \/ /\ active
          /\ ~task_rbuffer_empty
          /\ \E S \in (IF task_rbuffer_full THEN Signal("full") ELSE {{}}) :
                pc' = [Wake(S) EXCEPT ![w] = "run"]
          /\ Load(w)

RunResume(w) ==
    /\ pc[w] = "woken"
    /\ \/ /\ ~active
          /\ pc' = [pc EXCEPT ![w] = "done"]
          /\ UNCHANGED <<active, readpos, writepos, buffer, arg, ret>>
       \/ /\ active
          /\ task_rbuffer_empty
          /\ pc' = [pc EXCEPT ![w] = "empty"]
          /\ UNCHANGED <<active, readpos, writepos, buffer, arg, ret>>
       \/ /\ active
          /\ ~task_rbuffer_empty
          /\ pc' = [pc EXCEPT ![w] = "run"]
          /\ Load(w)

\* fp(arg) runs without the lock and returns.
RunFinish(w) ==
    /\ pc[w] = "run"
    /\ pc' = [pc EXCEPT ![w] = "idle"]
    /\ arg' = [arg EXCEPT ![w] = NoTask]
    /\ UNCHANGED <<active, readpos, writepos, buffer, ret>>

\* Mutant: closing forgets the producers that wait for room.
SetInactiveWakesWorkersOnly ==
    /\ active
    /\ active' = FALSE
    /\ pc' = Wake(Waiting("empty"))
    /\ UNCHANGED <<readpos, writepos, buffer, arg, ret>>

task_rbuffer_set_inactive ==
    /\ active
    /\ active' = FALSE
    /\ pc' = Wake(Waiting("full") \cup Waiting("empty"))
    /\ UNCHANGED <<readpos, writepos, buffer, arg, ret>>

\* condvar_wait may return although nobody signalled.
SpuriousWakeup(th) ==
    /\ pc[th] \in {"full", "empty"}
    /\ pc' = [pc EXCEPT ![th] = "woken"]
    /\ UNCHANGED <<active, readpos, writepos, buffer, arg, ret>>

Next ==
    \/ \E p \in Producers : PushResume(p) \/ \E t \in Tasks : PushEnter(p, t)
    \/ \E w \in Workers : RunEnter(w) \/ RunResume(w) \/ RunFinish(w)
    \/ \E th \in Threads : SpuriousWakeup(th)
    \/ task_rbuffer_set_inactive

\* A thread that is ready to run runs: a worker always loops and a woken
\* thread gets the lock.  Nobody has to push, close, or be woken for nothing.
Fairness ==
    /\ \A p \in Producers : WF_vars(PushResume(p))
    /\ \A w \in Workers : WF_vars(RunEnter(w) \/ RunResume(w) \/ RunFinish(w))

Spec == Init /\ [][Next]_vars /\ Fairness

-----------------------------------------------------------------------------
\* The queued tasks, oldest first, read out of the slots between the positions.
QueueOf(r, w, b) ==
    [i \in 1 .. (w - r) % PosMod |-> b[Slot((r + i - 1) % PosMod)]]

Contents == QueueOf(readpos, writepos, buffer)

Queue == INSTANCE TaskQueue WITH
    Capacity <- MaxTasks,
    q <- Contents,
    open <- active,
    taken <- [w \in Workers |-> arg[w]]

\* Why the ring is a queue: it never holds more tasks than it has slots, so the
\* unsigned difference of the positions is the true number of queued tasks, and
\* a producer that task_rbuffer_push has blocked still holds the task it will
\* store when condvar_wait returns.
RingInv ==
    /\ TypeOK
    /\ Occupancy <= MaxTasks
    /\ \A p \in Producers :
          pc[p] \in {"full", "empty", "woken"} => arg[p] \in Tasks

\* The ring implements the closable FIFO queue of TaskQueue: whatever the
\* threads do, and however often the positions wrap, task_rbuffer_push returns
\* true exactly for the tasks it stored, no slot in use is overwritten, and
\* task_rbuffer_run_one runs the oldest task once, and none after
\* task_rbuffer_set_inactive.
ImplementsTaskQueue == Queue!Spec

\* After task_rbuffer_set_inactive no thread stays blocked in the ring: the
\* producers return from task_rbuffer_push and the workers end, so that
\* db_shutdown can join the database thread.
ShutdownReleases ==
    ~active ~> /\ \A p \in Producers : pc[p] = "idle"
               /\ \A w \in Workers : pc[w] = "done"

\* No thread sleeps beside what it waits for.  A worker blocked on rb_empty is
\* woken when there is a task ("signal the worker thread that there is a new
\* task", says task_rbuffer_push) and a producer blocked on rb_full when there is
\* room ("signal any thread waiting for there to be room in the ringbuffer", says
\* task_rbuffer_run_one).
NoLostWakeup ==
    /\ \A w \in Workers :
          (pc[w] = "empty" /\ ~task_rbuffer_empty) ~> pc[w] # "empty"
    /\ \A p \in Producers :
          (pc[p] = "full" /\ ~task_rbuffer_full) ~> pc[p] # "full"
=============================================================================
