--------------------------- MODULE LoginPipeline ---------------------------
(***************************************************************************)
(* The three threads together, on the way of a login request: the server   *)
(* thread (server/server.c) hands it to the database thread through the    *)
(* ring of tasks (db_add_task), the database thread queues the answer in   *)
(* the double buffer of server tasks (game_add_server_task), and the game  *)
(* thread (game.c) has the server thread run those tasks once a frame      *)
(* (server_exec).                                                          *)
(*                                                                         *)
(* The ring and the double buffer are the modules TaskRBuffer and          *)
(* TaskDBuffer with their threads filled in.  server_internal_work returns *)
(* after an interrupt, or when GetQueuedCompletionStatusEx times out, so   *)
(* it may return at any time and always does.  The shutdown of the         *)
(* program, which its main loop never reaches, is left out.                *)
(***************************************************************************)
EXTENDS Integers, Sequences

CONSTANTS
    srv, dbt,       \* the server thread and the database thread
    RingSize,       \* MAX_DB_TASKS
    BufferSize,     \* MAX_SERVER_TASKS
    MaxLogins       \* bound: login requests received

ASSUME PipelineAssumption ==
    /\ srv # dbt
    /\ RingSize \in Nat \ {0} /\ BufferSize \in Nat \ {0} /\ MaxLogins \in Nat

VARIABLES
    ractive, readpos, writepos, rbuffer, rpc, arg, ret,         \* dbtasks
    dactive, write_idx, count, dbuffer, dpc, idx, batch,        \* server_tasks
    accepted, ran,
    spc,        \* where the server thread is in its loop
    task_fp,    \* the slot of server_exec
    frame,      \* parity of the frames of the game thread
    up,         \* game_init has created server_tasks
    crashed,    \* server_tasks was used before
    received,   \* login requests received
    answers,    \* logins in the order of their answers in server_tasks
    owed        \* ghost: a server_exec since the routine was last started

ringVars == <<ractive, readpos, writepos, rbuffer, rpc, arg, ret>>
bufVars == <<dactive, write_idx, count, dbuffer, dpc, idx, batch, accepted, ran>>
loopVars == <<spc, task_fp, frame, up, crashed, received, answers, owed>>
vars == <<ringVars, bufVars, loopVars>>

Ring == INSTANCE TaskRBuffer WITH
    Producers <- {srv}, Workers <- {dbt}, Tasks <- 1 .. MaxLogins, NoTask <- 0,
    MaxTasks <- RingSize, PosMod <- 2 * RingSize,
    active <- ractive, buffer <- rbuffer, pc <- rpc

Buf == INSTANCE TaskDBuffer WITH
    Producers <- {dbt}, MaxTasks <- BufferSize, MaxAdds <- MaxLogins,
    active <- dactive, buffer <- dbuffer, pc <- dpc

db_init == Ring!Init

server_init == spc = "top" /\ task_fp = "null"

\* main: the threads start one after the other, the game thread last.
Init ==
    /\ db_init
    /\ server_init
    /\ Buf!Init
    /\ frame = 0
    /\ up = FALSE
    /\ crashed = FALSE
    /\ received = 0
    /\ answers = <<>>
    /\ owed = FALSE

-----------------------------------------------------------------------------
(***************************************************************************)
(* The game thread.                                                        *)
(***************************************************************************)

game_init ==
    /\ ~up
    /\ up' = TRUE
    /\ UNCHANGED <<ringVars, bufVars, spc, task_fp, frame, crashed, received,
                   answers, owed>>

\* server_maintenance_routine is put in the slot.
server_exec ==
    /\ task_fp' = "routine"
    /\ owed' = TRUE

\* A turn of the loop.
game_run ==
    /\ up /\ ~crashed
    /\ server_exec
    /\ frame' = 1 - frame
    /\ UNCHANGED <<ringVars, bufVars, spc, up, crashed, received, answers>>

-----------------------------------------------------------------------------
(***************************************************************************)
(* The server thread.                                                      *)
(***************************************************************************)

\* The locked part of server_thread.
TakeTask ==
    /\ spc = "top" /\ ~crashed
    /\ spc' = IF task_fp = "routine" THEN "swap" ELSE "work"
    /\ task_fp' = "null"
    /\ owed' = (owed /\ task_fp = "null")
    /\ UNCHANGED <<ringVars, bufVars, frame, up, crashed, received, answers>>

\* server_maintenance_routine: swap, then run the batch.
MaintenanceSwap ==
    /\ spc = "swap" /\ ~crashed
    /\ Buf!Swap
    /\ spc' = "batch"
    /\ UNCHANGED <<ringVars, task_fp, frame, up, crashed, received, answers, owed>>

MaintenanceRun ==
    /\ spc = "batch" /\ ~crashed
    /\ Buf!RunTask
    /\ UNCHANGED <<ringVars, loopVars>>

\* Mutant: server_thread empties the slot when the task has run.
MaintenanceDoneEmptiesSlot ==
    /\ spc = "batch" /\ ~crashed
    /\ batch.left = 0
    /\ spc' = "work"
    /\ task_fp' = "null"
    /\ UNCHANGED <<ringVars, bufVars, frame, up, crashed, received, answers, owed>>

MaintenanceDone ==
    /\ spc = "batch" /\ ~crashed
    /\ batch.left = 0
    /\ spc' = "work"
    /\ UNCHANGED <<ringVars, bufVars, task_fp, frame, up, crashed, received, answers,
                   owed>>

\* A login message arrives in server_internal_work: on_recv_first_message of
\* the login protocol calls db_add_task, which may block.
ReceiveLogin ==
    /\ spc = "work" /\ ~crashed
    /\ received < MaxLogins
    /\ received' = received + 1
    /\ Ring!PushEnter(srv, received + 1)
    /\ UNCHANGED <<bufVars, spc, task_fp, frame, up, crashed, answers, owed>>

ResumePush ==
    /\ ~crashed
    /\ Ring!PushResume(srv)
    /\ UNCHANGED <<bufVars, loopVars>>

WorkReturns ==
    /\ spc = "work" /\ ~crashed
    /\ rpc[srv] = "idle"
    /\ spc' = "top"
    /\ UNCHANGED <<ringVars, bufVars, task_fp, frame, up, crashed, received, answers,
                   owed>>

-----------------------------------------------------------------------------
(***************************************************************************)
(* The database thread: db_thread runs database_resolve_login, which ends  *)
(* in game_add_server_task, which may block.                               *)
(***************************************************************************)

Answered(n) == \E i \in DOMAIN answers : answers[i] = n

\* The add that was under way has been accepted.
RecordAnswer ==
    answers' = IF accepted' > accepted THEN Append(answers, arg[dbt]) ELSE answers

TakeLogin ==
    /\ ~crashed
    /\ Ring!RunEnter(dbt) \/ Ring!RunResume(dbt)
    /\ UNCHANGED <<bufVars, loopVars>>

\* server_tasks is a null pointer until game_init has run.
AnswerLogin ==
    /\ ~crashed
    /\ rpc[dbt] = "run" /\ ~Answered(arg[dbt])
    /\ \/ /\ up
          /\ Buf!AddEnter(dbt)
          /\ RecordAnswer
          /\ UNCHANGED crashed
       \/ /\ ~up
          /\ crashed' = TRUE
          /\ UNCHANGED <<bufVars, answers>>
    /\ UNCHANGED <<ringVars, spc, task_fp, frame, up, received, owed>>

ResumeAnswer ==
    /\ ~crashed
    /\ Buf!AddResume(dbt)
    /\ RecordAnswer
    /\ UNCHANGED <<ringVars, spc, task_fp, frame, up, crashed, received, owed>>

FinishLogin ==
    /\ ~crashed
    /\ Answered(arg[dbt])
    /\ Ring!RunFinish(dbt)
    /\ UNCHANGED <<bufVars, loopVars>>

SpuriousWakeup ==
    /\ ~crashed
    /\ \/ /\ \E th \in {srv, dbt} : Ring!SpuriousWakeup(th)
          /\ UNCHANGED <<bufVars, loopVars>>
       \/ /\ Buf!SpuriousWakeup(dbt)
          /\ UNCHANGED <<ringVars, loopVars>>

ServerThread ==
    \/ TakeTask \/ MaintenanceSwap \/ MaintenanceRun \/ MaintenanceDone
    \/ ResumePush \/ WorkReturns

DatabaseThread == TakeLogin \/ AnswerLogin \/ ResumeAnswer \/ FinishLogin

Next ==
    \/ game_init \/ game_run
    \/ ServerThread \/ ReceiveLogin
    \/ DatabaseThread
    \/ SpuriousWakeup

\* Every thread runs when it can.  No login has to arrive, and nobody has to be
\* woken for nothing.
Fairness ==
    /\ WF_vars(game_init)
    /\ WF_vars(game_run)
    /\ WF_vars(ServerThread)
    /\ WF_vars(DatabaseThread)

Spec == Init /\ [][Next]_vars /\ Fairness

-----------------------------------------------------------------------------
\* internal_resolve_login runs at most once for a login, and in the order in
\* which the requests were received, across both queues and three threads.
ResolvedOnceInOrder ==
    \A i, j \in DOMAIN ran : i < j => answers[ran[i]] < answers[ran[j]]

\* No call of server_exec is lost: until server_thread starts the routine, the
\* slot holds it, also when the call comes while the routine runs.
RequestKept == owed => task_fp = "routine"

Resolved(n) == \E i \in DOMAIN ran : answers[ran[i]] = n

Congested == rpc[srv] = "full" \/ dpc[dbt] = "wait"

\* If nobody ever has to wait for room, the wakeups of the ring and the turns of
\* the loops suffice: each login received is resolved, as the lifetime comment in
\* protocol_login.c says ("ends at `internal_resolve_login` regardless").
LoginResolved ==
    []~Congested =>
        \A n \in 1 .. MaxLogins : received = n ~> (Resolved(n) \/ crashed)

\* protocol_login.c: the lifetime of a login_info "ends at
\* `internal_resolve_login` regardless", so the threads never all wait: the
\* server thread for room in the ring, which the database thread makes, and the
\* database thread for room in the buffer, which the server thread makes.
NoCircularWait ==
    ~ /\ rpc[srv] = "full" /\ Ring!task_rbuffer_full
      /\ dpc[dbt] = "wait" /\ count[idx[dbt]] >= BufferSize
=============================================================================
