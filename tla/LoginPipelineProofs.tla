------------------------ MODULE LoginPipelineProofs ------------------------
(***************************************************************************)
(* For every size of the two buffers and every number of logins, no login  *)
(* is lost, doubled or overtaken between the three threads, and no call of *)
(* server_exec is lost.                                                    *)
(*                                                                         *)
(* The pipeline takes steps of the ring and of the double buffer only, so  *)
(* what TaskRBufferProofs and TaskDBufferProofs prove of them is used here *)
(* for the ring and the buffer of the pipeline.                            *)
(***************************************************************************)
EXTENDS LoginPipeline, FiniteSetTheorems, TLAPS

RingP == INSTANCE TaskRBufferProofs WITH
    Producers <- {srv}, Workers <- {dbt}, Tasks <- 1 .. MaxLogins, NoTask <- 0,
    MaxTasks <- RingSize, PosMod <- 2 * RingSize,
    active <- ractive, buffer <- rbuffer, pc <- rpc

BufP == INSTANCE TaskDBufferProofs WITH
    Producers <- {dbt}, MaxTasks <- BufferSize, MaxAdds <- MaxLogins,
    active <- dactive, buffer <- dbuffer, pc <- dpc

-----------------------------------------------------------------------------
(***************************************************************************)
(* The inductive invariant.  The logins are numbered in the order in which *)
(* they were received.  Those answered, the one that the database thread   *)
(* works on, those in the ring and the one that the server thread waits to *)
(* push make up the numbers from 1 to received, in this order.             *)
(***************************************************************************)

\* The logins in the ring.
Queued == RingP!Contents

\* How many logins the database thread has taken out of the ring.
Taken == IF rpc[dbt] = "run" THEN arg[dbt] ELSE accepted

\* How many logins the server thread waits to push.
Held == IF rpc[srv] = "idle" THEN 0 ELSE 1

AnswersInOrder ==
    /\ answers \in Seq(Nat)
    /\ Len(answers) = accepted
    /\ \A i \in 1 .. accepted : answers[i] = i

QueuedInOrder == \A i \in 1 .. Len(Queued) : Queued[i] = Taken + i

\* The login being worked on is the last one answered or the next one.
Working ==
    rpc[dbt] = "run" => /\ arg[dbt] \in 1 .. MaxLogins
                        /\ arg[dbt] = accepted \/ arg[dbt] = accepted + 1

\* The database thread adds a task for the login that it works on, once.
Adding == dpc[dbt] # "idle" => rpc[dbt] = "run" /\ arg[dbt] = accepted + 1

\* The login that the server thread waits to push is the last one received.
Pushing == rpc[srv] # "idle" => arg[srv] = received

Accounted ==
    /\ received \in 0 .. MaxLogins
    /\ received = Taken + Len(Queued) + Held

OrderInv ==
    /\ ractive = TRUE
    /\ AnswersInOrder /\ QueuedInOrder
    /\ Working /\ Adding /\ Pushing /\ Accounted

PipeInv == RingP!RingInv /\ BufP!IInv /\ OrderInv

-----------------------------------------------------------------------------
(***************************************************************************)
(* The pipeline's ring and buffer satisfy the assumptions of their proofs, *)
(* and its actions are theirs.                                             *)
(***************************************************************************)

LEMMA RingAssumptions ==
    RingP!ThreadsAssumption /\ RingP!TasksAssumption /\ RingP!SizeAssumption
<1>1. RingP!ThreadsAssumption
  BY PipelineAssumption DEF RingP!ThreadsAssumption
<1>2. RingP!TasksAssumption
  BY PipelineAssumption DEF RingP!TasksAssumption
<1>3. (2 * RingSize) % RingSize = 0
  BY PipelineAssumption
<1>4. RingP!SizeAssumption
  BY <1>3, PipelineAssumption DEF RingP!SizeAssumption
<1> QED  BY <1>1, <1>2, <1>4

LEMMA BufAssumptions ==
    /\ BufP!ProducersAssumption /\ BufP!MaxTasksAssumption
    /\ BufP!MaxAddsAssumption
<1>1. IsFiniteSet({dbt})
  BY FS_Singleton
<1>2. BufP!ProducersAssumption
  BY <1>1 DEF BufP!ProducersAssumption, BufP!IsFiniteSet, IsFiniteSet
<1> QED  BY <1>2, PipelineAssumption DEF BufP!MaxTasksAssumption,
            BufP!MaxAddsAssumption

LEMMA RingActions ==
    /\ Ring!Init <=> RingP!Init
    /\ \A t : Ring!PushEnter(srv, t) <=> RingP!PushEnter(srv, t)
    /\ Ring!PushResume(srv) <=> RingP!PushResume(srv)
    /\ Ring!RunEnter(dbt) <=> RingP!RunEnter(dbt)
    /\ Ring!RunResume(dbt) <=> RingP!RunResume(dbt)
    /\ Ring!RunFinish(dbt) <=> RingP!RunFinish(dbt)
    /\ \A th : Ring!SpuriousWakeup(th) <=> RingP!SpuriousWakeup(th)
<1> USE DEF Ring!Threads, RingP!Threads, Ring!Wake, RingP!Wake,
            Ring!Signal, RingP!Signal, Ring!Waiting, RingP!Waiting,
            Ring!task_rbuffer_full, RingP!task_rbuffer_full,
            Ring!task_rbuffer_empty, RingP!task_rbuffer_empty,
            Ring!Occupancy, RingP!Occupancy, Ring!Slot, RingP!Slot,
            Ring!Store, RingP!Store, Ring!Load, RingP!Load
<1>1. Ring!Init <=> RingP!Init
  BY Zenon DEF Ring!Init, RingP!Init
<1>2. ASSUME NEW t PROVE Ring!PushEnter(srv, t) <=> RingP!PushEnter(srv, t)
  BY Zenon DEF Ring!PushEnter, RingP!PushEnter
<1>3. Ring!PushResume(srv) <=> RingP!PushResume(srv)
  BY Zenon DEF Ring!PushResume, RingP!PushResume
<1>4. Ring!RunEnter(dbt) <=> RingP!RunEnter(dbt)
  BY Zenon DEF Ring!RunEnter, RingP!RunEnter
<1>5. Ring!RunResume(dbt) <=> RingP!RunResume(dbt)
  BY Zenon DEF Ring!RunResume, RingP!RunResume
<1>6. Ring!RunFinish(dbt) <=> RingP!RunFinish(dbt)
  BY Zenon DEF Ring!RunFinish, RingP!RunFinish
<1>7. ASSUME NEW th PROVE Ring!SpuriousWakeup(th) <=> RingP!SpuriousWakeup(th)
  BY Zenon DEF Ring!SpuriousWakeup, RingP!SpuriousWakeup
<1> QED  BY <1>1, <1>2, <1>3, <1>4, <1>5, <1>6, <1>7, Zenon

LEMMA BufActions ==
    /\ Buf!Init <=> BufP!Init
    /\ Buf!AddEnter(dbt) <=> BufP!AddEnter(dbt)
    /\ Buf!AddResume(dbt) <=> BufP!AddResume(dbt)
    /\ Buf!SpuriousWakeup(dbt) <=> BufP!SpuriousWakeup(dbt)
    /\ Buf!Swap <=> BufP!Swap
    /\ Buf!RunTask <=> BufP!RunTask
<1> USE DEF Buf!Slots, BufP!Slots, Buf!Unused, BufP!Unused,
            Buf!Blocked, BufP!Blocked, Buf!WakeAll, BufP!WakeAll,
            Buf!Accept, BufP!Accept, Buf!Add, BufP!Add
<1>1. Buf!Init <=> BufP!Init
  BY Zenon DEF Buf!Init, BufP!Init
<1>2. Buf!AddEnter(dbt) <=> BufP!AddEnter(dbt)
  BY Zenon DEF Buf!AddEnter, BufP!AddEnter, Buf!Cardinality, BufP!Cardinality
<1>3. Buf!AddResume(dbt) <=> BufP!AddResume(dbt)
  BY Zenon DEF Buf!AddResume, BufP!AddResume
<1>4. Buf!SpuriousWakeup(dbt) <=> BufP!SpuriousWakeup(dbt)
  BY Zenon DEF Buf!SpuriousWakeup, BufP!SpuriousWakeup
<1>5. Buf!Swap <=> BufP!Swap
  BY Zenon DEF Buf!Swap, BufP!Swap
<1>6. Buf!RunTask <=> BufP!RunTask
  BY Zenon DEF Buf!RunTask, BufP!RunTask
<1> QED  BY <1>1, <1>2, <1>3, <1>4, <1>5, <1>6

\* Whatever the ring does, it keeps its invariant.
LEMMA RingKeeps ==
    ASSUME RingP!RingInv,
           \/ UNCHANGED ringVars
           \/ \E t \in 1 .. MaxLogins : RingP!PushEnter(srv, t)
           \/ RingP!PushResume(srv)
           \/ RingP!RunEnter(dbt) \/ RingP!RunResume(dbt)
           \/ RingP!RunFinish(dbt)
           \/ \E th \in {srv, dbt} : RingP!SpuriousWakeup(th)
    PROVE  RingP!RingInv'
<1>1. [RingP!Next]_(RingP!vars)
  BY DEF RingP!Next, RingP!vars, ringVars, RingP!Threads
<1> QED  BY <1>1, RingAssumptions, RingP!NextInv

\* Whatever the buffer does, it keeps its invariant.
LEMMA BufKeeps ==
    ASSUME BufP!IInv,
           \/ UNCHANGED bufVars
           \/ BufP!AddEnter(dbt) \/ BufP!AddResume(dbt)
           \/ BufP!SpuriousWakeup(dbt)
           \/ BufP!Swap \/ BufP!RunTask
    PROVE  BufP!IInv'
<1>1. [BufP!Next]_(BufP!vars)
  BY DEF BufP!Next, BufP!vars, bufVars
<1> QED  BY <1>1, BufAssumptions, BufP!NextIInv

-----------------------------------------------------------------------------
(***************************************************************************)
(* What the sections of the ring do to the logins.                         *)
(***************************************************************************)

\* The two threads are told apart and have their places in rpc and arg.
LEMMA RingTyped ==
    ASSUME RingP!RingInv
    PROVE  /\ srv # dbt
           /\ DOMAIN rpc = {srv, dbt} /\ DOMAIN arg = {srv, dbt}
           /\ arg[dbt] \in 0 .. MaxLogins /\ arg[srv] \in 0 .. MaxLogins
           /\ Queued \in Seq(0 .. MaxLogins)
<1>1. RingP!TypeOK
  BY DEF RingP!RingInv
<1>2. RingP!Threads = {srv, dbt} /\ (1 .. MaxLogins) \cup {0} = 0 .. MaxLogins
  BY PipelineAssumption DEF RingP!Threads
<1>3. arg \in [{srv, dbt} -> 0 .. MaxLogins] /\ DOMAIN rpc = {srv, dbt}
  BY <1>1, <1>2 DEF RingP!TypeOK
<1>4. /\ readpos \in RingP!Positions /\ writepos \in RingP!Positions
      /\ rbuffer \in [RingP!Slots -> 0 .. MaxLogins]
  BY <1>1, <1>2 DEF RingP!TypeOK, RingP!Positions, RingP!Slots
<1>5. PICK S : S = 0 .. MaxLogins
  OBVIOUS
<1>6. RingP!IsQueue(RingP!QueueOf(readpos, writepos, rbuffer), S,
                    readpos, writepos, rbuffer)
  BY <1>4, <1>5, RingAssumptions, RingP!QueueOfIsSeq
<1>7. Queued \in Seq(0 .. MaxLogins)
  BY <1>5, <1>6 DEF RingP!IsQueue, Queued, RingP!Contents
<1> QED  BY <1>3, <1>7, PipelineAssumption

\* Storing a login appends it.
LEMMA StoreQueues ==
    ASSUME RingP!RingInv, ~RingP!task_rbuffer_full,
           NEW t \in 0 .. MaxLogins, RingP!Store(t)
    PROVE  Queued' = Append(Queued, t)
<1>1. RingP!TypeOK /\ (1 .. MaxLogins) \cup {0} = 0 .. MaxLogins
  BY PipelineAssumption DEF RingP!RingInv
<1>2. PICK S : S = 0 .. MaxLogins
  OBVIOUS
<1>3. /\ readpos \in RingP!Positions /\ writepos \in RingP!Positions
      /\ rbuffer \in [RingP!Slots -> S] /\ t \in S
  BY <1>1, <1>2 DEF RingP!TypeOK, RingP!Positions, RingP!Slots
<1>4. (writepos - readpos) % (2 * RingSize) < RingSize
  BY <1>3, PipelineAssumption
     DEF RingP!task_rbuffer_full, RingP!Occupancy, RingP!Positions
<1>5. RingP!Appends(readpos, writepos, rbuffer, t)
  BY <1>3, <1>4, RingAssumptions, RingP!StoreAppends
<1> QED  BY <1>5 DEF RingP!Appends, Queued, RingP!Contents, RingP!Store

\* Loading takes the oldest one.
LEMMA LoadTakes ==
    ASSUME RingP!RingInv, ~RingP!task_rbuffer_empty, RingP!Load(dbt)
    PROVE  /\ Queued # <<>>
           /\ arg' = [arg EXCEPT ![dbt] = Head(Queued)]
           /\ Queued' = Tail(Queued)
<1>1. RingP!TypeOK
  BY DEF RingP!RingInv
<1>2. PICK S : S = (1 .. MaxLogins) \cup {0}
  OBVIOUS
<1>3. /\ readpos \in RingP!Positions /\ writepos \in RingP!Positions
      /\ rbuffer \in [RingP!Slots -> S] /\ readpos # writepos
  BY <1>1, <1>2 DEF RingP!TypeOK, RingP!Positions, RingP!Slots,
                    RingP!task_rbuffer_empty
<1>4. RingP!TakesHead(readpos, writepos, rbuffer)
  BY <1>3, RingAssumptions, RingP!LoadTakesHead
<1> QED  BY <1>4 DEF RingP!TakesHead, Queued, RingP!Contents, RingP!Load

\* Without a store or a load the queue stays.
LEMMA QueueSame ==
    ASSUME UNCHANGED <<readpos, writepos, rbuffer>>
    PROVE  Queued' = Queued
  BY DEF Queued, RingP!Contents

\* The other thread stays where it is, or is woken.
Bystander(th) ==
    /\ arg'[th] = arg[th]
    /\ rpc'[th] = "idle" <=> rpc[th] = "idle"
    /\ rpc'[th] = "run" <=> rpc[th] = "run"

\* A push that does not find the ring inactive stores its task or waits.
LEMMA PushEnterEffect ==
    ASSUME RingP!RingInv, ractive, NEW t \in 1 .. MaxLogins,
           RingP!PushEnter(srv, t)
    PROVE  /\ rpc[srv] = "idle" /\ ractive' = ractive /\ Bystander(dbt)
           /\ \/ /\ rpc'[srv] = "full" /\ arg'[srv] = t
                 /\ Queued' = Queued
              \/ /\ rpc'[srv] = "idle"
                 /\ Queued' = Append(Queued, t)
<1>1. /\ srv # dbt /\ DOMAIN rpc = {srv, dbt} /\ DOMAIN arg = {srv, dbt}
      /\ RingP!Threads = {srv, dbt}
  BY RingTyped DEF RingP!Threads
<1>2. CASE /\ RingP!task_rbuffer_full
           /\ rpc' = [rpc EXCEPT ![srv] = "full"]
           /\ arg' = [arg EXCEPT ![srv] = t]
           /\ UNCHANGED <<ractive, readpos, writepos, rbuffer, ret>>
  <2>1. Queued' = Queued
    BY <1>2, QueueSame
  <2> QED  BY <1>1, <1>2, <2>1 DEF RingP!PushEnter, Bystander
<1>3. CASE /\ ~RingP!task_rbuffer_full
           /\ \E S \in (IF RingP!task_rbuffer_empty THEN RingP!Signal("empty")
                        ELSE {{}}) : rpc' = RingP!Wake(S)
           /\ RingP!Store(t)
           /\ arg' = arg
  <2>1. t \in 0 .. MaxLogins
    BY PipelineAssumption
  <2>2. Queued' = Append(Queued, t) /\ ractive' = ractive
    BY <1>3, <2>1, StoreQueues DEF RingP!Store
  <2>3. PICK S : S \subseteq RingP!Waiting("empty") /\ rpc' = RingP!Wake(S)
    BY <1>3 DEF RingP!Signal
  <2>4. rpc[srv] = "idle"
    BY DEF RingP!PushEnter
  <2>5. rpc'[srv] = "idle" /\ Bystander(dbt)
    BY <1>1, <1>3, <2>3, <2>4 DEF RingP!Wake, RingP!Waiting, Bystander
  <2> QED  BY <2>2, <2>4, <2>5
<1> QED  BY <1>2, <1>3 DEF RingP!PushEnter

LEMMA PushResumeEffect ==
    ASSUME RingP!RingInv, ractive, RingP!PushResume(srv)
    PROVE  /\ rpc[srv] # "idle" /\ ractive' = ractive /\ Bystander(dbt)
           /\ \/ /\ rpc'[srv] = "full" /\ arg'[srv] = arg[srv]
                 /\ Queued' = Queued
              \/ /\ rpc'[srv] = "idle"
                 /\ Queued' = Append(Queued, arg[srv])
<1>1. /\ srv # dbt /\ DOMAIN rpc = {srv, dbt} /\ DOMAIN arg = {srv, dbt}
      /\ arg[srv] \in 0 .. MaxLogins
  BY RingTyped
<1>2. rpc[srv] = "woken"
  BY DEF RingP!PushResume
<1>3. CASE /\ RingP!task_rbuffer_full
           /\ rpc' = [rpc EXCEPT ![srv] = "full"]
           /\ UNCHANGED <<ractive, readpos, writepos, rbuffer, arg, ret>>
  <2>1. Queued' = Queued
    BY <1>3, QueueSame
  <2> QED  BY <1>1, <1>2, <1>3, <2>1 DEF Bystander
<1>4. CASE /\ ~RingP!task_rbuffer_full
           /\ rpc' = [rpc EXCEPT ![srv] = "idle"]
           /\ RingP!Store(arg[srv])
           /\ arg' = [arg EXCEPT ![srv] = 0]
  <2>1. Queued' = Append(Queued, arg[srv]) /\ ractive' = ractive
    BY <1>1, <1>4, StoreQueues DEF RingP!Store
  <2> QED  BY <1>1, <1>2, <1>4, <2>1 DEF Bystander
<1> QED  BY <1>3, <1>4 DEF RingP!PushResume

LEMMA RunEffect ==
    ASSUME RingP!RingInv, ractive, RingP!RunEnter(dbt) \/ RingP!RunResume(dbt)
    PROVE  /\ rpc[dbt] # "run" /\ ractive' = ractive /\ Bystander(srv)
           /\ \/ /\ rpc'[dbt] = "empty" /\ Queued' = Queued
              \/ /\ rpc'[dbt] = "run" /\ Queued # <<>>
                 /\ arg'[dbt] = Head(Queued) /\ Queued' = Tail(Queued)
<1>1. /\ srv # dbt /\ DOMAIN rpc = {srv, dbt} /\ DOMAIN arg = {srv, dbt}
      /\ RingP!Threads = {srv, dbt}
  BY RingTyped DEF RingP!Threads
<1>2. rpc[dbt] = "idle" \/ rpc[dbt] = "woken"
  BY DEF RingP!RunEnter, RingP!RunResume
<1> DEFINE
      Sleeps == /\ rpc' = [rpc EXCEPT ![dbt] = "empty"]
                /\ UNCHANGED <<ractive, readpos, writepos, rbuffer, arg, ret>>
      Wakes == \E S : /\ S \subseteq RingP!Waiting("full")
                      /\ rpc' = [RingP!Wake(S) EXCEPT ![dbt] = "run"]
      Loads == ~RingP!task_rbuffer_empty /\ RingP!Load(dbt)
<1>3. CASE Sleeps
  <2>1. Queued' = Queued
    BY <1>3, QueueSame
  <2> QED  BY <1>1, <1>2, <1>3, <2>1 DEF Bystander
<1>4. CASE Wakes /\ Loads
  <2>1. /\ Queued # <<>> /\ arg' = [arg EXCEPT ![dbt] = Head(Queued)]
        /\ Queued' = Tail(Queued) /\ ractive' = ractive
    BY <1>4, LoadTakes DEF RingP!Load
  <2>2. arg'[dbt] = Head(Queued) /\ arg'[srv] = arg[srv]
    BY <1>1, <2>1
  <2>3. PICK S : /\ S \subseteq RingP!Waiting("full")
                 /\ rpc' = [RingP!Wake(S) EXCEPT ![dbt] = "run"]
    BY <1>4
  <2>4. rpc'[dbt] = "run" /\ Bystander(srv)
    BY <1>1, <2>2, <2>3 DEF RingP!Wake, RingP!Waiting, Bystander
  <2> QED  BY <1>2, <2>1, <2>2, <2>4
<1>5. CASE rpc' = [rpc EXCEPT ![dbt] = "run"] /\ Loads
  <2>1. /\ Queued # <<>> /\ arg' = [arg EXCEPT ![dbt] = Head(Queued)]
        /\ Queued' = Tail(Queued) /\ ractive' = ractive
    BY <1>5, LoadTakes DEF RingP!Load
  <2>2. arg'[dbt] = Head(Queued) /\ arg'[srv] = arg[srv]
    BY <1>1, <2>1
  <2>3. rpc'[dbt] = "run" /\ Bystander(srv)
    BY <1>1, <1>5, <2>2 DEF Bystander
  <2> QED  BY <1>2, <2>1, <2>2, <2>3
<1>6. RingP!RunEnter(dbt) => Sleeps \/ (Wakes /\ Loads)
  BY Zenon DEF RingP!RunEnter, RingP!Signal
<1> QED  BY <1>3, <1>4, <1>5, <1>6 DEF RingP!RunResume

-----------------------------------------------------------------------------
(***************************************************************************)
(* The order of the logins is kept by every step.                          *)
(***************************************************************************)

\* The number of answers is a number.
LEMMA AcceptedNat == ASSUME BufP!IInv PROVE accepted \in 0 .. MaxLogins
  BY DEF BufP!IInv, BufP!TypeOK

\* What is Taken and Held depends on where the threads are.
LEMMA SameTaken ==
    ASSUME Bystander(dbt), accepted' = accepted PROVE Taken' = Taken
  BY DEF Bystander, Taken

LEMMA SameHeld == ASSUME Bystander(srv) PROVE Held' = Held
  BY DEF Bystander, Held

\* Steps that move no login: wakeups, turns of the loops, the run of a batch.
LEMMA NothingMoves ==
    ASSUME OrderInv, Bystander(srv), Bystander(dbt), Queued' = Queued,
           dpc'[dbt] = "idle" <=> dpc[dbt] = "idle",
           UNCHANGED <<ractive, answers, accepted, received>>
    PROVE  OrderInv'
<1>1. Taken' = Taken /\ Held' = Held
  BY SameTaken, SameHeld
<1>2. AnswersInOrder' /\ QueuedInOrder' /\ Accounted' /\ ractive' = TRUE
  BY <1>1 DEF OrderInv, AnswersInOrder, QueuedInOrder, Accounted
<1>3. Working' /\ Adding' /\ Pushing'
  BY DEF OrderInv, Working, Adding, Pushing, Bystander
<1> QED  BY <1>2, <1>3 DEF OrderInv

\* Appending to the logins in the ring.
LEMMA AppendQueued ==
    ASSUME NEW q \in Seq(0 .. MaxLogins), NEW t \in 0 .. MaxLogins, NEW k \in Nat,
           \A i \in 1 .. Len(q) : q[i] = k + i, t = k + Len(q) + 1
    PROVE  /\ Len(Append(q, t)) = Len(q) + 1
           /\ \A i \in 1 .. Len(q) + 1 : Append(q, t)[i] = k + i
  OBVIOUS

\* Taking the oldest login out of the ring.
LEMMA TailQueued ==
    ASSUME NEW q \in Seq(0 .. MaxLogins), NEW k \in Nat, q # <<>>,
           \A i \in 1 .. Len(q) : q[i] = k + i
    PROVE  /\ Head(q) = k + 1 /\ Len(q) \in Nat \ {0}
           /\ Len(Tail(q)) = Len(q) - 1
           /\ \A i \in 1 .. Len(q) - 1 : Tail(q)[i] = (k + 1) + i
<1>1. Len(q) \in Nat \ {0} /\ Head(q) = q[1]
  OBVIOUS
<1>2. Len(Tail(q)) = Len(q) - 1 /\ \A i \in 1 .. Len(q) - 1 : Tail(q)[i] = q[i + 1]
  OBVIOUS
<1>3. ASSUME NEW i \in 1 .. Len(q) - 1 PROVE Tail(q)[i] = (k + 1) + i
  <2>1. i + 1 \in 1 .. Len(q)
    BY <1>1
  <2>2. Tail(q)[i] = k + (i + 1)
    BY <1>2, <2>1
  <2> QED  BY <2>2
<1> QED  BY <1>1, <1>2, <1>3

\* A login reaches the ring, or the server thread waits with it.
LEMMA PushOrder ==
    ASSUME RingP!RingInv, BufP!IInv, OrderInv, Bystander(dbt),
           UNCHANGED <<ractive, answers, accepted, dpc>>,
           received' \in 0 .. MaxLogins,
           received' = Taken + Len(Queued) + 1,
           \/ /\ rpc'[srv] = "full" /\ arg'[srv] = received'
              /\ Queued' = Queued
           \/ /\ rpc'[srv] = "idle"
              /\ Queued' = Append(Queued, received')
    PROVE  OrderInv'
<1>1. Taken' = Taken
  BY SameTaken
<1>2. PICK q \in Seq(0 .. MaxLogins), k \in Nat, n \in 0 .. MaxLogins :
        /\ q = Queued /\ k = Taken /\ n = received' /\ Len(q) \in Nat
        /\ \A i \in 1 .. Len(q) : q[i] = k + i
  <2>1. Queued \in Seq(0 .. MaxLogins)
    BY RingTyped
  <2>2. Taken \in Nat
    BY RingTyped, AcceptedNat DEF Taken
  <2>3. Len(Queued) \in Nat
    BY <2>1
  <2>4. \A i \in 1 .. Len(Queued) : Queued[i] = Taken + i
    BY DEF OrderInv, QueuedInOrder
  <2> QED  BY <2>1, <2>2, <2>3, <2>4, Zenon
<1>3. AnswersInOrder' /\ Working' /\ Adding' /\ ractive' = TRUE
  BY DEF OrderInv, AnswersInOrder, Working, Adding, Bystander
<1>4. CASE rpc'[srv] = "full" /\ arg'[srv] = received' /\ Queued' = Queued
  <2>1. Held' = 1 /\ Pushing'
    BY <1>4 DEF Held, Pushing
  <2>2. QueuedInOrder' /\ Accounted'
    BY <1>1, <1>2, <1>4, <2>1 DEF QueuedInOrder, Accounted
  <2> QED  BY <1>3, <2>1, <2>2 DEF OrderInv
<1>5. CASE rpc'[srv] = "idle" /\ Queued' = Append(Queued, received')
  <2>1. Held' = 0 /\ Pushing'
    BY <1>5 DEF Held, Pushing
  <2>2. PICK q1 : q1 = Queued' /\ q1 = Append(q, n)
    BY <1>2, <1>5
  <2>3. n = k + Len(q) + 1
    BY <1>2
  <2>4. /\ Len(q1) = Len(q) + 1
        /\ \A i \in 1 .. Len(q) + 1 : q1[i] = k + i
    <3>1. /\ Len(Append(q, n)) = Len(q) + 1
          /\ \A i \in 1 .. Len(q) + 1 : Append(q, n)[i] = k + i
      BY <1>2, <2>3, AppendQueued
    <3> QED  BY <2>2, <3>1
  <2>5. QueuedInOrder'
    BY <1>1, <1>2, <2>2, <2>4 DEF QueuedInOrder
  <2>6. received' = k + (Len(q) + 1) + 0
    BY <1>2, <2>3
  <2>7. Accounted'
    BY <1>1, <1>2, <2>1, <2>2, <2>4, <2>6 DEF Accounted
  <2> QED  BY <1>3, <2>1, <2>5, <2>7 DEF OrderInv
<1> QED  BY <1>4, <1>5

\* The database thread takes the oldest login, or finds none.
LEMMA TakeOrder ==
    ASSUME RingP!RingInv, BufP!IInv, OrderInv, Bystander(srv),
           rpc[dbt] # "run",
           UNCHANGED <<ractive, answers, accepted, dpc, received>>,
           \/ rpc'[dbt] = "empty" /\ Queued' = Queued
           \/ /\ rpc'[dbt] = "run" /\ Queued # <<>>
              /\ arg'[dbt] = Head(Queued) /\ Queued' = Tail(Queued)
    PROVE  OrderInv'
<1>1. Held' = Held /\ Held \in Nat
  BY SameHeld DEF Held
<1>2. PICK q \in Seq(0 .. MaxLogins), k \in 0 .. MaxLogins :
        /\ q = Queued /\ k = accepted /\ k = Taken /\ Len(q) \in Nat
        /\ \A i \in 1 .. Len(q) : q[i] = k + i
  <2>1. Queued \in Seq(0 .. MaxLogins) /\ accepted \in 0 .. MaxLogins
    BY RingTyped, AcceptedNat
  <2>2. Taken = accepted
    BY DEF Taken
  <2>3. Len(Queued) \in Nat
    BY <2>1
  <2>4. \A i \in 1 .. Len(Queued) : Queued[i] = Taken + i
    BY DEF OrderInv, QueuedInOrder
  <2> QED  BY <2>1, <2>2, <2>3, <2>4, Zenon
<1>3. AnswersInOrder' /\ Pushing' /\ ractive' = TRUE
  BY DEF OrderInv, AnswersInOrder, Pushing, Bystander
<1>4. dpc'[dbt] = "idle"
  BY DEF OrderInv, Adding
<1>5. received \in 0 .. MaxLogins /\ received = k + Len(q) + Held
  BY <1>2 DEF OrderInv, Accounted
<1>6. CASE rpc'[dbt] = "empty" /\ Queued' = Queued
  <2>1. Taken' = k
    BY <1>2, <1>6 DEF Taken
  <2>2. QueuedInOrder' /\ Accounted'
    BY <1>1, <1>2, <1>5, <1>6, <2>1 DEF QueuedInOrder, Accounted
  <2>3. Working' /\ Adding'
    BY <1>4, <1>6 DEF Working, Adding
  <2> QED  BY <1>3, <2>2, <2>3 DEF OrderInv
<1>7. CASE /\ rpc'[dbt] = "run" /\ Queued # <<>>
           /\ arg'[dbt] = Head(Queued) /\ Queued' = Tail(Queued)
  <2>1. /\ Head(q) = k + 1 /\ Len(q) \in Nat \ {0}
        /\ Len(Tail(q)) = Len(q) - 1
        /\ \A i \in 1 .. Len(q) - 1 : Tail(q)[i] = (k + 1) + i
    BY <1>2, <1>7, TailQueued
  <2>2. PICK q1 : q1 = Queued' /\ q1 = Tail(q)
    BY <1>2, <1>7
  <2>3. arg'[dbt] = k + 1 /\ Taken' = k + 1
    BY <1>2, <1>7, <2>1 DEF Taken
  <2>4. QueuedInOrder'
    BY <2>1, <2>2, <2>3 DEF QueuedInOrder
  <2>5. received = (k + 1) + (Len(q) - 1) + Held /\ k + 1 \in 1 .. MaxLogins
    <3>1. PICK l \in Nat \ {0}, h \in Nat : l = Len(q) /\ h = Held
      BY <1>1, <2>1
    <3>2. received = k + l + h
      BY <1>5, <3>1
    <3>3. received = (k + 1) + (l - 1) + h /\ k + 1 \in 1 .. MaxLogins
      BY <1>5, <3>2, PipelineAssumption
    <3> QED  BY <3>1, <3>3
  <2>6. Accounted'
    BY <1>1, <1>5, <2>1, <2>2, <2>3, <2>5 DEF Accounted
  <2>7. Working' /\ Adding'
    BY <1>2, <1>4, <2>3, <2>5 DEF Working, Adding
  <2> QED  BY <1>3, <2>4, <2>6, <2>7 DEF OrderInv
<1> QED  BY <1>6, <1>7

\* The login being worked on has been answered exactly if it is the last one.
LEMMA AnsweredIs ==
    ASSUME BufP!IInv, OrderInv, rpc[dbt] = "run"
    PROVE  /\ Answered(arg[dbt]) => arg[dbt] = accepted
           /\ ~Answered(arg[dbt]) => arg[dbt] = accepted + 1
<1>1. /\ accepted \in Nat /\ DOMAIN answers = 1 .. accepted
      /\ \A i \in 1 .. accepted : answers[i] = i
  BY AcceptedNat DEF OrderInv, AnswersInOrder
<1>2. arg[dbt] \in Nat \ {0} /\ (arg[dbt] = accepted \/ arg[dbt] = accepted + 1)
  BY DEF OrderInv, Working
<1>3. CASE arg[dbt] = accepted
  <2>1. accepted \in DOMAIN answers /\ answers[accepted] = arg[dbt]
    BY <1>1, <1>2, <1>3
  <2> QED  BY <1>3, <2>1 DEF Answered
<1>4. CASE arg[dbt] = accepted + 1
  <2>1. ~Answered(arg[dbt])
    BY <1>1, <1>4 DEF Answered
  <2> QED  BY <1>4, <2>1
<1> QED  BY <1>2, <1>3, <1>4

\* The database thread is done with a login.
LEMMA FinishOrder ==
    ASSUME RingP!RingInv, BufP!IInv, OrderInv, Answered(arg[dbt]),
           RingP!RunFinish(dbt), UNCHANGED <<answers, accepted, dpc, received>>
    PROVE  OrderInv'
<1>1. /\ srv # dbt /\ DOMAIN rpc = {srv, dbt} /\ DOMAIN arg = {srv, dbt}
  BY RingTyped
<1>2. /\ rpc[dbt] = "run" /\ rpc'[dbt] = "idle" /\ ractive' = ractive
      /\ Bystander(srv) /\ UNCHANGED <<readpos, writepos, rbuffer>>
  BY <1>1 DEF RingP!RunFinish, Bystander
<1>3. arg[dbt] = accepted /\ accepted \in Nat
  BY <1>2, AnsweredIs, AcceptedNat
<1>4. Taken' = Taken /\ Held' = Held /\ Queued' = Queued
  BY <1>2, <1>3, SameHeld, QueueSame DEF Taken
<1>5. AnswersInOrder' /\ QueuedInOrder' /\ Accounted' /\ ractive' = TRUE
  BY <1>2, <1>4 DEF OrderInv, AnswersInOrder, QueuedInOrder, Accounted
<1>6. dpc'[dbt] = "idle"
  BY <1>3 DEF OrderInv, Adding
<1>7. Working' /\ Adding' /\ Pushing'
  BY <1>2, <1>6 DEF OrderInv, Working, Adding, Pushing, Bystander
<1> QED  BY <1>5, <1>7 DEF OrderInv

\* The answer to a login is accepted, or the database thread waits with it.
LEMMA AnswerOrder ==
    ASSUME RingP!RingInv, BufP!IInv, OrderInv, rpc[dbt] = "run",
           arg[dbt] = accepted + 1,
           UNCHANGED <<ringVars, received>>, RecordAnswer,
           \/ accepted' = accepted
           \/ accepted' = accepted + 1 /\ dpc'[dbt] = "idle"
    PROVE  OrderInv'
<1>1. /\ Queued' = Queued /\ Held' = Held /\ ractive' = TRUE
      /\ rpc' = rpc /\ arg' = arg
  BY QueueSame DEF ringVars, Held, OrderInv
<1>2. Taken' = Taken
  BY <1>1 DEF Taken
<1>3. QueuedInOrder' /\ Accounted' /\ Pushing'
  BY <1>1, <1>2 DEF OrderInv, QueuedInOrder, Accounted, Pushing
<1>4. accepted \in Nat
  BY AcceptedNat
<1>5. CASE accepted' = accepted
  <2>1. answers' = answers
    BY <1>4, <1>5 DEF RecordAnswer
  <2>2. AnswersInOrder' /\ Working' /\ Adding'
    BY <1>1, <1>5, <2>1 DEF OrderInv, AnswersInOrder, Working, Adding
  <2> QED  BY <1>1, <1>3, <2>2 DEF OrderInv
<1>6. CASE accepted' = accepted + 1 /\ dpc'[dbt] = "idle"
  <2>1. answers' = Append(answers, accepted + 1)
    BY <1>4, <1>6 DEF RecordAnswer
  <2>2. AnswersInOrder'
    BY <1>4, <1>6, <2>1 DEF OrderInv, AnswersInOrder
  <2>3. Working' /\ Adding'
    BY <1>1, <1>4, <1>6 DEF OrderInv, Working, Adding
  <2> QED  BY <1>1, <1>3, <2>2, <2>3 DEF OrderInv
<1> QED  BY <1>5, <1>6

-----------------------------------------------------------------------------
(***************************************************************************)
(* The pipeline keeps the invariant.                                       *)
(***************************************************************************)

LEMMA InitPipeInv == Init => PipeInv
<1> SUFFICES ASSUME Init PROVE PipeInv
  OBVIOUS
<1>1. RingP!Init /\ BufP!Init
  BY RingActions, BufActions DEF Init, db_init
<1>2. RingP!RingInv
  BY <1>1, RingAssumptions, RingP!InitInv
<1>3. BufP!IInv
  BY <1>1, BufAssumptions, BufP!InitIInv
<1>4. /\ rpc[srv] = "idle" /\ rpc[dbt] = "idle" /\ dpc[dbt] = "idle"
      /\ ractive = TRUE /\ accepted = 0 /\ received = 0 /\ answers = <<>>
      /\ readpos = 0 /\ writepos = 0
  BY <1>1 DEF RingP!Init, RingP!Threads, BufP!Init, Init
<1>5. Len(Queued) = 0
  <2>1. (0 - 0) % (2 * RingSize) = 0
    BY PipelineAssumption
  <2> QED  BY <1>4, <2>1 DEF Queued, RingP!Contents, RingP!QueueOf
<1>6. Taken = 0 /\ Held = 0
  BY <1>4 DEF Taken, Held
<1>7. QueuedInOrder /\ Accounted
  BY <1>4, <1>5, <1>6, PipelineAssumption DEF QueuedInOrder, Accounted
<1>8. AnswersInOrder /\ Working /\ Adding /\ Pushing
  BY <1>4 DEF AnswersInOrder, Working, Adding, Pushing
<1> QED  BY <1>2, <1>3, <1>4, <1>7, <1>8 DEF PipeInv, OrderInv

\* The turns of the loops that leave both buffers alone.
LEMMA LoopPipeInv ==
    ASSUME PipeInv, UNCHANGED <<ringVars, bufVars, answers, received>>
    PROVE  PipeInv'
<1>1. RingP!RingInv' /\ BufP!IInv'
  BY RingKeeps, BufKeeps DEF PipeInv
<1>2. /\ UNCHANGED <<ractive, rpc, arg, readpos, writepos, rbuffer>>
      /\ UNCHANGED <<answers, accepted, received, dpc>>
  BY DEF ringVars, bufVars
<1>3. OrderInv'
  BY <1>2, NothingMoves, QueueSame DEF PipeInv, Bystander
<1> QED  BY <1>1, <1>3 DEF PipeInv

\* The server thread swaps the buffers and runs a batch.
LEMMA RoutinePipeInv ==
    ASSUME PipeInv, BufP!Swap \/ BufP!RunTask \/ BufP!SpuriousWakeup(dbt),
           UNCHANGED <<ringVars, answers, received>>
    PROVE  PipeInv'
<1>1. RingP!RingInv' /\ BufP!IInv'
  BY RingKeeps, BufKeeps DEF PipeInv
<1>2. UNCHANGED <<ractive, rpc, arg, readpos, writepos, rbuffer>>
  BY DEF ringVars
<1>3. dpc \in [{dbt} -> {"idle", "wait", "woken"}]
  BY DEF PipeInv, BufP!IInv, BufP!TypeOK
<1>4. accepted' = accepted /\ (dpc'[dbt] = "idle" <=> dpc[dbt] = "idle")
  BY <1>3 DEF BufP!Swap, BufP!RunTask, BufP!SpuriousWakeup, BufP!WakeAll
<1>5. OrderInv'
  BY <1>2, <1>4, NothingMoves, QueueSame DEF PipeInv, Bystander
<1> QED  BY <1>1, <1>5 DEF PipeInv

LEMMA ReceivePipeInv ==
    ASSUME PipeInv, ReceiveLogin PROVE PipeInv'
<1>1. RingP!RingInv /\ BufP!IInv /\ OrderInv
  BY DEF PipeInv
<1>2. PICK n : n = received + 1
  OBVIOUS
<1>3. received \in 0 .. MaxLogins /\ received < MaxLogins
  BY <1>1 DEF OrderInv, Accounted, ReceiveLogin
<1>4. n \in 1 .. MaxLogins /\ n \in 0 .. MaxLogins
  BY <1>2, <1>3, PipelineAssumption
<1>5. RingP!PushEnter(srv, n) /\ received' = n /\ UNCHANGED <<bufVars, answers>>
  BY <1>2, RingActions DEF ReceiveLogin
<1>6. RingP!RingInv' /\ BufP!IInv'
  BY <1>1, <1>4, <1>5, RingKeeps, BufKeeps
<1>7. /\ rpc[srv] = "idle" /\ ractive' = ractive /\ Bystander(dbt)
      /\ \/ /\ rpc'[srv] = "full" /\ arg'[srv] = n
            /\ Queued' = Queued
         \/ /\ rpc'[srv] = "idle"
            /\ Queued' = Append(Queued, n)
  BY <1>1, <1>4, <1>5, PushEnterEffect DEF OrderInv
<1>8. n = Taken + Len(Queued) + 1
  <2>1. Held = 0 /\ received = Taken + Len(Queued) + Held
    BY <1>1, <1>7 DEF Held, OrderInv, Accounted
  <2>2. Taken \in Nat /\ Queued \in Seq(0 .. MaxLogins)
    BY <1>1, RingTyped, AcceptedNat DEF Taken
  <2>3. Len(Queued) \in Nat
    BY <2>2
  <2> QED  BY <1>2, <2>1, <2>2, <2>3
<1>9. UNCHANGED <<ractive, answers, accepted, dpc>>
  BY <1>5, <1>7 DEF bufVars
<1>10. OrderInv'
  BY <1>1, <1>4, <1>5, <1>7, <1>8, <1>9, PushOrder
<1> QED  BY <1>6, <1>10 DEF PipeInv

LEMMA ResumePushPipeInv ==
    ASSUME PipeInv, ResumePush PROVE PipeInv'
<1>1. RingP!RingInv /\ BufP!IInv /\ OrderInv
  BY DEF PipeInv
<1>2. RingP!PushResume(srv) /\ UNCHANGED <<bufVars, answers, received>>
  BY RingActions DEF ResumePush, loopVars
<1>3. RingP!RingInv' /\ BufP!IInv'
  BY <1>1, <1>2, RingKeeps, BufKeeps
<1>4. /\ rpc[srv] # "idle" /\ ractive' = ractive /\ Bystander(dbt)
      /\ \/ /\ rpc'[srv] = "full" /\ arg'[srv] = arg[srv]
            /\ Queued' = Queued
         \/ /\ rpc'[srv] = "idle"
            /\ Queued' = Append(Queued, arg[srv])
  BY <1>1, <1>2, PushResumeEffect DEF OrderInv
<1>5. /\ arg[srv] = received' /\ received' = Taken + Len(Queued) + 1
      /\ received' \in 0 .. MaxLogins
  BY <1>1, <1>2, <1>4 DEF OrderInv, Pushing, Accounted, Held
<1>6. UNCHANGED <<ractive, answers, accepted, dpc>>
  BY <1>2, <1>4 DEF bufVars
<1>7. OrderInv'
  BY <1>1, <1>4, <1>5, <1>6, PushOrder
<1> QED  BY <1>3, <1>7 DEF PipeInv

LEMMA TakePipeInv ==
    ASSUME PipeInv, TakeLogin PROVE PipeInv'
<1>1. RingP!RingInv /\ BufP!IInv /\ OrderInv
  BY DEF PipeInv
<1>2. /\ RingP!RunEnter(dbt) \/ RingP!RunResume(dbt)
      /\ UNCHANGED <<bufVars, answers, received>>
  BY RingActions DEF TakeLogin, loopVars
<1>3. RingP!RingInv' /\ BufP!IInv'
  BY <1>1, <1>2, RingKeeps, BufKeeps
<1>4. /\ rpc[dbt] # "run" /\ ractive' = ractive /\ Bystander(srv)
      /\ \/ rpc'[dbt] = "empty" /\ Queued' = Queued
         \/ /\ rpc'[dbt] = "run" /\ Queued # <<>>
            /\ arg'[dbt] = Head(Queued) /\ Queued' = Tail(Queued)
  BY <1>1, <1>2, RunEffect DEF OrderInv
<1>5. UNCHANGED <<ractive, answers, accepted, dpc, received>>
  BY <1>2, <1>4 DEF bufVars
<1>6. OrderInv'
  BY <1>1, <1>4, <1>5, TakeOrder
<1> QED  BY <1>3, <1>6 DEF PipeInv

\* task_dbuffer_add counts what it accepts, and returns then.
LEMMA AddEffect ==
    ASSUME BufP!IInv, BufP!AddEnter(dbt) \/ BufP!AddResume(dbt)
    PROVE  \/ accepted' = accepted
           \/ accepted' = accepted + 1 /\ dpc'[dbt] = "idle"
<1>1. dpc \in [{dbt} -> {"idle", "wait", "woken"}]
  BY DEF BufP!IInv, BufP!TypeOK
<1> QED  BY <1>1 DEF BufP!AddEnter, BufP!AddResume, BufP!Add, BufP!Accept

LEMMA AnswerPipeInv ==
    ASSUME PipeInv, AnswerLogin PROVE PipeInv'
<1>1. RingP!RingInv /\ BufP!IInv /\ OrderInv
  BY DEF PipeInv
<1>2. CASE UNCHANGED <<bufVars, answers>>
  BY <1>2, LoopPipeInv DEF AnswerLogin
<1>3. CASE Buf!AddEnter(dbt) /\ RecordAnswer
  <2>1. BufP!AddEnter(dbt) /\ UNCHANGED <<ringVars, received>>
    BY <1>3, BufActions DEF AnswerLogin
  <2>2. RingP!RingInv' /\ BufP!IInv'
    BY <1>1, <2>1, RingKeeps, BufKeeps
  <2>3. rpc[dbt] = "run" /\ arg[dbt] = accepted + 1
    BY <1>1, AnsweredIs DEF AnswerLogin
  <2>4. OrderInv'
    BY <1>1, <1>3, <2>1, <2>3, AddEffect, AnswerOrder
  <2> QED  BY <2>2, <2>4 DEF PipeInv
<1> QED  BY <1>2, <1>3 DEF AnswerLogin

LEMMA ResumeAnswerPipeInv ==
    ASSUME PipeInv, ResumeAnswer PROVE PipeInv'
<1>1. RingP!RingInv /\ BufP!IInv /\ OrderInv
  BY DEF PipeInv
<1>2. BufP!AddResume(dbt) /\ RecordAnswer /\ UNCHANGED <<ringVars, received>>
  BY BufActions DEF ResumeAnswer
<1>3. RingP!RingInv' /\ BufP!IInv'
  BY <1>1, <1>2, RingKeeps, BufKeeps
<1>4. rpc[dbt] = "run" /\ arg[dbt] = accepted + 1
  BY <1>1, <1>2 DEF BufP!AddResume, OrderInv, Adding
<1>5. OrderInv'
  BY <1>1, <1>2, <1>4, AddEffect, AnswerOrder
<1> QED  BY <1>3, <1>5 DEF PipeInv

LEMMA FinishPipeInv ==
    ASSUME PipeInv, FinishLogin PROVE PipeInv'
<1>1. RingP!RingInv /\ BufP!IInv /\ OrderInv
  BY DEF PipeInv
<1>2. /\ RingP!RunFinish(dbt) /\ Answered(arg[dbt])
      /\ UNCHANGED <<bufVars, answers, received>>
  BY RingActions DEF FinishLogin, loopVars
<1>3. RingP!RingInv' /\ BufP!IInv'
  BY <1>1, <1>2, RingKeeps, BufKeeps
<1>4. UNCHANGED <<answers, accepted, dpc, received>>
  BY <1>2 DEF bufVars
<1>5. OrderInv'
  BY <1>1, <1>2, <1>4, FinishOrder
<1> QED  BY <1>3, <1>5 DEF PipeInv

LEMMA WakePipeInv ==
    ASSUME PipeInv, SpuriousWakeup PROVE PipeInv'
<1>1. RingP!RingInv /\ BufP!IInv /\ OrderInv
  BY DEF PipeInv
<1>2. ASSUME NEW th \in {srv, dbt}, RingP!SpuriousWakeup(th),
             UNCHANGED <<bufVars, answers, received>>
      PROVE  PipeInv'
  <2>1. RingP!RingInv' /\ BufP!IInv'
    BY <1>1, <1>2, RingKeeps, BufKeeps
  <2>2. /\ srv # dbt /\ DOMAIN rpc = {srv, dbt} /\ DOMAIN arg = {srv, dbt}
    BY <1>1, RingTyped
  <2>3. /\ Bystander(srv) /\ Bystander(dbt)
        /\ UNCHANGED <<ractive, readpos, writepos, rbuffer>>
    BY <1>2, <2>2 DEF RingP!SpuriousWakeup, Bystander
  <2>4. UNCHANGED <<answers, accepted, received, dpc>>
    BY <1>2 DEF bufVars
  <2>5. OrderInv'
    BY <1>1, <2>3, <2>4, NothingMoves, QueueSame
  <2> QED  BY <2>1, <2>5 DEF PipeInv
<1>3. CASE Buf!SpuriousWakeup(dbt) /\ UNCHANGED <<ringVars, loopVars>>
  BY <1>3, BufActions, RoutinePipeInv DEF loopVars
<1> QED  BY <1>2, <1>3, RingActions DEF SpuriousWakeup, loopVars

LEMMA NextPipeInv == PipeInv /\ [Next]_vars => PipeInv'
<1> SUFFICES ASSUME PipeInv, [Next]_vars PROVE PipeInv'
  OBVIOUS
<1>1. CASE game_init \/ game_run \/ TakeTask \/ MaintenanceDone \/ WorkReturns
           \/ UNCHANGED vars
  <2>1. UNCHANGED <<ringVars, bufVars, answers, received>>
    BY <1>1 DEF game_init, game_run, TakeTask, MaintenanceDone, WorkReturns,
                vars, loopVars
  <2> QED  BY <2>1, LoopPipeInv
<1>2. CASE MaintenanceSwap \/ MaintenanceRun
  <2>1. /\ BufP!Swap \/ BufP!RunTask
        /\ UNCHANGED <<ringVars, answers, received>>
    BY <1>2, BufActions DEF MaintenanceSwap, MaintenanceRun, loopVars
  <2> QED  BY <2>1, RoutinePipeInv
<1>3. CASE ReceiveLogin
  BY <1>3, ReceivePipeInv
<1>4. CASE ResumePush
  BY <1>4, ResumePushPipeInv
<1>5. CASE TakeLogin
  BY <1>5, TakePipeInv
<1>6. CASE AnswerLogin
  BY <1>6, AnswerPipeInv
<1>7. CASE ResumeAnswer
  BY <1>7, ResumeAnswerPipeInv
<1>8. CASE FinishLogin
  BY <1>8, FinishPipeInv
<1>9. CASE SpuriousWakeup
  BY <1>9, WakePipeInv
<1> QED  BY <1>1, <1>2, <1>3, <1>4, <1>5, <1>6, <1>7, <1>8, <1>9
         DEF Next, ServerThread, DatabaseThread

\* Every login received is in exactly one place, and the places hold the logins
\* in the order of their arrival: answered, with the database thread, in the
\* ring, or with the server thread.  None is lost, doubled or overtaken, for
\* every size of the ring and of the double buffer.
THEOREM LoginsAccounted == Spec => [](RingP!RingInv /\ BufP!IInv /\ OrderInv)
<1>1. PipeInv => RingP!RingInv /\ BufP!IInv /\ OrderInv
  BY DEF PipeInv
<1> QED  BY <1>1, InitPipeInv, NextPipeInv, PTL DEF Spec

\* A login is resolved at most once, and logins in the order of their arrival:
\* the n-th answer accepted is the answer to the n-th login, and the double
\* buffer runs the answers in the order in which it accepted them.
THEOREM LoginsResolvedInOrder == Spec => []ResolvedOnceInOrder
<1>1. ASSUME PipeInv PROVE ResolvedOnceInOrder
  <2> SUFFICES ASSUME NEW i \in DOMAIN ran, NEW j \in DOMAIN ran, i < j
               PROVE  answers[ran[i]] < answers[ran[j]]
    BY DEF ResolvedOnceInOrder
  <2>1. /\ ran[i] \in 1 .. accepted /\ ran[j] \in 1 .. accepted
        /\ ran[i] < ran[j]
    BY <1>1 DEF PipeInv, BufP!IInv, BufP!RanAccepted, BufP!RunInOrder
  <2> QED  BY <1>1, <2>1 DEF PipeInv, OrderInv, AnswersInOrder
<1> QED  BY <1>1, InitPipeInv, NextPipeInv, PTL DEF Spec

\* No call of server_exec is lost, also not one that comes while server_thread
\* runs the routine of an earlier call.
THEOREM RequestsKept == Spec => []RequestKept
<1>1. Init => RequestKept
  BY DEF Init, RequestKept
<1>2. RequestKept /\ [Next]_vars => RequestKept'
  <2> SUFFICES ASSUME RequestKept, [Next]_vars PROVE RequestKept'
    OBVIOUS
  <2>1. CASE game_run
    BY <2>1 DEF game_run, server_exec, RequestKept
  <2>2. CASE TakeTask
    BY <2>2 DEF TakeTask, RequestKept
  <2>3. CASE UNCHANGED <<task_fp, owed>>
    BY <2>3 DEF RequestKept
  <2> QED  BY <2>1, <2>2, <2>3 DEF Next, ServerThread, DatabaseThread, vars,
              loopVars, game_init, MaintenanceSwap, MaintenanceRun,
              MaintenanceDone, ResumePush, WorkReturns, ReceiveLogin, TakeLogin,
              AnswerLogin, ResumeAnswer, FinishLogin, SpuriousWakeup
<1> QED  BY <1>1, <1>2, PTL DEF Spec
==============================================================================
