-------------------------- MODULE TaskDBufferProofs --------------------------
(***************************************************************************)
(* For every number of producers and slots and for every bound on the      *)
(* adds, the double buffer of TaskDBuffer is type correct, runs tasks in   *)
(* the order in which it accepted them and leaves the batch that it runs   *)
(* outside the lock untouched.                                             *)
(***************************************************************************)
EXTENDS TaskDBuffer, FiniteSetTheorems, TLAPS

-----------------------------------------------------------------------------
(***************************************************************************)
(* The inductive invariant.                                                *)
(***************************************************************************)

\* Every call under way may still be accepted.
AddsBounded == accepted + Cardinality(Blocked) <= MaxAdds

\* A batch is run from the buffer that is not written by new calls, and lies
\* below the count of that buffer, where a late producer would write.
BatchBelowCount ==
    batch.left > 0 => /\ batch.buf = 1 - write_idx
                      /\ batch.next + batch.left <= count[batch.buf]

\* The slots below the count hold accepted tasks in the order of acceptance.
SlotsAscend ==
    \A i \in {0, 1} :
        /\ \A s \in 0 .. count[i] - 1 : buffer[i][s] \in 1 .. accepted
        /\ \A s, t \in 0 .. count[i] - 1 : s < t => buffer[i][s] < buffer[i][t]

\* Where the batch and the writable buffer are.
BatchSlots == batch.next .. batch.next + batch.left - 1
WriteSlots == 0 .. count[write_idx] - 1

\* What has run was accepted before what is in the batch ...
RanBeforeBatch ==
    \A k \in DOMAIN ran : \A s \in BatchSlots : ran[k] < buffer[batch.buf][s]

\* ... and before what the next swap takes, ...
RanBeforeWritable ==
    \A k \in DOMAIN ran : \A s \in WriteSlots : ran[k] < buffer[write_idx][s]

\* ... and the batch was accepted before what the next swap takes.
BatchBeforeWritable ==
    \A s \in BatchSlots : \A t \in WriteSlots :
        buffer[batch.buf][s] < buffer[write_idx][t]

\* A task that has run was accepted.
RanAccepted == \A k \in DOMAIN ran : ran[k] \in 1 .. accepted

IInv ==
    /\ TypeOK
    /\ AddsBounded
    /\ BatchBelowCount
    /\ SlotsAscend
    /\ RanBeforeBatch
    /\ RanBeforeWritable
    /\ BatchBeforeWritable
    /\ RanAccepted
    /\ RunInOrder

-----------------------------------------------------------------------------
(***************************************************************************)
(* The calls under way.                                                    *)
(***************************************************************************)

\* The number of producers inside task_dbuffer_add is a number.
LEMMA BlockedFinite == IsFiniteSet(Blocked) /\ Cardinality(Blocked) \in Nat
<1>1. Blocked \in SUBSET Producers
  BY DEF Blocked
<1> QED  BY <1>1, ProducersAssumption, FS_Subset, FS_CardinalityType

\* Waking everybody leaves every call under way.
LEMMA WakeAllBlocks ==
    ASSUME TypeOK, pc' = WakeAll \/ pc' = pc
    PROVE  /\ pc' \in [Producers -> {"idle", "wait", "woken"}]
           /\ Blocked' = Blocked
  BY DEF TypeOK, WakeAll, Blocked

-----------------------------------------------------------------------------
(***************************************************************************)
(* task_dbuffer_create establishes the invariant.                          *)
(***************************************************************************)

LEMMA InitIInv == Init => IInv
<1> SUFFICES ASSUME Init PROVE IInv
  OBVIOUS
<1> USE MaxTasksAssumption, MaxAddsAssumption DEF Init
<1>1. TypeOK
  BY DEF TypeOK, Slots, Unused
<1>2. AddsBounded
  <2>1. Blocked = {}
    BY DEF Blocked
  <2> QED  BY <2>1, FS_EmptySet DEF AddsBounded
<1>3. BatchBelowCount /\ SlotsAscend
  BY DEF BatchBelowCount, SlotsAscend
<1>4. RanBeforeBatch /\ RanBeforeWritable /\ RanAccepted /\ RunInOrder
  BY DEF RanBeforeBatch, RanBeforeWritable, RanAccepted, RunInOrder
<1>5. BatchBeforeWritable
  BY DEF BatchBeforeWritable, BatchSlots
<1> QED  BY <1>1, <1>2, <1>3, <1>4, <1>5 DEF IInv

-----------------------------------------------------------------------------
(***************************************************************************)
(* task_dbuffer_add.                                                       *)
(***************************************************************************)

\* A call that stores its task keeps the invariant, whichever buffer it chose
\* and however long it slept: in the writable buffer the task is the newest,
\* in the other one it lies behind the batch.
LEMMA AcceptIInv ==
    ASSUME IInv, NEW p \in Producers, NEW i \in {0, 1},
           accepted + Cardinality(Blocked \cup {p}) <= MaxAdds,
           count[i] < MaxTasks, Accept(p, i),
           idx' \in [Producers -> {0, 1}],
           UNCHANGED <<active, write_idx, batch, ran>>
    PROVE  IInv'
<1> USE MaxTasksAssumption, MaxAddsAssumption
<1>1. /\ Cardinality(Blocked \ {p}) \in Nat
      /\ Cardinality(Blocked \cup {p}) = Cardinality(Blocked \ {p}) + 1
  <2>1. IsFiniteSet(Blocked \ {p}) /\ Cardinality(Blocked \ {p}) \in Nat
    BY BlockedFinite, FS_RemoveElement, FS_CardinalityType
  <2>2. Blocked \cup {p} = (Blocked \ {p}) \cup {p}
    OBVIOUS
  <2> QED  BY <2>1, <2>2, FS_AddElement
<1>2. Blocked' = Blocked \ {p}
  BY DEF IInv, TypeOK, Accept, Blocked
<1>3. accepted + 1 \in 1 .. MaxAdds
  BY <1>1 DEF IInv, TypeOK
<1>4. TypeOK'
  <2>1. count[i] \in Slots
    BY DEF IInv, TypeOK, Slots
  <2>2. buffer' \in [{0, 1} -> [Slots -> 0 .. MaxAdds]]
    BY <1>3, <2>1 DEF IInv, TypeOK, Accept
  <2>3. count' \in [{0, 1} -> 0 .. MaxTasks]
    BY DEF IInv, TypeOK, Accept
  <2>4. pc' \in [Producers -> {"idle", "wait", "woken"}]
    BY DEF IInv, TypeOK, Accept
  <2> QED  BY <1>3, <2>2, <2>3, <2>4 DEF IInv, TypeOK, Accept
<1>5. AddsBounded'
  BY <1>1, <1>2 DEF AddsBounded, Accept, IInv, TypeOK
<1>6. /\ \A j \in {0, 1} : \A s \in 0 .. count[j] - 1 :
           buffer'[j][s] = buffer[j][s]
      /\ \A j \in {0, 1} : j # i => count'[j] = count[j]
      /\ count'[i] = count[i] + 1
      /\ buffer'[i][count[i]] = accepted + 1
      /\ accepted' = accepted + 1
      /\ count \in [{0, 1} -> 0 .. MaxTasks]
      /\ count' \in [{0, 1} -> 0 .. MaxTasks]
      /\ batch \in [buf : {0, 1}, next : 0 .. MaxTasks, left : 0 .. MaxTasks]
      /\ write_idx \in {0, 1}
      /\ accepted \in Nat
  <2>1. /\ count \in [{0, 1} -> 0 .. MaxTasks]
        /\ buffer \in [{0, 1} -> [Slots -> 0 .. MaxAdds]]
        /\ count[i] \in Slots
    <3>1. /\ count \in [{0, 1} -> 0 .. MaxTasks]
          /\ buffer \in [{0, 1} -> [Slots -> 0 .. MaxAdds]]
      BY DEF IInv, TypeOK
    <3> QED  BY <3>1 DEF Slots
  <2>2. ASSUME NEW j \in {0, 1}, NEW s \in 0 .. count[j] - 1
        PROVE  buffer'[j][s] = buffer[j][s]
    BY <2>1, <2>2 DEF Accept
  <2>3. buffer'[i][count[i]] = accepted + 1
    BY <2>1 DEF Accept
  <2>4. /\ \A j \in {0, 1} : j # i => count'[j] = count[j]
        /\ count'[i] = count[i] + 1
        /\ accepted' = accepted + 1
    BY <2>1 DEF Accept
  <2>5. /\ count' \in [{0, 1} -> 0 .. MaxTasks]
        /\ batch \in [buf : {0, 1}, next : 0 .. MaxTasks, left : 0 .. MaxTasks]
        /\ write_idx \in {0, 1}
        /\ accepted \in Nat
    BY <1>4 DEF IInv, TypeOK
  <2> QED  BY <2>1, <2>2, <2>3, <2>4, <2>5
<1>7. BatchBelowCount'
  BY <1>6 DEF IInv, BatchBelowCount
<1>8. SlotsAscend'
  <2>1. ASSUME NEW j \in {0, 1}, NEW s \in 0 .. count'[j] - 1
        PROVE  \/ /\ s \in 0 .. count[j] - 1
                  /\ buffer'[j][s] = buffer[j][s]
                  /\ buffer[j][s] \in 1 .. accepted
               \/ s = count[j] /\ buffer'[j][s] = accepted + 1
    BY <1>6, <2>1 DEF IInv, SlotsAscend
  <2>2. ASSUME NEW j \in {0, 1}, NEW s \in 0 .. count'[j] - 1
        PROVE  buffer'[j][s] \in 1 .. accepted'
    BY <1>6, <2>1, <2>2
  <2>3. ASSUME NEW j \in {0, 1}, NEW s \in 0 .. count'[j] - 1,
               NEW t \in 0 .. count'[j] - 1, s < t
        PROVE  buffer'[j][s] < buffer'[j][t]
    <3>1. /\ s \in 0 .. count[j] - 1
          /\ buffer'[j][s] = buffer[j][s]
          /\ buffer[j][s] \in 1 .. accepted
      BY <1>6, <2>1, <2>3
    <3>2. CASE t = count[j] /\ buffer'[j][t] = accepted + 1
      BY <1>6, <3>1, <3>2
    <3>3. CASE t \in 0 .. count[j] - 1 /\ buffer'[j][t] = buffer[j][t]
      BY <2>3, <3>1, <3>3 DEF IInv, SlotsAscend
    <3> QED  BY <2>1, <3>2, <3>3
  <2> QED  BY <2>2, <2>3 DEF SlotsAscend
<1>9. \A s \in BatchSlots : buffer'[batch.buf][s] = buffer[batch.buf][s]
  BY <1>6 DEF IInv, BatchBelowCount, BatchSlots
<1>10. BatchSlots' = BatchSlots
  BY DEF BatchSlots
<1>11. \A t \in WriteSlots' :
         \/ t \in WriteSlots /\ buffer'[write_idx][t] = buffer[write_idx][t]
         \/ buffer'[write_idx][t] = accepted + 1
  BY <1>6 DEF WriteSlots
<1>12. RanBeforeBatch'
  BY <1>9, <1>10 DEF IInv, RanBeforeBatch
<1>13. RanAccepted /\ RanAccepted'
  BY <1>6 DEF IInv, RanAccepted
<1>14. RanBeforeWritable'
  BY <1>6, <1>11, <1>13 DEF IInv, RanBeforeWritable, RanAccepted
<1>15. \A s \in BatchSlots : buffer[batch.buf][s] \in 1 .. accepted
  BY <1>6 DEF IInv, BatchBelowCount, SlotsAscend, BatchSlots
<1>16. BatchBeforeWritable'
  BY <1>6, <1>9, <1>10, <1>11, <1>15 DEF IInv, BatchBeforeWritable
<1>17. RunInOrder'
  BY DEF IInv, RunInOrder
<1> QED  BY <1>4, <1>5, <1>7, <1>8, <1>12, <1>13, <1>14, <1>16, <1>17 DEF IInv

\* A step that stores and runs nothing keeps the invariant.
LEMMA NothingStored ==
    ASSUME IInv,
           pc' \in [Producers -> {"idle", "wait", "woken"}],
           idx' \in [Producers -> {0, 1}],
           active' \in BOOLEAN,
           accepted + Cardinality(Blocked') <= MaxAdds,
           UNCHANGED <<write_idx, count, buffer, batch, accepted, ran>>
    PROVE  IInv'
<1>1. TypeOK'
  BY DEF IInv, TypeOK
<1>2. AddsBounded'
  BY DEF AddsBounded
<1>3. BatchBelowCount' /\ SlotsAscend'
  BY DEF IInv, BatchBelowCount, SlotsAscend
<1>4. RanBeforeBatch' /\ RanBeforeWritable' /\ BatchBeforeWritable'
  BY DEF IInv, RanBeforeBatch, RanBeforeWritable, BatchBeforeWritable,
         BatchSlots, WriteSlots
<1>5. RanAccepted' /\ RunInOrder'
  BY DEF IInv, RanAccepted, RunInOrder
<1> QED  BY <1>1, <1>2, <1>3, <1>4, <1>5 DEF IInv

\* The body of task_dbuffer_add, for a call that is counted among those under
\* way.
LEMMA AddIInv ==
    ASSUME IInv, NEW p \in Producers, NEW i \in {0, 1}, Add(p, i),
           accepted + Cardinality(Blocked \cup {p}) <= MaxAdds,
           idx' \in [Producers -> {0, 1}],
           UNCHANGED <<active, write_idx, batch, ran>>
    PROVE  IInv'
<1>1. CASE count[i] < MaxTasks /\ Accept(p, i)
  BY <1>1, AcceptIInv
<1>2. CASE /\ pc' = [pc EXCEPT ![p] = "wait"] \/ pc' = [pc EXCEPT ![p] = "idle"]
           /\ UNCHANGED <<buffer, count, accepted>>
  <2>1. pc' \in [Producers -> {"idle", "wait", "woken"}]
    BY <1>2 DEF IInv, TypeOK
  <2>2. Blocked' \in SUBSET (Blocked \cup {p})
    BY <1>2 DEF IInv, TypeOK, Blocked
  <2>3. /\ IsFiniteSet(Blocked \cup {p})
        /\ Cardinality(Blocked \cup {p}) \in Nat
    BY BlockedFinite, FS_AddElement, FS_CardinalityType
  <2>4. /\ Cardinality(Blocked') \in Nat
        /\ Cardinality(Blocked') <= Cardinality(Blocked \cup {p})
    BY <2>2, <2>3, FS_Subset, FS_CardinalityType
  <2>5. accepted + Cardinality(Blocked') <= MaxAdds
    BY <2>3, <2>4, MaxAddsAssumption DEF IInv, TypeOK
  <2>6. active' \in BOOLEAN
    BY DEF IInv, TypeOK
  <2> QED  BY <1>2, <2>1, <2>5, <2>6, NothingStored
<1> QED  BY <1>1, <1>2 DEF Add

-----------------------------------------------------------------------------
(***************************************************************************)
(* task_dbuffer_swap_and_run and task_dbuffer_set_inactive.                *)
(***************************************************************************)

\* The swap makes the writable buffer the batch and empties the other one:
\* nothing is left of the tasks that late producers wrote behind a batch.
LEMMA SwapIInv == IInv /\ Swap => IInv'
<1> SUFFICES ASSUME IInv, Swap PROVE IInv'
  OBVIOUS
<1> USE MaxTasksAssumption, MaxAddsAssumption
<1>1. pc' \in [Producers -> {"idle", "wait", "woken"}] /\ Blocked' = Blocked
  BY WakeAllBlocks DEF IInv, Swap
<1>2. /\ write_idx \in {0, 1} /\ write_idx' \in {0, 1}
      /\ write_idx = 1 - write_idx'
      /\ batch'.buf = write_idx /\ batch'.next = 0
      /\ batch'.left = count[write_idx]
      /\ count[write_idx] \in 0 .. MaxTasks
      /\ count'[write_idx] = count[write_idx]
      /\ count'[write_idx'] = 0
      /\ buffer' = buffer /\ accepted' = accepted /\ ran' = ran
  BY DEF IInv, TypeOK, Swap
<1>3. TypeOK'
  BY <1>1 DEF IInv, TypeOK, Swap
<1>4. AddsBounded'
  BY <1>1 DEF IInv, AddsBounded, Swap
<1>5. BatchBelowCount'
  BY <1>2 DEF BatchBelowCount
<1>6. SlotsAscend'
  BY <1>2 DEF IInv, SlotsAscend
<1>7. BatchSlots' = WriteSlots /\ WriteSlots' = {}
  BY <1>2 DEF BatchSlots, WriteSlots
<1>8. RanBeforeBatch' /\ RanBeforeWritable' /\ BatchBeforeWritable'
  BY <1>2, <1>7 DEF IInv, RanBeforeBatch, RanBeforeWritable, BatchBeforeWritable
<1>9. RanAccepted' /\ RunInOrder'
  BY <1>2 DEF IInv, RanAccepted, RunInOrder
<1> QED  BY <1>3, <1>4, <1>5, <1>6, <1>8, <1>9 DEF IInv

\* The oldest task of the batch runs.
LEMMA RunTaskIInv == IInv /\ RunTask => IInv'
<1> SUFFICES ASSUME IInv, RunTask PROVE IInv'
  OBVIOUS
<1> USE MaxTasksAssumption, MaxAddsAssumption
<1> DEFINE n == buffer[batch.buf][batch.next]
<1>1. /\ batch \in [buf : {0, 1}, next : 0 .. MaxTasks, left : 0 .. MaxTasks]
      /\ batch.left > 0
      /\ count[batch.buf] \in 0 .. MaxTasks
      /\ batch.next + batch.left <= count[batch.buf]
      /\ batch'.buf = batch.buf
      /\ batch'.next = batch.next + 1 /\ batch'.left = batch.left - 1
      /\ batch' \in [buf : {0, 1}, next : 0 .. MaxTasks, left : 0 .. MaxTasks]
  <2>1. /\ batch \in [buf : {0, 1}, next : 0 .. MaxTasks, left : 0 .. MaxTasks]
        /\ batch.left > 0
        /\ count[batch.buf] \in 0 .. MaxTasks
        /\ batch.next + batch.left <= count[batch.buf]
    BY DEF IInv, TypeOK, BatchBelowCount, RunTask
  <2>2. /\ batch'.buf = batch.buf
        /\ batch'.next = batch.next + 1 /\ batch'.left = batch.left - 1
    BY <2>1 DEF RunTask
  <2>3. batch' = [buf |-> batch.buf, next |-> batch.next + 1,
                  left |-> batch.left - 1]
    BY <2>1 DEF RunTask
  <2>4. batch' \in [buf : {0, 1}, next : 0 .. MaxTasks, left : 0 .. MaxTasks]
    BY <2>1, <2>3
  <2> QED  BY <2>1, <2>2, <2>4
<1>2. batch.next \in BatchSlots /\ BatchSlots' \subseteq BatchSlots
  BY <1>1 DEF BatchSlots
<1>3. n \in 1 .. accepted /\ n \in 1 .. MaxAdds
  BY <1>1, SMTT(40) DEF IInv, TypeOK, SlotsAscend
<1>4. \A s \in BatchSlots' : n < buffer[batch.buf][s]
  BY <1>1 DEF IInv, SlotsAscend, BatchSlots
<1>5. /\ ran \in Seq(1 .. MaxAdds)
      /\ ran' = Append(ran, n)
      /\ UNCHANGED <<active, write_idx, count, buffer, pc, idx, accepted>>
  BY DEF IInv, TypeOK, RunTask
<1> HIDE DEF n
<1>6. /\ ran' \in Seq(1 .. MaxAdds)
      /\ \A k \in DOMAIN ran' :
           \/ k \in DOMAIN ran /\ ran'[k] = ran[k]
           \/ k = Len(ran) + 1 /\ ran'[k] = n
      /\ \A k \in DOMAIN ran : ran[k] \in 1 .. MaxAdds /\ k < Len(ran) + 1
      /\ DOMAIN ran \subseteq Nat /\ Len(ran) \in Nat
  BY <1>3, <1>5
<1>7. TypeOK'
  BY <1>1, <1>5, <1>6 DEF IInv, TypeOK
<1>8. AddsBounded'
  BY <1>5 DEF IInv, AddsBounded, Blocked
<1>9. BatchBelowCount'
  BY <1>1, <1>5 DEF IInv, BatchBelowCount
<1>10. SlotsAscend'
  BY <1>5 DEF IInv, SlotsAscend
<1>11. \A k \in DOMAIN ran : ran[k] < n
  BY <1>2 DEF IInv, RanBeforeBatch, n
<1>12. RanBeforeBatch'
  BY <1>1, <1>2, <1>4, <1>5, <1>6 DEF IInv, RanBeforeBatch
<1>13. WriteSlots' = WriteSlots
  BY <1>5 DEF WriteSlots
<1>14. \A t \in WriteSlots : n < buffer[write_idx][t]
  BY <1>2 DEF IInv, BatchBeforeWritable, n
<1>15. RanBeforeWritable'
  BY <1>5, <1>6, <1>13, <1>14 DEF IInv, RanBeforeWritable
<1>16. BatchBeforeWritable'
  BY <1>1, <1>2, <1>5, <1>13 DEF IInv, BatchBeforeWritable
<1>17. RanAccepted'
  BY <1>3, <1>5, <1>6 DEF IInv, RanAccepted
<1>18. RunInOrder'
  <2> SUFFICES ASSUME NEW i \in DOMAIN ran', NEW j \in DOMAIN ran', i < j
               PROVE  ran'[i] < ran'[j]
    BY DEF RunInOrder
  <2>1. i \in DOMAIN ran /\ ran'[i] = ran[i]
    BY <1>6
  <2> QED  BY <1>6, <1>11, <2>1 DEF IInv, RunInOrder
<1> QED  BY <1>7, <1>8, <1>9, <1>10, <1>12, <1>15, <1>16, <1>17, <1>18 DEF IInv

-----------------------------------------------------------------------------
(***************************************************************************)
(* The invariant is inductive.                                             *)
(***************************************************************************)

LEMMA NextIInv == IInv /\ [Next]_vars => IInv'
<1> SUFFICES ASSUME IInv, [Next]_vars PROVE IInv'
  OBVIOUS
<1> USE MaxAddsAssumption
<1>1. ASSUME NEW p \in Producers, AddEnter(p) PROVE IInv'
  <2>1. write_idx \in {0, 1} /\ idx' \in [Producers -> {0, 1}]
    BY <1>1 DEF IInv, TypeOK, AddEnter
  <2>2. Cardinality(Blocked \cup {p}) = Cardinality(Blocked) + 1
    BY <1>1, BlockedFinite, FS_AddElement DEF AddEnter, Blocked
  <2>3. accepted + Cardinality(Blocked \cup {p}) <= MaxAdds
    BY <1>1, <2>2, BlockedFinite DEF IInv, TypeOK, AddEnter
  <2> QED  BY <1>1, <2>1, <2>3, AddIInv DEF AddEnter
<1>2. ASSUME NEW p \in Producers, AddResume(p) PROVE IInv'
  <2>1. idx[p] \in {0, 1} /\ idx' \in [Producers -> {0, 1}]
    BY <1>2 DEF IInv, TypeOK, AddResume
  <2>2. Blocked \cup {p} = Blocked
    BY <1>2 DEF AddResume, Blocked
  <2>3. accepted + Cardinality(Blocked \cup {p}) <= MaxAdds
    BY <2>2 DEF IInv, AddsBounded
  <2> QED  BY <1>2, <2>1, <2>3, AddIInv DEF AddResume
<1>3. ASSUME NEW p \in Producers, SpuriousWakeup(p) PROVE IInv'
  <2>1. pc' \in [Producers -> {"idle", "wait", "woken"}] /\ Blocked' = Blocked
    BY <1>3 DEF IInv, TypeOK, SpuriousWakeup, Blocked
  <2>2. active' \in BOOLEAN /\ idx' \in [Producers -> {0, 1}]
    BY <1>3 DEF IInv, TypeOK, SpuriousWakeup
  <2>3. accepted + Cardinality(Blocked') <= MaxAdds
    BY <2>1 DEF IInv, AddsBounded
  <2> QED  BY <1>3, <2>1, <2>2, <2>3, NothingStored DEF SpuriousWakeup
<1>4. CASE task_dbuffer_set_inactive
  <2>1. pc' \in [Producers -> {"idle", "wait", "woken"}] /\ Blocked' = Blocked
    BY <1>4, WakeAllBlocks DEF IInv, task_dbuffer_set_inactive
  <2>2. active' \in BOOLEAN /\ idx' \in [Producers -> {0, 1}]
    BY <1>4 DEF IInv, TypeOK, task_dbuffer_set_inactive
  <2>3. accepted + Cardinality(Blocked') <= MaxAdds
    BY <2>1 DEF IInv, AddsBounded
  <2> QED  BY <1>4, <2>1, <2>2, <2>3, NothingStored DEF task_dbuffer_set_inactive
<1>5. CASE UNCHANGED vars
  <2>1. Blocked' = Blocked
    BY <1>5 DEF vars, Blocked
  <2>2. accepted + Cardinality(Blocked') <= MaxAdds
    BY <2>1 DEF IInv, AddsBounded
  <2>3. /\ pc' \in [Producers -> {"idle", "wait", "woken"}]
        /\ idx' \in [Producers -> {0, 1}] /\ active' \in BOOLEAN
    BY <1>5 DEF IInv, TypeOK, vars
  <2> QED  BY <1>5, <2>2, <2>3, NothingStored DEF vars
<1> QED  BY <1>1, <1>2, <1>3, <1>4, <1>5, SwapIInv, RunTaskIInv DEF Next

LEMMA IInvHolds == Spec => []IInv
  BY InitIInv, NextIInv, PTL DEF Spec

-----------------------------------------------------------------------------
(***************************************************************************)
(* The results.                                                            *)
(***************************************************************************)

\* task_dbuffer_add never writes outside the max_tasks slots of a buffer, and
\* task_dbuffer_swap_and_run runs only slots that were written.
THEOREM TypeCorrect == Spec => []TypeOK
<1>1. IInv => TypeOK
  BY DEF IInv
<1> QED  BY <1>1, IInvHolds, PTL

\* Tasks run in the order in which task_dbuffer_add accepted them, none twice,
\* for any number of producers that sleep for any number of swaps.
THEOREM DBufferInOrder == Spec => []RunInOrder
<1>1. IInv => RunInOrder
  BY DEF IInv
<1> QED  BY <1>1, IInvHolds, PTL

\* No step of anybody changes a slot of the batch that
\* task_dbuffer_swap_and_run has still to run without the lock.
THEOREM DBufferBatchIntact == Spec => BatchIntact
<1> DEFINE Intact == \A s \in Slots :
                       s >= batch.next /\ s < batch.next + batch.left
                         => buffer'[batch.buf][s] = buffer[batch.buf][s]
<1>1. IInv /\ [Next]_vars => [Intact]_vars
  <2> SUFFICES ASSUME IInv, [Next]_vars,
                      NEW s \in Slots, s >= batch.next,
                      s < batch.next + batch.left
               PROVE  buffer'[batch.buf][s] = buffer[batch.buf][s]
    BY DEF vars
  <2>1. /\ s \in 0 .. count[batch.buf] - 1
        /\ batch.buf \in {0, 1}
        /\ count \in [{0, 1} -> 0 .. MaxTasks]
    BY MaxTasksAssumption DEF IInv, TypeOK, BatchBelowCount, Slots
  <2>2. ASSUME NEW p \in Producers, NEW i \in {0, 1}, Accept(p, i)
        PROVE  buffer'[batch.buf][s] = buffer[batch.buf][s]
    BY <2>1, <2>2, MaxTasksAssumption DEF IInv, TypeOK, Accept
  <2>3. ASSUME NEW p \in Producers, NEW i \in {0, 1}, Add(p, i)
        PROVE  buffer'[batch.buf][s] = buffer[batch.buf][s]
    BY <2>2, <2>3 DEF Add
  <2>4. ASSUME NEW p \in Producers, AddEnter(p) \/ AddResume(p)
        PROVE  buffer'[batch.buf][s] = buffer[batch.buf][s]
    <3>1. write_idx \in {0, 1} /\ idx[p] \in {0, 1}
      BY DEF IInv, TypeOK
    <3> QED  BY <2>3, <2>4, <3>1 DEF AddEnter, AddResume
  <2> QED
    BY <2>4 DEF Next, SpuriousWakeup, Swap, RunTask, task_dbuffer_set_inactive,
                vars
<1> QED  BY <1>1, IInvHolds, PTL DEF Spec, BatchIntact
=============================================================================
