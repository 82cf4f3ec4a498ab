------------------------- MODULE TaskRBufferProofs -------------------------
(***************************************************************************)
(* For every number of threads, every ring size that divides the range of  *)
(* the positions and every set of tasks, the ring of TaskRBuffer is type   *)
(* correct and implements the closable FIFO queue of TaskQueue.            *)
(***************************************************************************)
EXTENDS TaskRBuffer, SequenceTheorems, TLAPS

-----------------------------------------------------------------------------
(***************************************************************************)
(* Arithmetic of positions.                                                *)
(***************************************************************************)

\* Division with remainder, the meaning of % and \div.
LEMMA DivMod ==
    \A b \in Nat \ {0}, x \in Int :
        /\ x % b \in 0 .. b - 1
        /\ x \div b \in Int
        /\ x = b * (x \div b) + (x % b)
  OBVIOUS

\* Every integer has a quotient and a remainder.
LEMMA DivModExists ==
    \A b \in Nat \ {0}, x \in Int :
        \E n \in Int, r \in 0 .. b - 1 : x = b * n + r /\ r = x % b
<1> TAKE b \in Nat \ {0}, x \in Int
<1>1. x \div b \in Int /\ x % b \in 0 .. b - 1
      /\ x = b * (x \div b) + (x % b)
  BY DivMod
<1> WITNESS x \div b \in Int, x % b \in 0 .. b - 1
<1> QED  BY <1>1

\* Quotient and remainder are unique.
LEMMA DivModUnique ==
    ASSUME NEW b \in Nat \ {0}, NEW k \in Int, NEW j \in Int,
           NEW r \in 0 .. b - 1, NEW s \in 0 .. b - 1,
           b * k + r = b * j + s
    PROVE  r = s
<1>1. b * (k - j) = s - r
  OBVIOUS
<1>2. k - j < 1
  OBVIOUS
<1>3. k - j > -1
  OBVIOUS
<1> QED  BY <1>1, <1>2, <1>3

\* Adding a multiple of b does not change the remainder.
LEMMA ModShift ==
    ASSUME NEW b \in Nat \ {0}, NEW k \in Int, NEW x \in Int
    PROVE  (x + b * k) % b = x % b
<1>1. PICK y \in Int : y = x + b * k
  OBVIOUS
<1>2. PICK j \in Int, s \in 0 .. b - 1 : y = b * j + s /\ s = y % b
  BY DivModExists
<1>3. PICK i \in Int, r \in 0 .. b - 1 : x = b * i + r /\ r = x % b
  BY DivModExists
<1>4. b * j + s = b * (i + k) + r
  BY <1>1, <1>2, <1>3
<1>5. s = r
  BY <1>4, DivModUnique
<1> QED  BY <1>1, <1>2, <1>3, <1>5

\* A remainder by m can be taken before the one by a divisor b of m: the slot
\* of a position does not change when the position wraps.
LEMMA ModMod ==
    ASSUME NEW b \in Nat \ {0}, NEW k \in Int, NEW m \in Nat \ {0},
           m = b * k, NEW x \in Int
    PROVE  (x % m) % b = x % b
<1>1. PICK n \in Int, r \in 0 .. m - 1 : x = m * n + r /\ r = x % m
  BY DivModExists
<1>2. PICK d \in Int : d = k * n
  OBVIOUS
<1>3. x = r + b * d
  BY <1>1, <1>2
<1>4. r \in Int
  OBVIOUS
<1>5. (r + b * d) % b = r % b
  BY ONLY <1>4, b \in Nat \ {0}, d \in Int, ModShift
<1> QED  BY <1>1, <1>3, <1>5

\* Two positions less than b apart have different slots.
LEMMA ModDistinct ==
    ASSUME NEW b \in Nat \ {0}, NEW x \in Int, NEW y \in Int, x < y, y < x + b
    PROVE  x % b # y % b
<1>1. PICK j \in Int, s \in 0 .. b - 1 : y = b * j + s /\ s = y % b
  BY DivModExists
<1>2. PICK i \in Int, r \in 0 .. b - 1 : x = b * i + r /\ r = x % b
  BY DivModExists
<1>3. SUFFICES ASSUME r = s PROVE FALSE
  BY <1>1, <1>2
<1>4. PICK d \in Int : d = j - i
  OBVIOUS
<1>5. y - x = b * d
  BY <1>1, <1>2, <1>3, <1>4
<1>6. d < 1
  BY <1>5
<1>7. d > 0
  BY <1>5
<1> QED  BY <1>6, <1>7

\* The unsigned difference of two positions.
LEMMA Difference ==
    ASSUME NEW m \in Nat \ {0}, NEW r \in 0 .. m - 1, NEW w \in 0 .. m - 1
    PROVE  (w - r) % m = IF r <= w THEN w - r ELSE w - r + m
  OBVIOUS

\* The position after w.
LEMMA Successor ==
    ASSUME NEW m \in Nat \ {0}, NEW w \in 0 .. m - 1
    PROVE  (w + 1) % m = IF w + 1 = m THEN 0 ELSE w + 1
  OBVIOUS

\* The range of the positions is a multiple of the size of the ring.
LEMMA SizeDivides == \E k \in Int : PosMod = MaxTasks * k
<1>1. PICK k \in Int, r \in 0 .. MaxTasks - 1 :
        PosMod = MaxTasks * k + r /\ r = PosMod % MaxTasks
  BY SizeAssumption, DivModExists
<1>2. PosMod = MaxTasks * k
  BY <1>1, SizeAssumption
<1> WITNESS k \in Int
<1> QED  BY <1>2

\* The slot of a position before and after the position wraps.
LEMMA SlotWraps ==
    ASSUME NEW x \in Int
    PROVE  Slot(x % PosMod) = x % MaxTasks
<1>1. PICK k \in Int : PosMod = MaxTasks * k
  BY SizeDivides
<1>2. PosMod \in Nat \ {0} /\ MaxTasks \in Nat \ {0}
  BY SizeAssumption
<1>3. (x % PosMod) % MaxTasks = x % MaxTasks
  BY <1>1, <1>2, ModMod
<1> QED  BY <1>3 DEF Slot

\* Advancing one of two positions changes their difference by one.
LEMMA DifferenceSteps ==
    ASSUME NEW m \in Nat \ {0}, NEW r \in 0 .. m - 1, NEW w \in 0 .. m - 1
    PROVE  /\ (w + 1) % m \in 0 .. m - 1
           /\ (w - r) % m < m - 1
                => (((w + 1) % m) - r) % m = ((w - r) % m) + 1
           /\ r # w => (w - ((r + 1) % m)) % m = ((w - r) % m) - 1
<1>1. PICK w1 \in 0 .. m - 1 :
        w1 = (w + 1) % m /\ w1 = IF w + 1 = m THEN 0 ELSE w + 1
  BY Successor
<1>2. PICK r1 \in 0 .. m - 1 :
        r1 = (r + 1) % m /\ r1 = IF r + 1 = m THEN 0 ELSE r + 1
  BY Successor
<1>3. (w - r) % m = IF r <= w THEN w - r ELSE w - r + m
  BY Difference
<1>4. (w1 - r) % m = IF r <= w1 THEN w1 - r ELSE w1 - r + m
  BY Difference
<1>5. (w - r1) % m = IF r1 <= w THEN w - r1 ELSE w - r1 + m
  BY Difference
<1>6. (w - r) % m < m - 1 => (w1 - r) % m = ((w - r) % m) + 1
  BY <1>1, <1>3, <1>4
<1>7. r # w => (w - r1) % m = ((w - r) % m) - 1
  BY <1>2, <1>3, <1>5
<1> QED  BY <1>1, <1>2, <1>6, <1>7

-----------------------------------------------------------------------------
(***************************************************************************)
(* The sequence of tasks that a ring stands for.                           *)
(***************************************************************************)

Positions == 0 .. PosMod - 1
Slots == 0 .. MaxTasks - 1

\* s is the sequence of the elements of b, from S, in the slots from r to w.
IsQueue(s, S, r, w, b) ==
    /\ s \in Seq(S)
    /\ Len(s) = (w - r) % PosMod
    /\ \A i \in 1 .. (w - r) % PosMod : s[i] = b[(r + i - 1) % MaxTasks]

\* The slots between the positions, as a sequence.
LEMMA QueueOfIsSeq ==
    ASSUME NEW S, NEW r \in Positions, NEW w \in Positions,
           NEW b \in [Slots -> S]
    PROVE  IsQueue(QueueOf(r, w, b), S, r, w, b)
<1> DEFINE n == (w - r) % PosMod
<1>1. n \in Nat
  BY SizeAssumption, Difference DEF Positions
<1>2. ASSUME NEW i \in 1 .. n
      PROVE  Slot((r + i - 1) % PosMod) = (r + i - 1) % MaxTasks
  BY <1>1, SlotWraps DEF Positions
<1>3. ASSUME NEW i \in 1 .. n
      PROVE  (r + i - 1) % MaxTasks \in Slots
  BY <1>1, SizeAssumption DEF Positions, Slots
<1>4. QueueOf(r, w, b) = [i \in 1 .. n |-> b[(r + i - 1) % MaxTasks]]
  BY <1>2 DEF QueueOf
<1> HIDE DEF n
<1>5. QueueOf(r, w, b) \in [1 .. n -> S]
  BY <1>3, <1>4
<1>6. QueueOf(r, w, b) \in Seq(S) /\ Len(QueueOf(r, w, b)) = n
  BY <1>1, <1>5
<1> QED  BY <1>4, <1>6 DEF n, IsQueue

\* The effect on the queue of storing t at the write position.
Appends(r, w, b, t) ==
    QueueOf(r, (w + 1) % PosMod, [b EXCEPT ![Slot(w)] = t])
      = Append(QueueOf(r, w, b), t)

\* Storing a task at the write position of a ring that is not full appends it.
LEMMA StoreAppends ==
    ASSUME NEW S, NEW r \in Positions, NEW w \in Positions,
           NEW b \in [Slots -> S], NEW t \in S,
           (w - r) % PosMod < MaxTasks
    PROVE  Appends(r, w, b, t)
<1> DEFINE n == (w - r) % PosMod
           w1 == (w + 1) % PosMod
           b1 == [b EXCEPT ![Slot(w)] = t]
           s == QueueOf(r, w, b)
           s1 == QueueOf(r, w1, b1)
<1>1. n \in Nat /\ n < MaxTasks
  BY SizeAssumption, Difference DEF Positions
<1>2. w1 \in Positions /\ (w1 - r) % PosMod = n + 1
  <2>1. PosMod \in Nat \ {0} /\ (w - r) % PosMod < PosMod - 1
    BY <1>1, SizeAssumption
  <2> QED  BY <2>1, DifferenceSteps DEF Positions
<1>3. Slot(w) \in Slots /\ b1 \in [Slots -> S]
  BY SizeAssumption DEF Slot, Slots, Positions
<1>4. Slot(w) = (r + n) % MaxTasks
  <2>1. (r + n) % PosMod = w
    BY SizeAssumption, Difference DEF Positions
  <2> QED  BY <2>1, <1>1, SlotWraps DEF Positions
<1>5. ASSUME NEW i \in 1 .. n
      PROVE  (r + i - 1) % MaxTasks # Slot(w) /\ (r + i - 1) % MaxTasks \in Slots
  <2>1. r + i - 1 \in Int /\ r + n \in Int /\ r + i - 1 < r + n
        /\ r + n < r + i - 1 + MaxTasks
    BY <1>1, SizeAssumption DEF Positions
  <2> HIDE DEF n
  <2>2. (r + i - 1) % MaxTasks # (r + n) % MaxTasks
    BY <2>1, SizeAssumption, ModDistinct
  <2> QED  BY <2>1, <2>2, <1>4, SizeAssumption DEF Slots
<1>6. /\ s \in Seq(S) /\ Len(s) = n
      /\ \A i \in 1 .. n : s[i] = b[(r + i - 1) % MaxTasks]
  <2>1. IsQueue(s, S, r, w, b)
    BY QueueOfIsSeq
  <2> QED  BY <2>1 DEF IsQueue
<1> HIDE DEF n, w1, b1, s, s1
<1>7. /\ s1 \in Seq(S) /\ Len(s1) = n + 1
      /\ \A i \in 1 .. n + 1 : s1[i] = b1[(r + i - 1) % MaxTasks]
  <2>1. /\ s1 \in Seq(S) /\ Len(s1) = (w1 - r) % PosMod
        /\ \A i \in 1 .. (w1 - r) % PosMod : s1[i] = b1[(r + i - 1) % MaxTasks]
    <3>1. w1 \in Positions /\ b1 \in [Slots -> S]
      BY <1>2, <1>3
    <3>2. IsQueue(QueueOf(r, w1, b1), S, r, w1, b1)
      BY <3>1, QueueOfIsSeq
    <3> QED  BY <3>2 DEF s1, IsQueue
  <2> QED  BY <2>1, <1>2
<1>8. ASSUME NEW i \in 1 .. n PROVE s1[i] = s[i]
  BY <1>1, <1>5, <1>6, <1>7 DEF b1
<1>9. s1[n + 1] = t
  <2>1. s1[n + 1] = b1[(r + (n + 1) - 1) % MaxTasks]
    BY <1>1, <1>7
  <2>2. r + (n + 1) - 1 = r + n
    BY <1>1 DEF Positions
  <2> QED  BY <2>1, <2>2, <1>3, <1>4 DEF b1
<1>10. /\ Append(s, t) \in Seq(S) /\ Len(Append(s, t)) = n + 1
       /\ \A i \in 1 .. n : Append(s, t)[i] = s[i]
       /\ Append(s, t)[n + 1] = t
  BY <1>6, AppendProperties
<1>11. ASSUME NEW i \in 1 .. n + 1 PROVE s1[i] = Append(s, t)[i]
  BY <1>1, <1>8, <1>9, <1>10
<1>12. s1 = Append(s, t)
  BY <1>7, <1>10, <1>11, SeqEqual
<1> QED  BY <1>12 DEF s1, s, w1, b1, Appends

\* The effect on the queue of advancing the read position.
TakesHead(r, w, b) ==
    /\ QueueOf(r, w, b) # <<>>
    /\ Head(QueueOf(r, w, b)) = b[Slot(r)]
    /\ QueueOf((r + 1) % PosMod, w, b) = Tail(QueueOf(r, w, b))

\* Advancing the read position of a ring that is not empty removes the task
\* in the slot at that position, the head of the queue.
LEMMA LoadTakesHead ==
    ASSUME NEW S, NEW r \in Positions, NEW w \in Positions, r # w,
           NEW b \in [Slots -> S]
    PROVE  TakesHead(r, w, b)
<1> DEFINE n == (w - r) % PosMod
           r1 == (r + 1) % PosMod
           s == QueueOf(r, w, b)
           s1 == QueueOf(r1, w, b)
<1>1. n \in Nat \ {0}
  BY SizeAssumption, Difference DEF Positions
<1>2. r1 \in Positions /\ (w - r1) % PosMod = n - 1
  <2>1. PosMod \in Nat \ {0}
    BY SizeAssumption
  <2> QED  BY <2>1, DifferenceSteps DEF Positions
<1>3. ASSUME NEW i \in 1 .. n - 1
      PROVE  (r1 + i - 1) % MaxTasks = (r + (i + 1) - 1) % MaxTasks
  <2>1. r1 = r + 1 \/ (r + 1 = PosMod /\ r1 = 0)
    BY SizeAssumption, Successor DEF Positions
  <2>2. CASE r1 = r + 1
    BY <2>2, <1>1, SizeAssumption DEF Positions
  <2>3. CASE r + 1 = PosMod /\ r1 = 0
    <3>1. PICK k \in Int : PosMod = MaxTasks * k
      BY SizeDivides
    <3>2. PICK j \in Int : j = i - 1
      OBVIOUS
    <3>3. r + (i + 1) - 1 = j + MaxTasks * k /\ r1 + i - 1 = j
      BY <2>3, <3>1, <3>2, SizeAssumption DEF Positions
    <3>4. (j + MaxTasks * k) % MaxTasks = j % MaxTasks
      BY SizeAssumption, ModShift
    <3> QED  BY <3>3, <3>4
  <2> QED  BY <2>1, <2>2, <2>3
<1>4. /\ s \in Seq(S) /\ Len(s) = n
      /\ \A i \in 1 .. n : s[i] = b[(r + i - 1) % MaxTasks]
  <2>1. IsQueue(s, S, r, w, b)
    BY QueueOfIsSeq
  <2> QED  BY <2>1 DEF IsQueue
<1> HIDE DEF n, r1, s, s1
<1>5. /\ s1 \in Seq(S) /\ Len(s1) = n - 1
      /\ \A i \in 1 .. n - 1 : s1[i] = b[(r1 + i - 1) % MaxTasks]
  <2>1. /\ s1 \in Seq(S) /\ Len(s1) = (w - r1) % PosMod
        /\ \A i \in 1 .. (w - r1) % PosMod : s1[i] = b[(r1 + i - 1) % MaxTasks]
    <3>1. r1 \in Positions
      BY <1>2
    <3>2. IsQueue(QueueOf(r1, w, b), S, r1, w, b)
      BY <3>1, QueueOfIsSeq
    <3> QED  BY <3>2 DEF s1, IsQueue
  <2> QED  BY <2>1, <1>2
<1>6. s # <<>> /\ Head(s) = s[1]
  BY <1>1, <1>4
<1>7. s[1] = b[Slot(r)]
  <2>1. s[1] = b[(r + 1 - 1) % MaxTasks]
    BY <1>1, <1>4
  <2> QED  BY <2>1 DEF Slot, Positions
<1>8. /\ Tail(s) \in Seq(S) /\ Len(Tail(s)) = n - 1
      /\ \A i \in 1 .. n - 1 : Tail(s)[i] = s[i + 1]
  BY <1>4, <1>6, HeadTailProperties
<1>9. ASSUME NEW i \in 1 .. n - 1 PROVE s1[i] = Tail(s)[i]
  <2>1. i + 1 \in 1 .. n
    BY <1>1
  <2> QED  BY <2>1, <1>3, <1>4, <1>5, <1>8
<1>10. s1 = Tail(s)
  BY <1>5, <1>8, <1>9, SeqEqual
<1> QED  BY <1>6, <1>7, <1>10 DEF s, s1, r1, TakesHead

-----------------------------------------------------------------------------
(***************************************************************************)
(* The invariant.                                                          *)
(***************************************************************************)

\* A task stored in a ring with room leaves it with at most MaxTasks tasks, and
\* a task loaded from a ring that is not empty makes room.
LEMMA StepsKeepBound ==
    ASSUME TypeOK, Occupancy <= MaxTasks
    PROVE  /\ ~task_rbuffer_full =>
                (((writepos + 1) % PosMod) - readpos) % PosMod <= MaxTasks
           /\ ~task_rbuffer_empty =>
                (writepos - ((readpos + 1) % PosMod)) % PosMod <= MaxTasks
           /\ (writepos + 1) % PosMod \in Positions
           /\ (readpos + 1) % PosMod \in Positions
           /\ Slot(writepos) \in Slots /\ Slot(readpos) \in Slots
<1>1. /\ PosMod \in Nat \ {0} /\ MaxTasks \in Nat \ {0} /\ MaxTasks < PosMod
      /\ readpos \in 0 .. PosMod - 1 /\ writepos \in 0 .. PosMod - 1
  BY SizeAssumption DEF TypeOK
<1>2. Occupancy \in Int
  BY <1>1 DEF Occupancy
<1>3. ASSUME ~task_rbuffer_full
      PROVE  (((writepos + 1) % PosMod) - readpos) % PosMod <= MaxTasks
  <2>1. (writepos - readpos) % PosMod < MaxTasks
    BY <1>1, <1>2, <1>3 DEF task_rbuffer_full, Occupancy
  <2>2. (writepos - readpos) % PosMod < PosMod - 1
    BY <1>1, <2>1
  <2>3. (((writepos + 1) % PosMod) - readpos) % PosMod
          = ((writepos - readpos) % PosMod) + 1
    BY <1>1, <2>2, DifferenceSteps
  <2> QED  BY <2>1, <2>3, <1>1
<1>4. ASSUME ~task_rbuffer_empty
      PROVE  (writepos - ((readpos + 1) % PosMod)) % PosMod <= MaxTasks
  <2>1. (writepos - ((readpos + 1) % PosMod)) % PosMod
          = ((writepos - readpos) % PosMod) - 1
    BY <1>1, <1>4, DifferenceSteps DEF task_rbuffer_empty
  <2> QED  BY <2>1, <1>1 DEF Occupancy
<1>5. (writepos + 1) % PosMod \in Positions /\ (readpos + 1) % PosMod \in Positions
  BY <1>1, DifferenceSteps DEF Positions
<1>6. Slot(writepos) \in Slots /\ Slot(readpos) \in Slots
  BY <1>1 DEF Slot, Slots
<1> QED  BY <1>3, <1>4, <1>5, <1>6

\* The initial state satisfies the invariant.
LEMMA InitInv == Init => RingInv
<1> SUFFICES ASSUME Init PROVE RingInv
  OBVIOUS
<1>1. TypeOK
  BY SizeAssumption DEF Init, TypeOK
<1>2. Occupancy = 0
  BY SizeAssumption DEF Init, Occupancy
<1>3. \A p \in Producers : pc[p] = "idle"
  BY DEF Init, Threads
<1> QED  BY <1>1, <1>2, <1>3, SizeAssumption DEF RingInv

\* Every step of every thread preserves the invariant.
LEMMA NextInv == RingInv /\ [Next]_vars => RingInv'
<1> SUFFICES ASSUME RingInv, [Next]_vars PROVE RingInv'
  OBVIOUS
<1> USE DEF Positions, Slots
<1>0. /\ TypeOK /\ Occupancy <= MaxTasks /\ Occupancy \in Int
      /\ \A p \in Producers :
            pc[p] \in {"full", "empty", "woken"} => arg[p] \in Tasks
  BY SizeAssumption DEF RingInv, TypeOK, Occupancy
<1>1. ASSUME NEW p \in Producers, NEW t \in Tasks, PushEnter(p, t)
      PROVE  RingInv'
  <2>1. CASE ~active
    BY <1>0, <1>1, <2>1 DEF RingInv, TypeOK, Threads, Occupancy, PushEnter
  <2>2. CASE active /\ task_rbuffer_full
    BY <1>0, <1>1, <2>2 DEF RingInv, TypeOK, Threads, Occupancy, PushEnter
  <2>3. CASE active /\ ~task_rbuffer_full
    <3>1. /\ Store(t) /\ arg' = arg /\ ret' = [ret EXCEPT ![p] = "true"]
          /\ \E S \in SUBSET (Waiting("empty")) : pc' = Wake(S)
      BY <1>1, <2>3 DEF PushEnter, Signal
    <3>2. TypeOK'
      BY <1>0, <3>1, StepsKeepBound DEF TypeOK, Store, Wake, Threads
    <3>3. Occupancy' <= MaxTasks
      BY <1>0, <2>3, <3>1, StepsKeepBound DEF Store, Occupancy
    <3>4. \A o \in Producers :
            pc'[o] \in {"full", "empty", "woken"} => arg'[o] \in Tasks
      BY <1>0, <3>1 DEF Wake, Waiting, Threads
    <3> QED  BY <3>2, <3>3, <3>4 DEF RingInv
  <2> QED  BY <2>1, <2>2, <2>3
<1>2. ASSUME NEW p \in Producers, PushResume(p)
      PROVE  RingInv'
  <2>1. CASE ~active
    BY <1>0, <1>2, <2>1 DEF RingInv, TypeOK, Threads, Occupancy, PushResume
  <2>2. CASE active /\ task_rbuffer_full
    BY <1>0, <1>2, <2>2 DEF RingInv, TypeOK, Threads, Occupancy, PushResume
  <2>3. CASE active /\ ~task_rbuffer_full
    <3>1. /\ Store(arg[p]) /\ arg' = [arg EXCEPT ![p] = NoTask]
          /\ ret' = [ret EXCEPT ![p] = "true"]
          /\ pc' = [pc EXCEPT ![p] = "idle"]
      BY <1>2, <2>3 DEF PushResume
    <3>2. arg[p] \in Tasks
      BY <1>0, <1>2 DEF PushResume
    <3>3. TypeOK'
      BY <1>0, <3>1, <3>2, StepsKeepBound DEF TypeOK, Store, Threads
    <3>4. Occupancy' <= MaxTasks
      BY <1>0, <2>3, <3>1, StepsKeepBound DEF Store, Occupancy
    <3>5. \A o \in Producers :
            pc'[o] \in {"full", "empty", "woken"} => arg'[o] \in Tasks
      BY <1>0, <3>1 DEF TypeOK, Threads
    <3> QED  BY <3>3, <3>4, <3>5 DEF RingInv
  <2> QED  BY <2>1, <2>2, <2>3
<1>3. ASSUME NEW w \in Workers, RunEnter(w)
      PROVE  RingInv'
  <2>1. CASE ~active
    BY <1>0, <1>3, <2>1, ThreadsAssumption
       DEF RingInv, TypeOK, Threads, Occupancy, RunEnter
  <2>2. CASE active /\ task_rbuffer_empty
    BY <1>0, <1>3, <2>2, ThreadsAssumption
       DEF RingInv, TypeOK, Threads, Occupancy, RunEnter
  <2>3. CASE active /\ ~task_rbuffer_empty
    <3>1. /\ Load(w)
          /\ \E S \in SUBSET (Waiting("full")) : pc' = [Wake(S) EXCEPT ![w] = "run"]
      BY <1>3, <2>3 DEF RunEnter, Signal
    <3>2. TypeOK'
      BY <1>0, <3>1, StepsKeepBound DEF TypeOK, Load, Wake, Threads
    <3>3. Occupancy' <= MaxTasks
      BY <1>0, <2>3, <3>1, StepsKeepBound DEF Load, Occupancy
    <3>4. \A o \in Producers :
            pc'[o] \in {"full", "empty", "woken"} => arg'[o] \in Tasks
      BY <1>0, <3>1, ThreadsAssumption DEF Load, Wake, Waiting, Threads, TypeOK
    <3> QED  BY <3>2, <3>3, <3>4 DEF RingInv
  <2> QED  BY <2>1, <2>2, <2>3
<1>4. ASSUME NEW w \in Workers, RunResume(w)
      PROVE  RingInv'
  <2>1. CASE ~active
    BY <1>0, <1>4, <2>1, ThreadsAssumption
       DEF RingInv, TypeOK, Threads, Occupancy, RunResume
  <2>2. CASE active /\ task_rbuffer_empty
    BY <1>0, <1>4, <2>2, ThreadsAssumption
       DEF RingInv, TypeOK, Threads, Occupancy, RunResume
  <2>3. CASE active /\ ~task_rbuffer_empty
    <3>1. Load(w) /\ pc' = [pc EXCEPT ![w] = "run"]
      BY <1>4, <2>3 DEF RunResume
    <3>2. TypeOK'
      BY <1>0, <3>1, StepsKeepBound DEF TypeOK, Load, Threads
    <3>3. Occupancy' <= MaxTasks
      BY <1>0, <2>3, <3>1, StepsKeepBound DEF Load, Occupancy
    <3>4. \A o \in Producers :
            pc'[o] \in {"full", "empty", "woken"} => arg'[o] \in Tasks
      BY <1>0, <3>1, ThreadsAssumption DEF Load, Threads, TypeOK
    <3> QED  BY <3>2, <3>3, <3>4 DEF RingInv
  <2> QED  BY <2>1, <2>2, <2>3
<1>5. ASSUME NEW w \in Workers, RunFinish(w)
      PROVE  RingInv'
  BY <1>0, <1>5, ThreadsAssumption
     DEF RingInv, TypeOK, Threads, Occupancy, RunFinish
<1>6. ASSUME NEW th \in Threads, SpuriousWakeup(th)
      PROVE  RingInv'
  BY <1>0, <1>6 DEF RingInv, TypeOK, Threads, Occupancy, SpuriousWakeup
<1>7. ASSUME task_rbuffer_set_inactive
      PROVE  RingInv'
  <2>1. TypeOK'
    BY <1>0, <1>7 DEF TypeOK, task_rbuffer_set_inactive, Wake, Threads
  <2>2. Occupancy' <= MaxTasks
    BY <1>0, <1>7 DEF task_rbuffer_set_inactive, Occupancy
  <2>3. \A o \in Producers :
          pc'[o] \in {"full", "empty", "woken"} => arg'[o] \in Tasks
    BY <1>0, <1>7 DEF task_rbuffer_set_inactive, Wake, Waiting, Threads
  <2> QED  BY <2>1, <2>2, <2>3 DEF RingInv
<1>8. CASE UNCHANGED vars
  BY <1>0, <1>8 DEF vars, RingInv, TypeOK, Occupancy
<1> QED  BY <1>1, <1>2, <1>3, <1>4, <1>5, <1>6, <1>7, <1>8 DEF Next

\* The ring is never overfull, however the threads interleave.
THEOREM RingSafe == Spec => []RingInv
<1>1. Init /\ [][Next]_vars => []RingInv
  BY InitInv, NextInv, PTL
<1> QED  BY <1>1, PTL DEF Spec

\* Every variable keeps its type.
THEOREM TypeCorrect == Spec => []TypeOK
<1>1. RingInv => TypeOK
  BY DEF RingInv
<1> QED  BY <1>1, RingSafe, PTL

-----------------------------------------------------------------------------
(***************************************************************************)
(* The ring implements the queue.                                          *)
(***************************************************************************)

\* What the workers are running, under the refinement mapping.
Running == [w \in Workers |-> arg[w]]

\* A section that stores a task is a Put of the abstract queue.
LEMMA StoreIsPut ==
    ASSUME RingInv, active, ~task_rbuffer_full, NEW p \in Producers,
           NEW t \in Tasks, Store(t), Running' = Running,
           ret' = [ret EXCEPT ![p] = "true"]
    PROVE  Queue!Put(p, t)
<1> DEFINE S == Tasks \cup {NoTask}
<1>1. /\ readpos \in Positions /\ writepos \in Positions
      /\ buffer \in [Slots -> S] /\ t \in S
  BY DEF RingInv, TypeOK, Positions, Slots
<1>2. /\ MaxTasks \in Nat \ {0}
      /\ (writepos - readpos) % PosMod < MaxTasks
  BY <1>1, SizeAssumption DEF task_rbuffer_full, Occupancy, Positions
<1>3. Contents' = Append(Contents, t)
  <2>1. Appends(readpos, writepos, buffer, t)
    BY <1>1, <1>2, StoreAppends
  <2> QED  BY <2>1 DEF Appends, Contents, Store
<1>4. Len(Contents) < MaxTasks
  <2>1. IsQueue(Contents, S, readpos, writepos, buffer)
    BY <1>1, QueueOfIsSeq DEF Contents
  <2> QED  BY <2>1, <1>2 DEF IsQueue
<1> QED  BY <1>3, <1>4 DEF Queue!Put, Store, Running

\* A section that loads a task is a Get of the abstract queue.
LEMMA LoadIsGet ==
    ASSUME RingInv, active, ~task_rbuffer_empty, NEW w \in Workers, Load(w)
    PROVE  Queue!Get(w)
<1> DEFINE S == Tasks \cup {NoTask}
<1>1. /\ readpos \in Positions /\ writepos \in Positions
      /\ readpos # writepos /\ buffer \in [Slots -> S]
  BY DEF RingInv, TypeOK, Positions, Slots, task_rbuffer_empty
<1>2. /\ Contents # <<>>
      /\ Head(Contents) = buffer[Slot(readpos)]
      /\ Contents' = Tail(Contents)
  <2>1. TakesHead(readpos, writepos, buffer)
    BY <1>1, LoadTakesHead
  <2>2. readpos' = (readpos + 1) % PosMod /\ writepos' = writepos /\ buffer' = buffer
    BY DEF Load
  <2> QED  BY <2>1, <2>2, Zenon DEF TakesHead, Contents
<1>3. Running' = [Running EXCEPT ![w] = buffer[Slot(readpos)]]
  BY DEF RingInv, TypeOK, Threads, Load, Running
<1> QED  BY <1>2, <1>3 DEF Queue!Get, Load, Running

\* The initial ring is the initial queue.
LEMMA InitRefines == Init => Queue!Init
<1> SUFFICES ASSUME Init PROVE Queue!Init
  OBVIOUS
<1>1. Contents = <<>>
  <2>1. /\ readpos \in Positions /\ writepos \in Positions
        /\ buffer \in [Slots -> {NoTask}] /\ (writepos - readpos) % PosMod = 0
    BY SizeAssumption DEF Init, Positions, Slots
  <2>2. IsQueue(Contents, {NoTask}, readpos, writepos, buffer)
    BY <2>1, QueueOfIsSeq DEF Contents
  <2> QED  BY <2>1, <2>2 DEF IsQueue
<1> QED  BY <1>1 DEF Init, Queue!Init, Threads

\* Every step of the ring is a step of the queue or leaves the queue unchanged.
LEMMA NextRefines ==
    RingInv /\ [Next]_vars => [Queue!Next]_(Queue!queueVars)
<1> SUFFICES ASSUME RingInv, [Next]_vars
             PROVE  Queue!Next \/ UNCHANGED Queue!queueVars
  OBVIOUS
<1> DEFINE Same == Contents' = Contents /\ active' = active
                   /\ Running' = Running /\ ret' = ret
<1>a. Same => UNCHANGED Queue!queueVars
  BY DEF Queue!queueVars, Running
<1>b. TypeOK
  BY DEF RingInv
<1>1. ASSUME NEW p \in Producers, NEW t \in Tasks, PushEnter(p, t)
      PROVE  Queue!Next \/ Same
  <2>1. CASE ~active
    <3>1. Queue!Refuse(p)
      BY <1>1, <2>1 DEF PushEnter, Queue!Refuse, Contents
    <3> QED  BY <3>1 DEF Queue!Next
  <2>2. CASE active /\ task_rbuffer_full
    <3>1. Running' = Running
      BY <1>b, <1>1, <2>2, ThreadsAssumption DEF PushEnter, Running, TypeOK, Threads
    <3> QED  BY <1>1, <2>2, <3>1 DEF PushEnter, Contents
  <2>3. CASE active /\ ~task_rbuffer_full
    <3>1. Queue!Put(p, t)
      BY <1>1, <2>3, StoreIsPut DEF PushEnter, Running
    <3> QED  BY <3>1 DEF Queue!Next
  <2> QED  BY <2>1, <2>2, <2>3
<1>2. ASSUME NEW p \in Producers, PushResume(p)
      PROVE  Queue!Next \/ Same
  <2>0. \A x : arg' = [arg EXCEPT ![p] = x] => Running' = Running
    BY <1>b, ThreadsAssumption DEF Running, TypeOK, Threads
  <2>1. CASE ~active
    <3>1. Queue!Refuse(p)
      BY <1>2, <2>0, <2>1 DEF PushResume, Queue!Refuse, Contents, Running
    <3> QED  BY <3>1 DEF Queue!Next
  <2>2. CASE active /\ task_rbuffer_full
    BY <1>2, <2>2 DEF PushResume, Contents, Running
  <2>3. CASE active /\ ~task_rbuffer_full
    <3>1. arg[p] \in Tasks
      BY <1>2 DEF PushResume, RingInv
    <3>2. Queue!Put(p, arg[p])
      BY <1>2, <2>0, <2>3, <3>1, StoreIsPut DEF PushResume
    <3> QED  BY <3>1, <3>2 DEF Queue!Next
  <2> QED  BY <2>1, <2>2, <2>3
<1>3. ASSUME NEW w \in Workers, RunEnter(w) \/ RunResume(w)
      PROVE  Queue!Next \/ Same
  <2>1. CASE active /\ ~task_rbuffer_empty
    <3>1. Queue!Get(w)
      BY <1>3, <2>1, LoadIsGet DEF RunEnter, RunResume
    <3> QED  BY <3>1 DEF Queue!Next
  <2>2. CASE ~(active /\ ~task_rbuffer_empty)
    BY <1>3, <2>2 DEF RunEnter, RunResume, Contents, Running
  <2> QED  BY <2>1, <2>2
<1>4. ASSUME NEW w \in Workers, RunFinish(w)
      PROVE  Queue!Next \/ Same
  <2>1. Running' = [Running EXCEPT ![w] = NoTask] /\ Contents' = Contents
        /\ active' = active /\ ret' = ret
    BY <1>b, <1>4 DEF RunFinish, Running, TypeOK, Threads, Contents
  <2>2. CASE arg[w] = NoTask
    BY <2>1, <2>2 DEF Running
  <2>3. CASE arg[w] # NoTask
    <3>1. Queue!Done(w)
      BY <2>1, <2>3 DEF Queue!Done, Running
    <3> QED  BY <3>1 DEF Queue!Next
  <2> QED  BY <2>2, <2>3
<1>5. ASSUME NEW th \in Threads, SpuriousWakeup(th)
      PROVE  Same
  BY <1>5 DEF SpuriousWakeup, Contents, Running
<1>6. ASSUME task_rbuffer_set_inactive
      PROVE  Queue!Next
  <2>1. Queue!Close
    BY <1>6 DEF task_rbuffer_set_inactive, Queue!Close, Contents
  <2> QED  BY <2>1 DEF Queue!Next
<1>7. ASSUME UNCHANGED vars
      PROVE  Same
  BY <1>7 DEF vars, Contents, Running
<1> HIDE DEF Same
<1>8. Queue!Next \/ Same
  BY <1>1, <1>2, <1>3, <1>4, <1>5, <1>6, <1>7 DEF Next
<1> QED  BY <1>a, <1>8

\* The ring implements the closable FIFO queue: accepted tasks are run once,
\* in order, and nothing is accepted or handed out after the ring is closed.
THEOREM RingImplementsQueue == Spec => ImplementsTaskQueue
<1>1. Init /\ []RingInv /\ [][Next]_vars => Queue!Spec
  BY InitRefines, NextRefines, PTL DEF Queue!Spec
<1> QED  BY <1>1, RingSafe, PTL DEF Spec, ImplementsTaskQueue
=============================================================================
