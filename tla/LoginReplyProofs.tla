--------------------------- MODULE LoginReplyProofs ---------------------------
(***************************************************************************)
(* For every number of clients, every database, any requests and any size  *)
(* of the pool: the output buffers have exactly one owner each, the        *)
(* results of the database are released, and the parser of a request stays *)
(* inside the decoded block.  If the messages fit an outbuf, no write      *)
(* leaves it and every client reads the answer that its request deserves.  *)
(***************************************************************************)
EXTENDS LoginReply, CodecProofs

-----------------------------------------------------------------------------
(***************************************************************************)
(* The inductive invariant: the idle list, ...                             *)
(***************************************************************************)

\* s are the idle buffers in the order of the list.
Chain(s) ==
    /\ outbuf_head = IF outbuf_list_size = 0 THEN NULL ELSE s[1]
    /\ \A i \in 1 .. outbuf_list_size :
         next[s[i]] = IF i = outbuf_list_size THEN NULL ELSE s[i + 1]
    /\ \A i, j \in 1 .. outbuf_list_size : s[i] = s[j] => i = j

\* The buffers of the heap that are not in the list are those of H.
HeldIs(H) ==
    \E s \in [1 .. outbuf_list_size -> heap] :
        Chain(s) /\ H = heap \ {s[i] : i \in 1 .. outbuf_list_size}

-----------------------------------------------------------------------------
(***************************************************************************)
(* The list of idle buffers.                                               *)
(***************************************************************************)

LEMMA AcquireHeld ==
    ASSUME ListTypeOK, NEW H, HeldIs(H), NEW b \in Bufs, outbuf_acquire(b)
    PROVE  ListTypeOK' /\ b \notin H /\ HeldIs(H \cup {b})'
<1> DEFINE n == outbuf_list_size
<1>0. n \in Nat /\ heap \subseteq Bufs /\ NULL \notin Bufs /\ MaxIdleOutbufs \in Nat
      /\ n \in 0 .. MaxIdleOutbufs
  BY IdleAssumption, BufsAssumption DEF ListTypeOK
<1>1. PICK s \in [1 .. n -> heap] :
        Chain(s) /\ H = heap \ {s[i] : i \in 1 .. n}
  BY DEF HeldIs
<1>2. CASE /\ outbuf_head # NULL /\ b = outbuf_head
           /\ outbuf_list_size' = outbuf_list_size - 1
           /\ outbuf_head' = next[b]
           /\ UNCHANGED <<next, heap>>
  <2>1. n \in Nat \ {0} /\ b = s[1]
    BY <1>0, <1>1, <1>2 DEF Chain
  <2>t. PICK t : t = [i \in 1 .. n - 1 |-> s[i + 1]]
    BY Zenon
  <2>2. t \in [1 .. n - 1 -> heap]
    BY <1>0, <1>1, <2>1, <2>t
  <2>3. \A i \in 1 .. n - 1 : t[i] = s[i + 1] /\ i + 1 \in 1 .. n
    BY <1>0, <2>1, <2>t
  <2>4. Chain(t)'
    <3>1. outbuf_head' = IF n - 1 = 0 THEN NULL ELSE t[1]
      BY <1>0, <1>1, <1>2, <2>1, <2>3 DEF Chain
    <3>2. ASSUME NEW i \in 1 .. n - 1
          PROVE  next[t[i]] = IF i = n - 1 THEN NULL ELSE t[i + 1]
      BY <1>0, <1>1, <2>1, <2>3 DEF Chain
    <3>3. ASSUME NEW i \in 1 .. n - 1, NEW j \in 1 .. n - 1, t[i] = t[j]
          PROVE  i = j
      BY <1>0, <1>1, <2>1, <2>3, <3>3 DEF Chain
    <3> QED  BY <1>2, <3>1, <3>2, <3>3 DEF Chain
  <2>5. H \cup {b} = heap \ {t[i] : i \in 1 .. n - 1}
    <3>1. ASSUME NEW x PROVE x \in H \cup {b} <=> x \in heap \ {t[i] : i \in 1 .. n - 1}
      <4>1. x \in {s[i] : i \in 1 .. n} <=> x = b \/ x \in {t[i] : i \in 1 .. n - 1}
        <5>1. ASSUME NEW i \in 1 .. n, x = s[i]
              PROVE  x = b \/ x \in {t[j] : j \in 1 .. n - 1}
          <6>1. CASE i = 1
            BY <2>1, <5>1, <6>1
          <6>2. CASE i # 1
            <7>1. i - 1 \in 1 .. n - 1 /\ t[i - 1] = s[i]
              BY <1>0, <2>1, <6>2, <2>t
            <7> QED  BY <5>1, <7>1
          <6> QED  BY <6>1, <6>2
        <5>2. ASSUME NEW i \in 1 .. n - 1, x = t[i]
              PROVE  x \in {s[j] : j \in 1 .. n}
          BY <2>3, <5>2
        <5>3. b \in {s[j] : j \in 1 .. n}
          BY <2>1
        <5> QED  BY <5>1, <5>2, <5>3
      <4>2. b \in heap
        BY <2>1, <1>1
      <4>3. ASSUME NEW i \in 1 .. n - 1 PROVE t[i] # b
        BY <1>0, <1>1, <2>1, <2>3 DEF Chain
      <4> QED  BY <1>1, <4>1, <4>2, <4>3
    <3> QED  BY <3>1
  <2>6. b \notin H
    BY <1>1, <2>1
  <2>7. HeldIs(H \cup {b})'
    <3>1. t \in [1 .. outbuf_list_size' -> heap']
          /\ H \cup {b} = heap' \ {t[i] : i \in 1 .. outbuf_list_size'}
      BY <1>2, <2>2, <2>5
    <3> QED  BY <2>4, <3>1 DEF HeldIs
  <2>8. ListTypeOK'
    <3>1. b \in Bufs /\ next[b] \in Bufs \cup {NULL}
      BY DEF ListTypeOK
    <3>2. n - 1 \in 0 .. MaxIdleOutbufs
      BY <1>0, <2>1, <2>t
    <3> QED  BY <1>2, <3>1, <3>2 DEF ListTypeOK
  <2> QED  BY <2>6, <2>7, <2>8
<1>3. CASE /\ outbuf_head = NULL /\ b \in Bufs \ heap
           /\ heap' = heap \cup {b}
           /\ UNCHANGED <<outbuf_head, outbuf_list_size, next>>
  <2>1. n = 0
    <3>1. ASSUME n # 0 PROVE FALSE
      <4>1. s[1] \in Bufs /\ outbuf_head = s[1]
        BY <1>0, <1>1, <3>1 DEF Chain
      <4> QED  BY <1>0, <1>3, <4>1
    <3> QED  BY <3>1
  <2>2. s \in [1 .. n -> heap'] /\ {s[i] : i \in 1 .. n} = {}
    BY <2>1, <1>1
  <2>3. Chain(s)'
    BY <1>1, <1>3 DEF Chain
  <2>4. H \cup {b} = heap' \ {s[i] : i \in 1 .. n}
    BY <1>1, <1>3, <2>2
  <2>5. HeldIs(H \cup {b})'
    BY <1>3, <2>2, <2>3, <2>4 DEF HeldIs
  <2>6. ListTypeOK'
    BY <1>3 DEF ListTypeOK
  <2> QED  BY <1>1, <1>3, <2>5, <2>6
<1> QED  BY <1>2, <1>3 DEF outbuf_acquire

LEMMA ReleaseHeld ==
    ASSUME ListTypeOK, NEW H, HeldIs(H), NEW b \in H, outbuf_release(b)
    PROVE  ListTypeOK' /\ b \in Bufs /\ HeldIs(H \ {b})'
<1> DEFINE n == outbuf_list_size
<1>0. n \in Nat /\ heap \subseteq Bufs /\ NULL \notin Bufs /\ MaxIdleOutbufs \in Nat
      /\ n \in 0 .. MaxIdleOutbufs
  BY IdleAssumption, BufsAssumption DEF ListTypeOK
<1>1. PICK s \in [1 .. n -> heap] :
        Chain(s) /\ H = heap \ {s[i] : i \in 1 .. n}
  BY DEF HeldIs
<1>4. b \in heap /\ b \in Bufs /\ \A i \in 1 .. n : s[i] # b
  BY <1>0, <1>1
<1>2. CASE /\ outbuf_list_size < MaxIdleOutbufs
           /\ outbuf_list_size' = outbuf_list_size + 1
           /\ next' = [next EXCEPT ![b] = outbuf_head]
           /\ outbuf_head' = b
           /\ UNCHANGED heap
  <2>t. PICK t : t = [i \in 1 .. n + 1 |-> IF i = 1 THEN b ELSE s[i - 1]]
    BY Zenon
  <2>1. t \in [1 .. n + 1 -> heap]
    BY <1>0, <1>1, <1>4, <2>t
  <2>2. t[1] = b /\ \A i \in 2 .. n + 1 : t[i] = s[i - 1] /\ i - 1 \in 1 .. n /\ t[i] # b
    BY <1>0, <1>4, <2>t
  <2>3. next \in [Bufs -> Bufs \cup {NULL}]
    BY DEF ListTypeOK
  <2>4. Chain(t)'
    <3>1. outbuf_head' = IF n + 1 = 0 THEN NULL ELSE t[1]
      BY <1>0, <1>2, <2>2
    <3>2. ASSUME NEW i \in 1 .. n + 1
          PROVE  next'[t[i]] = IF i = n + 1 THEN NULL ELSE t[i + 1]
      <4>1. CASE i = 1
        <5>1. next'[t[i]] = outbuf_head
          BY <1>2, <1>4, <2>2, <2>3, <4>1
        <5>2. n # 0 => t[2] = s[1]
          BY <1>0, <2>2
        <5> QED  BY <1>0, <1>1, <4>1, <5>1, <5>2 DEF Chain
      <4>2. CASE i # 1
        <5>1. i \in 2 .. n + 1 /\ i - 1 \in 1 .. n
          BY <1>0, <4>2
        <5>2. t[i] = s[i - 1] /\ t[i] # b
          BY <2>2, <5>1
        <5>3. next'[t[i]] = next[s[i - 1]]
          BY <1>0, <1>1, <1>2, <2>3, <5>1, <5>2
        <5>4. i # n + 1 => t[i + 1] = s[i] /\ i \in 1 .. n
          <6>1. i # n + 1 => i + 1 \in 2 .. n + 1
            BY <1>0
          <6>2. i # n + 1 => t[i + 1] = s[i + 1 - 1]
            BY <2>2, <6>1
          <6> QED  BY <1>0, <6>2
        <5>5. next[s[i - 1]] = IF i - 1 = n THEN NULL ELSE s[i - 1 + 1]
          BY <1>1, <5>1 DEF Chain
        <5> QED  BY <1>0, <5>1, <5>3, <5>4, <5>5
      <4> QED  BY <4>1, <4>2
    <3>3. ASSUME NEW i \in 1 .. n + 1, NEW j \in 1 .. n + 1, t[i] = t[j]
          PROVE  i = j
      <4>1. CASE i = 1 \/ j = 1
        BY <1>0, <2>2, <3>3, <4>1
      <4>2. CASE i # 1 /\ j # 1
        <5>1. i \in 2 .. n + 1 /\ j \in 2 .. n + 1
          BY <1>0, <4>2
        <5>2. s[i - 1] = s[j - 1] /\ i - 1 \in 1 .. n /\ j - 1 \in 1 .. n
          BY <2>2, <3>3, <5>1
        <5>3. i - 1 = j - 1
          BY <1>1, <5>2 DEF Chain
        <5> QED  BY <5>3, <1>0
      <4> QED  BY <4>1, <4>2
    <3> QED  BY <1>2, <3>1, <3>2, <3>3 DEF Chain
  <2>5. H \ {b} = heap \ {t[i] : i \in 1 .. n + 1}
    <3>1. ASSUME NEW x
          PROVE  x \in {t[i] : i \in 1 .. n + 1} <=> x = b \/ x \in {s[i] : i \in 1 .. n}
      <4>1. ASSUME NEW i \in 1 .. n PROVE s[i] \in {t[j] : j \in 1 .. n + 1}
        <5>1. i + 1 \in 1 .. n + 1 /\ t[i + 1] = s[i]
          BY <1>0, <2>t
        <5> QED  BY <5>1
      <4>2. b \in {t[j] : j \in 1 .. n + 1}
        <5>1. 1 \in 1 .. n + 1
          BY <1>0
        <5> QED  BY <2>2, <5>1
      <4>3. ASSUME NEW j \in 1 .. n + 1 PROVE t[j] = b \/ t[j] \in {s[i] : i \in 1 .. n}
        BY <1>0, <2>t
      <4> QED  BY <4>1, <4>2, <4>3
    <3> QED  BY <1>1, <3>1
  <2>6. HeldIs(H \ {b})'
    <3>1. t \in [1 .. outbuf_list_size' -> heap']
          /\ H \ {b} = heap' \ {t[i] : i \in 1 .. outbuf_list_size'}
      BY <1>2, <2>1, <2>5
    <3> QED  BY <2>4, <3>1 DEF HeldIs
  <2>7. ListTypeOK'
    <3>1. outbuf_head \in Bufs \cup {NULL} /\ n + 1 \in 0 .. MaxIdleOutbufs
      BY <1>0, <1>2 DEF ListTypeOK
    <3> QED  BY <1>2, <1>4, <2>3, <3>1 DEF ListTypeOK
  <2> QED  BY <1>4, <2>6, <2>7
<1>3. CASE /\ outbuf_list_size >= MaxIdleOutbufs
           /\ heap' = heap \ {b}
           /\ UNCHANGED <<outbuf_head, outbuf_list_size, next>>
  <2>1. s \in [1 .. n -> heap']
    BY <1>1, <1>3, <1>4
  <2>2. Chain(s)'
    BY <1>1, <1>3 DEF Chain
  <2>3. H \ {b} = heap' \ {s[i] : i \in 1 .. n}
    BY <1>1, <1>3
  <2>4. HeldIs(H \ {b})'
    BY <1>3, <2>1, <2>2, <2>3 DEF HeldIs
  <2>5. ListTypeOK'
    BY <1>3 DEF ListTypeOK
  <2> QED  BY <1>4, <2>4, <2>5
<1> QED  BY <1>2, <1>3 DEF outbuf_release

\* f walks the list from its head.
Walk(f) ==
    f = [i \in 0 .. Cardinality(Bufs) |->
           IF i = 0 THEN outbuf_head
           ELSE IF f[i - 1] = NULL THEN NULL ELSE next[f[i - 1]]]

LEMMA LinkIsWalk == Link = CHOOSE f : Walk(f)
BY DEF Link, Walk

LEMMA BufsFinite ==
    Cardinality(Bufs) \in Nat /\ IsFiniteSet(Bufs)
<1>1. IsFiniteSet(Bufs)
  BY BufsAssumption
<1> QED  BY <1>1, FS_CardinalityType

\* The walk visits the idle buffers in their order, and then nothing.
LEMMA WalkVisitsChain ==
    ASSUME ListTypeOK, NEW s \in [1 .. outbuf_list_size -> heap], Chain(s),
           outbuf_list_size <= Cardinality(Bufs)
    PROVE  \A i \in 0 .. Cardinality(Bufs) :
             Link[i] = IF i < outbuf_list_size THEN s[i + 1] ELSE NULL
<1> DEFINE n == outbuf_list_size
           N == Cardinality(Bufs)
<1>0. n \in Nat /\ N \in Nat /\ n <= N /\ heap \subseteq Bufs /\ NULL \notin Bufs
  BY BufsAssumption, BufsFinite, IdleAssumption DEF ListTypeOK
<1> HIDE DEF N
<1>1. PICK g : g = [i \in 0 .. N |-> IF i < n THEN s[i + 1] ELSE NULL]
  BY Zenon
<1>2. ASSUME NEW i \in 0 .. N, i < n
      PROVE  /\ i + 1 \in 1 .. n /\ s[i + 1] \in Bufs /\ s[i + 1] # NULL
             /\ next[s[i + 1]] = IF i + 1 = n THEN NULL ELSE s[i + 2]
  <2>1. i + 1 \in 1 .. n
    BY <1>0, <1>2
  <2>2. next[s[i + 1]] = IF i + 1 = n THEN NULL ELSE s[(i + 1) + 1]
    BY <2>1 DEF Chain
  <2>3. s[i + 1] \in heap
    BY <2>1
  <2> QED  BY <1>0, <2>1, <2>2, <2>3
<1>3. ASSUME NEW i \in 0 .. N
      PROVE  g[i] = IF i = 0 THEN outbuf_head
                    ELSE IF g[i - 1] = NULL THEN NULL ELSE next[g[i - 1]]
  <2>1. CASE i = 0
    BY <1>0, <1>1, <2>1 DEF Chain
  <2>2. CASE i # 0
    <3>1. i - 1 \in 0 .. N /\ i - 1 < i
      BY <1>0, <2>2
    <3>2. g[i - 1] = IF i - 1 < n THEN s[i] ELSE NULL
      BY <1>0, <1>1, <3>1
    <3>3. g[i] = IF i < n THEN s[i + 1] ELSE NULL
      BY <1>1
    <3>4. CASE i - 1 < n
      <4>1. s[i] # NULL /\ next[s[i]] = IF i = n THEN NULL ELSE s[i + 1]
        BY <1>2, <3>1, <3>4
      <4> QED  BY <1>0, <2>2, <3>2, <3>3, <3>4, <4>1
    <3>5. CASE ~(i - 1 < n)
      BY <1>0, <2>2, <3>2, <3>3, <3>5
    <3> QED  BY <3>4, <3>5
  <2> QED  BY <2>1, <2>2
<1>4. Walk(g)
  BY <1>1, <1>3 DEF Walk, N
<1>5. PICK f : Walk(f) /\ f = Link
  BY <1>4, LinkIsWalk
<1>6. f = [i \in 0 .. N |-> IF i = 0 THEN outbuf_head
                            ELSE IF f[i - 1] = NULL THEN NULL ELSE next[f[i - 1]]]
  BY <1>5 DEF Walk, N
<1> DEFINE S == {i \in 0 .. N : f[i] = g[i]}
<1>7. 0 \in S
  BY <1>0, <1>3, <1>6
<1>8. ASSUME NEW i \in 1 .. N, i - 1 \in S PROVE i \in S
  <2>1. i \in 0 .. N /\ i # 0 /\ f[i - 1] = g[i - 1]
    BY <1>0, <1>8
  <2>2. f[i] = IF f[i - 1] = NULL THEN NULL ELSE next[f[i - 1]]
    BY <1>6, <2>1
  <2> QED  BY <1>3, <2>1, <2>2
<1>9. \A i \in 0 .. N : i \in S
  <2> HIDE DEF S
  <2> QED  BY <1>0, <1>7, <1>8, InductionTo
<1> QED  BY <1>1, <1>5, <1>9 DEF N

\* What the inductive invariant says of the list is what ListSound says.
LEMMA HeldSound ==
    ASSUME ListTypeOK, NEW H, HeldIs(H)
    PROVE  ListSound /\ H = heap \ Idle
<1> DEFINE n == outbuf_list_size
           N == Cardinality(Bufs)
<1>0. n \in Nat /\ N \in Nat /\ heap \subseteq Bufs /\ NULL \notin Bufs
      /\ IsFiniteSet(Bufs) /\ n <= MaxIdleOutbufs
  BY BufsAssumption, BufsFinite, IdleAssumption DEF ListTypeOK
<1>1. PICK s \in [1 .. n -> heap] : Chain(s) /\ H = heap \ {s[i] : i \in 1 .. n}
  BY DEF HeldIs
<1> DEFINE R == {s[i] : i \in 1 .. n}
<1>2. IsFiniteSet(1 .. n) /\ Cardinality(1 .. n) = n
  BY <1>0, FS_Interval
<1>3. s \in Bijection(1 .. n, R)
  BY <1>1 DEF Chain, Bijection, Injection, Surjection, IsInjective
<1>4. IsFiniteSet(R) /\ Cardinality(R) = n
  <2>1. ExistsBijection(1 .. n, R)
    BY <1>3 DEF ExistsBijection
  <2> QED  BY <1>2, <2>1, FS_Bijection
<1>5. R \in SUBSET Bufs /\ R \subseteq heap
  BY <1>0, <1>1
<1>6. n <= N
  BY <1>0, <1>4, <1>5, FS_Subset
<1> HIDE DEF N
<1>7. \A i \in 0 .. N : Link[i] = IF i < n THEN s[i + 1] ELSE NULL
  BY <1>1, <1>6, WalkVisitsChain DEF N
<1>8. Idle = R
  <2>1. Idle = {Link[i] : i \in 0 .. N} \ {NULL}
    BY DEF Idle, N
  <2>2. ASSUME NEW i \in 0 .. N, Link[i] # NULL PROVE Link[i] \in R
    <3>1. i < n /\ i + 1 \in 1 .. n /\ Link[i] = s[i + 1]
      BY <1>0, <1>7, <2>2
    <3> QED  BY <3>1
  <2>3. ASSUME NEW i \in 1 .. n PROVE s[i] \in {Link[j] : j \in 0 .. N} /\ s[i] # NULL
    <3>1. i - 1 \in 0 .. N /\ i - 1 < n /\ (i - 1) + 1 = i
      BY <1>0, <1>6
    <3>2. Link[i - 1] = s[i]
      BY <1>7, <3>1
    <3>3. s[i] \in heap
      OBVIOUS
    <3> QED  BY <1>0, <3>1, <3>2, <3>3
  <2> QED  BY <2>1, <2>2, <2>3
<1>9. Link[n] = NULL
  BY <1>0, <1>6, <1>7
<1> QED  BY <1>0, <1>1, <1>4, <1>5, <1>8, <1>9 DEF ListSound

-----------------------------------------------------------------------------
(***************************************************************************)
(* Parts of sequences, and where bytes lie.                                *)
(***************************************************************************)

\* The n bytes behind the first `at' ones.
LEMMA BytesAtFacts ==
    ASSUME NEW data \in Seq(Byte), NEW at \in Nat, NEW n \in Nat,
           at + n <= Len(data)
    PROVE  Part(BytesAt(data, at, n), Byte, data, at + 1, at + n)
<1>1. BytesAt(data, at, n) = SubSeq(data, at + 1, at + n)
  <2>1. (IF at + n > Len(data) THEN Len(data) ELSE at + n) = at + n
    OBVIOUS
  <2> QED  BY <2>1 DEF BytesAt
<1>2. at + 1 \in Nat /\ at + n \in Nat /\ 1 <= at + 1 /\ at + 1 <= (at + n) + 1
  OBVIOUS
<1> QED  BY <1>1, <1>2, PartFacts

LEMMA CStringFacts ==
    ASSUME NEW s \in Seq(Byte)
    PROVE  /\ CString(s) \in Seq(Byte)
           /\ (\A i \in 1 .. Len(s) : s[i] # 0) => CString(s) = s
<1> DEFINE I == {i \in 1 .. Len(s) : s[i] = 0}
<1>1. PICK z : z = SelectInSeq(s, LAMBDA b : b = 0)
  BY Zenon
<1>2. z = IF I # {} THEN Min(I) ELSE 0
  BY <1>1 DEF SelectInSeq
<1>3. CString(s) = IF z = 0 THEN s ELSE SubSeq(s, 1, z - 1)
  BY <1>1 DEF CString
<1>4. CASE I = {}
  BY <1>2, <1>3, <1>4
<1>5. CASE I # {}
  <2>1. I \subseteq Nat
    OBVIOUS
  <2>2. z \in I
    BY <1>2, <1>5, <2>1, LeastElement DEF Min
  <2>3. z - 1 \in Nat /\ 1 \in Nat /\ 1 <= 1 /\ 1 <= z - 1 + 1 /\ z - 1 <= Len(s)
    BY <2>2
  <2>4. PICK q : q = SubSeq(s, 1, z - 1)
    BY Zenon
  <2>5. Part(q, Byte, s, 1, z - 1)
    BY <2>3, <2>4, PartFacts
  <2>6. q \in Seq(Byte)
    BY <2>5 DEF Part
  <2> QED  BY <1>3, <2>2, <2>4, <2>6
<1> QED  BY <1>4, <1>5

\* Decoding drops the leading zeros and nothing else.
LEMMA RsaDecodeFacts ==
    ASSUME NEW s \in Seq(Byte)
    PROVE  /\ rsa_decode(s) \in Seq(Byte)
           /\ Len(rsa_decode(s)) = Len(s) - 1 =>
                \A i \in 1 .. Len(s) - 1 : rsa_decode(s)[i] = s[i + 1]
<1> DEFINE I == {i \in 1 .. Len(s) : s[i] # 0}
<1>1. PICK z : z = SelectInSeq(s, LAMBDA b : b # 0)
  BY Zenon
<1>2. z = IF I # {} THEN Min(I) ELSE 0
  BY <1>1 DEF SelectInSeq
<1>3. rsa_decode(s) = IF z = 0 THEN <<>> ELSE SubSeq(s, z, Len(s))
  BY <1>1 DEF rsa_decode
<1>4. CASE I = {}
  <2>1. rsa_decode(s) = <<>>
    BY <1>2, <1>3, <1>4
  <2>2. <<>> \in Seq(Byte) /\ Len(<<>>) = 0
    OBVIOUS
  <2> QED  BY <2>1, <2>2
<1>5. CASE I # {}
  <2>1. I \subseteq Nat
    OBVIOUS
  <2>2. z \in I
    BY <1>2, <1>5, <2>1, LeastElement DEF Min
  <2>3. z \in Nat /\ Len(s) \in Nat /\ 1 <= z /\ z <= Len(s) + 1 /\ Len(s) <= Len(s)
    BY <2>2
  <2>4. PICK q : q = rsa_decode(s)
    BY Zenon
  <2>5. q = SubSeq(s, z, Len(s))
    BY <1>3, <2>2, <2>4
  <2>6. Part(q, Byte, s, z, Len(s))
    BY <2>3, <2>5, PartFacts
  <2>7. q \in Seq(Byte)
    BY <2>6 DEF Part
  <2>8. ASSUME Len(q) = Len(s) - 1, NEW i \in 1 .. Len(s) - 1
        PROVE  q[i] = s[i + 1]
    <3>1. Len(q) = Len(s) - z + 1
      BY <2>6 DEF Part
    <3>2. z = 2
      BY <2>3, <2>8, <3>1
    <3>3. i \in 1 .. Len(s) - z + 1 /\ z + i - 1 = i + 1
      BY <3>2
    <3> QED  BY <2>6, <3>3 DEF Part
  <2> QED  BY <2>4, <2>7, <2>8
<1> QED  BY <1>4, <1>5

\* w lies in x behind the first `at' bytes.
Lies(x, at, w) ==
    /\ at + Len(w) <= Len(x)
    /\ \A i \in 1 .. Len(w) : x[at + i] = w[i]

LEMMA LiesLast ==
    ASSUME NEW x \in Seq(Byte), NEW y \in Seq(Byte)
    PROVE  x \o y \in Seq(Byte) /\ Lies(x \o y, Len(x), y)
           /\ Len(x \o y) = Len(x) + Len(y)
<1>1. PICK z : z = x \o y
  BY Zenon
<1>2. Joined(z, Byte, x, y)
  BY <1>1, ConcatFacts
<1>3. /\ z \in Seq(Byte) /\ Len(z) = Len(x) + Len(y)
      /\ \A i \in 1 .. Len(y) : z[Len(x) + i] = y[i]
  BY <1>2 DEF Joined
<1>4. Lies(z, Len(x), y)
  BY <1>3 DEF Lies
<1> QED  BY <1>1, <1>3, <1>4

LEMMA LiesStill ==
    ASSUME NEW x \in Seq(Byte), NEW y \in Seq(Byte), NEW at \in Nat,
           NEW w \in Seq(Byte), Lies(x, at, w)
    PROVE  Lies(x \o y, at, w)
<1>1. PICK z : z = x \o y
  BY Zenon
<1>2. Joined(z, Byte, x, y)
  BY <1>1, ConcatFacts
<1>3. /\ z \in Seq(Byte) /\ Len(z) = Len(x) + Len(y)
      /\ \A i \in 1 .. Len(x) : z[i] = x[i]
  BY <1>2 DEF Joined
<1>4. at + Len(w) <= Len(x) /\ \A i \in 1 .. Len(w) : x[at + i] = w[i]
  BY DEF Lies
<1>5. at + Len(w) <= Len(z)
  BY <1>3, <1>4
<1>6. ASSUME NEW i \in 1 .. Len(w) PROVE z[at + i] = w[i]
  <2>1. at + i \in 1 .. Len(x)
    BY <1>4
  <2> QED  BY <1>3, <1>4, <2>1
<1>7. Lies(z, at, w)
  BY <1>5, <1>6 DEF Lies
<1> QED  BY <1>1, <1>7

LEMMA LiesHolds ==
    ASSUME NEW x \in Seq(Byte), NEW at \in Nat, NEW w \in Seq(Byte), Lies(x, at, w)
    PROVE  Holds(x, at, w)
<1>1. ASSUME NEW i \in 1 .. Len(w) PROVE ByteAt(x, at + i - 1) = w[i]
  <2>1. at + i - 1 \in 0 .. Len(x) - 1 /\ at + i - 1 + 1 = at + i
    BY DEF Lies
  <2>2. x[at + i] = w[i]
    BY DEF Lies
  <2> QED  BY <2>1, <2>2 DEF ByteAt
<1> QED  BY <1>1 DEF Holds

\* What lies there is what is read from there.
LEMMA LiesBytesAt ==
    ASSUME NEW x \in Seq(Byte), NEW at \in Nat, NEW w \in Seq(Byte), Lies(x, at, w)
    PROVE  BytesAt(x, at, Len(w)) = w
<1>0. Len(w) \in Nat /\ at + Len(w) <= Len(x)
  BY DEF Lies
<1>1. PICK z : z = BytesAt(x, at, Len(w))
  BY Zenon
<1>2. Part(z, Byte, x, at + 1, at + Len(w))
  BY <1>0, <1>1, BytesAtFacts
<1>3. at + Len(w) - (at + 1) + 1 = Len(w)
  BY <1>0
<1>4. z \in Seq(Byte) /\ Len(z) = Len(w)
  BY <1>2, <1>3 DEF Part
<1>5. ASSUME NEW i \in 1 .. Len(w) PROVE z[i] = w[i]
  <2>1. z[i] = x[at + 1 + i - 1]
    BY <1>2, <1>3 DEF Part
  <2>2. at + 1 + i - 1 = at + i
    OBVIOUS
  <2> QED  BY <2>1, <2>2 DEF Lies
<1>6. z = w
  BY <1>4, <1>5
<1> QED  BY <1>1, <1>6

-----------------------------------------------------------------------------
(***************************************************************************)
(* Reading a request.                                                      *)
(***************************************************************************)

LEMMA LayoutFacts ==
    /\ NameSize \in Nat /\ NameSize >= 3 /\ NameSize < U16 /\ RsaLen \in Nat
    /\ 16 + NameSize + 2 + (NameSize - 1) <= RsaLen - 1
    /\ MaxOutbufLen \in Nat /\ MaxOutbufLen < U16
    /\ 0 \in Byte /\ 1 \in Byte /\ 2 \in Byte /\ 3 \in Byte /\ 4 \in Byte /\ 5 \in Byte
    /\ ByteMod - 2 \in Byte
<1>1. NameSize \in 3 .. U16 - 1 /\ MaxOutbufLen \in 0 .. U16 - 1 /\ ByteMod > 5
  BY LayoutAssumption
<1> QED  BY <1>1, ByteFacts, LayoutAssumption

\* A string inside the data, cut to its destination.
LEMMA TibiaString ==
    ASSUME NEW d \in Seq(Byte), NEW at \in Nat, at + 2 + (NameSize - 1) <= Len(d)
    PROVE  LET t == decode_tibia_string(d, at, NameSize)
               len == decode_u16_le(d, at)
           IN  /\ t.str \in Seq(Byte) /\ Len(t.str) < NameSize
               /\ t.last \in Nat /\ t.last <= at + 2 + (NameSize - 1)
               /\ t.ret = (len + 2) % U16 /\ t.ret \in Nat
               /\ len < NameSize => t.str = BytesAt(d, at + 2, len)
<1>1. PICK len : len = decode_u16_le(d, at)
  BY Zenon
<1>2. len \in 0 .. U16 - 1
  BY <1>1, DecodeTypes
<1>3. PICK n : n = IF len >= NameSize THEN NameSize - 1 ELSE len
  BY Zenon
<1>4. n \in Nat /\ n <= NameSize - 1
  BY <1>2, <1>3, LayoutFacts, ByteFacts
<1>5. PICK t : t = decode_tibia_string(d, at, NameSize)
  BY Zenon
<1>6. /\ t.ret = (len + 2) % U16 /\ t.str = BytesAt(d, at + 2, n)
      /\ t.last = at + 2 + n
  BY <1>1, <1>3, <1>5 DEF decode_tibia_string
<1>7. Part(t.str, Byte, d, at + 2 + 1, at + 2 + n)
  <2>1. at + 2 \in Nat /\ at + 2 + n <= Len(d)
    BY <1>4, LayoutFacts
  <2> QED  BY <1>4, <1>6, <2>1, BytesAtFacts
<1>8. t.str \in Seq(Byte) /\ Len(t.str) < NameSize
  <2>0. PICK s : s = t.str
    BY Zenon
  <2>5. PICK m : m = at + 2 + 1
    BY Zenon
  <2>6. PICK k : k = at + 2 + n
    BY Zenon
  <2>3. Part(s, Byte, d, m, k)
    BY <1>7, <2>0, <2>5, <2>6
  <2>7. s \in Seq(Byte) /\ Len(s) = k - m + 1
    BY <2>3 DEF Part
  <2>4. s \in Seq(Byte) /\ Len(s) = at + 2 + n - (at + 2 + 1) + 1
    BY <1>4, <2>5, <2>6, <2>7
  <2>1. t.str \in Seq(Byte) /\ Len(t.str) = at + 2 + n - (at + 2 + 1) + 1
    BY <2>0, <2>4
  <2>2. at + 2 + n - (at + 2 + 1) + 1 = n /\ n < NameSize
    BY <1>4, LayoutFacts
  <2> QED  BY <2>1, <2>2
<1>9. t.last \in Nat /\ t.last <= at + 2 + (NameSize - 1)
  BY <1>4, <1>6, LayoutFacts
<1>10. t.ret \in Nat
  BY <1>2, <1>6, ByteFacts
<1>11. len < NameSize => t.str = BytesAt(d, at + 2, len)
  BY <1>2, <1>3, <1>6, LayoutFacts, ByteFacts
<1> QED  BY <1>1, <1>5, <1>6, <1>8, <1>9, <1>10, <1>11

LEMMA CredentialsInBounds ==
    ASSUME NEW d \in Seq(Byte), Len(d) = RsaLen - 1
    PROVE  LET cred == Credentials(d)
           IN  /\ cred.acc \in Seq(Byte) /\ Len(cred.acc) < NameSize
               /\ cred.pwd \in Seq(Byte) /\ Len(cred.pwd) < NameSize
               /\ cred.last <= Len(d)
<1>0. 16 \in Nat /\ 16 + 2 + (NameSize - 1) <= Len(d)
  BY LayoutFacts
<1>1. PICK a : a = decode_tibia_string(d, 16, NameSize)
  BY Zenon
<1>2. /\ a.str \in Seq(Byte) /\ Len(a.str) < NameSize /\ a.ret \in Nat
      /\ a.last \in Nat /\ a.last <= 16 + 2 + (NameSize - 1)
  BY <1>0, <1>1, TibiaString
<1>3. PICK b : b = IF a.ret > NameSize THEN [ret |-> 0, str |-> <<>>, last |-> a.last]
                   ELSE decode_tibia_string(d, 16 + a.ret, NameSize)
  BY Zenon
<1>4. b.str \in Seq(Byte) /\ Len(b.str) < NameSize /\ b.last <= Len(d)
  <2>1. CASE a.ret > NameSize
    <3>1. b.str = <<>> /\ b.last = a.last
      BY <1>3, <2>1
    <3>2. <<>> \in Seq(Byte) /\ Len(<<>>) = 0
      OBVIOUS
    <3> QED  BY <1>0, <1>2, <3>1, <3>2, LayoutFacts
  <2>2. CASE ~(a.ret > NameSize)
    <3>0. PICK n : n = 16 + a.ret
      BY Zenon
    <3>4. n \in Nat /\ n <= 16 + NameSize
      BY <1>2, <2>2, <3>0, LayoutFacts, SMTT(40)
    <3>1. n \in Nat /\ n + 2 + (NameSize - 1) <= Len(d)
      BY <3>4, LayoutFacts
    <3>2. b = decode_tibia_string(d, n, NameSize)
      BY <1>3, <2>2, <3>0
    <3>3. /\ b.str \in Seq(Byte) /\ Len(b.str) < NameSize /\ b.last \in Nat
          /\ b.last <= n + 2 + (NameSize - 1)
      BY <3>1, <3>2, TibiaString
    <3>5. PICK l : l = b.last
      BY Zenon
    <3>6. l <= Len(d)
      BY <3>1, <3>3, <3>5, LayoutFacts
    <3> QED  BY <3>3, <3>5, <3>6
  <2> QED  BY <2>1, <2>2
<1>5. PICK cred : cred = Credentials(d)
  BY Zenon
<1>6. cred.acc = a.str /\ cred.pwd = b.str /\ cred.last = b.last
  BY <1>1, <1>3, <1>5 DEF Credentials
<1> QED  BY <1>2, <1>4, <1>5, <1>6

\* x and then y: where a word lies in x, it still does.
Extends(z, x, y) ==
    /\ z \in Seq(Byte) /\ Len(z) = Len(x) + Len(y) /\ Lies(z, Len(x), y)
    /\ \A at \in Nat, w \in Seq(Byte) : Lies(x, at, w) => Lies(z, at, w)

LEMMA ConcatExtends ==
    ASSUME NEW x \in Seq(Byte), NEW y \in Seq(Byte)
    PROVE  Extends(x \o y, x, y)
<1>1. x \o y \in Seq(Byte) /\ Lies(x \o y, Len(x), y)
      /\ Len(x \o y) = Len(x) + Len(y)
  BY LiesLast
<1>2. \A at \in Nat, w \in Seq(Byte) : Lies(x, at, w) => Lies(x \o y, at, w)
  BY LiesStill
<1> QED  BY <1>1, <1>2 DEF Extends

\* Where the client puts what it sends.
Layout(z, r, at) ==
    /\ z \in Seq(Byte)
    /\ Lies(z, at, encode_u32_le(r.key[1])) /\ Lies(z, at + 4, encode_u32_le(r.key[2]))
    /\ Lies(z, at + 8, encode_u32_le(r.key[3])) /\ Lies(z, at + 12, encode_u32_le(r.key[4]))
    /\ Lies(z, at + 16, encode_u16_le(r.alen)) /\ Lies(z, at + 18, r.acc)
    /\ Lies(z, at + 18 + Len(r.acc), encode_u16_le(r.plen))
    /\ Lies(z, at + 20 + Len(r.acc), r.pwd)

LEMMA RequestFacts ==
    ASSUME NEW r \in Request
    PROVE  /\ \A i \in 1 .. 4 : r.key[i] \in 0 .. U32 - 1
           /\ r.key \in Keys /\ \A i \in 1 .. 4 : r.key[i] \in Int
           /\ r.alen \in Int /\ r.plen \in Int
           /\ r.alen \in 0 .. U16 - 1 /\ r.plen \in 0 .. U16 - 1
           /\ r.acc \in Seq(Byte) /\ r.pwd \in Seq(Byte)
           /\ Len(r.acc) \in Nat /\ Len(r.pwd) \in Nat
           /\ 21 + Len(r.acc) + Len(r.pwd) <= RsaLen
<1>1. /\ r.key \in [1 .. 4 -> 0 .. U32 - 1]
      /\ r.alen \in 0 .. U16 - 1 /\ r.plen \in 0 .. U16 - 1
      /\ r.acc \in Seq(Byte) /\ r.pwd \in Seq(Byte)
      /\ 21 + Len(r.acc) + Len(r.pwd) <= RsaLen
  BY DEF Request
<1>2. 0 .. U32 - 1 \subseteq Nat
  BY ByteFacts
<1>3. r.key \in Keys
  BY <1>1, <1>2 DEF Keys
<1>4. ASSUME NEW s \in Seq(Byte) PROVE Len(s) \in Nat
  OBVIOUS
<1>5. Len(r.acc) \in Nat /\ Len(r.pwd) \in Nat
  BY <1>1, <1>4
<1>6. \A n \in 0 .. U16 - 1 : n \in Int
  BY ByteFacts
<1>7. \A i \in 1 .. 4 : r.key[i] \in 0 .. U32 - 1 /\ r.key[i] \in Int
  BY <1>1, <1>2
<1> QED  BY <1>1, <1>3, <1>5, <1>6, <1>7

LEMMA PlainLayout ==
    ASSUME NEW r \in Request
    PROVE  Layout(Plain(r), r, 1) /\ Len(Plain(r)) = RsaLen
<1>1. PICK acc : acc = r.acc
  BY Zenon
<1>2. PICK pwd : pwd = r.pwd
  BY Zenon
<1>3. PICK k1 : k1 = encode_u32_le(r.key[1])
  BY Zenon
<1>4. PICK k2 : k2 = encode_u32_le(r.key[2])
  BY Zenon
<1>5. PICK k3 : k3 = encode_u32_le(r.key[3])
  BY Zenon
<1>6. PICK k4 : k4 = encode_u32_le(r.key[4])
  BY Zenon
<1>7. PICK e1 : e1 = encode_u16_le(r.alen)
  BY Zenon
<1>8. PICK e2 : e2 = encode_u16_le(r.plen)
  BY Zenon
<1>9. /\ k1 \in Seq(Byte) /\ Len(k1) = 4 /\ k2 \in Seq(Byte) /\ Len(k2) = 4
      /\ k3 \in Seq(Byte) /\ Len(k3) = 4 /\ k4 \in Seq(Byte) /\ Len(k4) = 4
  <2>1. \A i \in 1 .. 4 : r.key[i] \in Int
    BY RequestFacts
  <2> QED  BY <1>3, <1>4, <1>5, <1>6, <2>1, EncodeU32
<1>10. e1 \in Seq(Byte) /\ Len(e1) = 2 /\ e2 \in Seq(Byte) /\ Len(e2) = 2
  <2>1. r.alen \in Int /\ r.plen \in Int
    BY RequestFacts
  <2> QED  BY <1>7, <1>8, <2>1, EncodeU16
<1>11. /\ acc \in Seq(Byte) /\ pwd \in Seq(Byte) /\ RsaLen \in Nat
       /\ Len(acc) \in Nat /\ Len(pwd) \in Nat /\ 21 + Len(acc) + Len(pwd) <= RsaLen
  BY <1>1, <1>2, RequestFacts, LayoutFacts
<1>12. PICK p0 : p0 = <<0>>
  BY Zenon
<1>13. p0 \in Seq(Byte) /\ Len(p0) = 1
  BY <1>12, LayoutFacts
<1>14. PICK p1 : p1 = p0 \o k1
  BY Zenon
<1>15. Extends(p1, p0, k1)
  BY <1>9, <1>10, <1>11, <1>13, <1>14, ConcatExtends
<1>16. /\ p1 \in Seq(Byte) /\ Len(p1) = 5
       /\ Lies(p1, 1, k1)
  <2>1. p1 \in Seq(Byte) /\ Len(p1) = Len(p0) + Len(k1) /\ Lies(p1, Len(p0), k1)
    BY <1>15 DEF Extends
  <2>2. \A at \in Nat, w \in Seq(Byte) : Lies(p0, at, w) => Lies(p1, at, w)
    BY <1>15 DEF Extends
  <2>3. Len(p1) = 5
    BY <1>9, <1>10, <1>11, <1>13, <2>1
  <2>4. Lies(p1, 1, k1)
    BY <1>13, <2>1
  <2> QED  BY <2>1, <2>3, <2>4
<1>17. PICK p2 : p2 = p1 \o k2
  BY Zenon
<1>18. Extends(p2, p1, k2)
  BY <1>9, <1>10, <1>11, <1>16, <1>17, ConcatExtends
<1>19. /\ p2 \in Seq(Byte) /\ Len(p2) = 9
       /\ Lies(p2, 1, k1)
       /\ Lies(p2, 5, k2)
  <2>1. p2 \in Seq(Byte) /\ Len(p2) = Len(p1) + Len(k2) /\ Lies(p2, Len(p1), k2)
    BY <1>18 DEF Extends
  <2>2. \A at \in Nat, w \in Seq(Byte) : Lies(p1, at, w) => Lies(p2, at, w)
    BY <1>18 DEF Extends
  <2>3. Len(p2) = 9
    BY <1>9, <1>10, <1>11, <1>16, <2>1
  <2>4. Lies(p2, 5, k2)
    BY <1>16, <2>1
  <2>5. 1 \in Nat /\ 19 + Len(acc) \in Nat
    BY <1>11
  <2> QED  BY <1>9, <1>10, <1>11, <1>16, <2>1, <2>2, <2>3, <2>4, <2>5
<1>20. PICK p3 : p3 = p2 \o k3
  BY Zenon
<1>21. Extends(p3, p2, k3)
  BY <1>9, <1>10, <1>11, <1>19, <1>20, ConcatExtends
<1>22. /\ p3 \in Seq(Byte) /\ Len(p3) = 13
       /\ Lies(p3, 1, k1)
       /\ Lies(p3, 5, k2)
       /\ Lies(p3, 9, k3)
  <2>1. p3 \in Seq(Byte) /\ Len(p3) = Len(p2) + Len(k3) /\ Lies(p3, Len(p2), k3)
    BY <1>21 DEF Extends
  <2>2. \A at \in Nat, w \in Seq(Byte) : Lies(p2, at, w) => Lies(p3, at, w)
    BY <1>21 DEF Extends
  <2>3. Len(p3) = 13
    BY <1>9, <1>10, <1>11, <1>19, <2>1
  <2>4. Lies(p3, 9, k3)
    BY <1>19, <2>1
  <2>5. 5 \in Nat /\ 19 + Len(acc) \in Nat
    BY <1>11
  <2> QED  BY <1>9, <1>10, <1>11, <1>19, <2>1, <2>2, <2>3, <2>4, <2>5
<1>23. PICK p4 : p4 = p3 \o k4
  BY Zenon
<1>24. Extends(p4, p3, k4)
  BY <1>9, <1>10, <1>11, <1>22, <1>23, ConcatExtends
<1>25. /\ p4 \in Seq(Byte) /\ Len(p4) = 17
       /\ Lies(p4, 1, k1)
       /\ Lies(p4, 5, k2)
       /\ Lies(p4, 9, k3)
       /\ Lies(p4, 13, k4)
  <2>1. p4 \in Seq(Byte) /\ Len(p4) = Len(p3) + Len(k4) /\ Lies(p4, Len(p3), k4)
    BY <1>24 DEF Extends
  <2>2. \A at \in Nat, w \in Seq(Byte) : Lies(p3, at, w) => Lies(p4, at, w)
    BY <1>24 DEF Extends
  <2>3. Len(p4) = 17
    BY <1>9, <1>10, <1>11, <1>22, <2>1
  <2>4. Lies(p4, 13, k4)
    BY <1>22, <2>1
  <2>5. 9 \in Nat /\ 19 + Len(acc) \in Nat
    BY <1>11
  <2> QED  BY <1>9, <1>10, <1>11, <1>22, <2>1, <2>2, <2>3, <2>4, <2>5
<1>26. PICK p5 : p5 = p4 \o e1
  BY Zenon
<1>27. Extends(p5, p4, e1)
  BY <1>9, <1>10, <1>11, <1>25, <1>26, ConcatExtends
<1>28. /\ p5 \in Seq(Byte) /\ Len(p5) = 19
       /\ Lies(p5, 1, k1)
       /\ Lies(p5, 5, k2)
       /\ Lies(p5, 9, k3)
       /\ Lies(p5, 13, k4)
       /\ Lies(p5, 17, e1)
  <2>1. p5 \in Seq(Byte) /\ Len(p5) = Len(p4) + Len(e1) /\ Lies(p5, Len(p4), e1)
    BY <1>27 DEF Extends
  <2>2. \A at \in Nat, w \in Seq(Byte) : Lies(p4, at, w) => Lies(p5, at, w)
    BY <1>27 DEF Extends
  <2>3. Len(p5) = 19
    BY <1>9, <1>10, <1>11, <1>25, <2>1
  <2>4. Lies(p5, 17, e1)
    BY <1>25, <2>1
  <2>5. 13 \in Nat /\ 19 + Len(acc) \in Nat
    BY <1>11
  <2> QED  BY <1>9, <1>10, <1>11, <1>25, <2>1, <2>2, <2>3, <2>4, <2>5
<1>29. PICK p6 : p6 = p5 \o acc
  BY Zenon
<1>30. Extends(p6, p5, acc)
  BY <1>9, <1>10, <1>11, <1>28, <1>29, ConcatExtends
<1>31. /\ p6 \in Seq(Byte) /\ Len(p6) = 19 + Len(acc)
       /\ Lies(p6, 1, k1)
       /\ Lies(p6, 5, k2)
       /\ Lies(p6, 9, k3)
       /\ Lies(p6, 13, k4)
       /\ Lies(p6, 17, e1)
       /\ Lies(p6, 19, acc)
  <2>1. p6 \in Seq(Byte) /\ Len(p6) = Len(p5) + Len(acc) /\ Lies(p6, Len(p5), acc)
    BY <1>30 DEF Extends
  <2>2. \A at \in Nat, w \in Seq(Byte) : Lies(p5, at, w) => Lies(p6, at, w)
    BY <1>30 DEF Extends
  <2>3. Len(p6) = 19 + Len(acc)
    BY <1>9, <1>10, <1>11, <1>28, <2>1
  <2>4. Lies(p6, 19, acc)
    BY <1>28, <2>1
  <2>5. 17 \in Nat /\ 19 + Len(acc) \in Nat
    BY <1>11
  <2> QED  BY <1>9, <1>10, <1>11, <1>28, <2>1, <2>2, <2>3, <2>4, <2>5
<1>32. PICK p7 : p7 = p6 \o e2
  BY Zenon
<1>33. Extends(p7, p6, e2)
  BY <1>9, <1>10, <1>11, <1>31, <1>32, ConcatExtends
<1>34. /\ p7 \in Seq(Byte) /\ Len(p7) = 21 + Len(acc)
       /\ Lies(p7, 1, k1)
       /\ Lies(p7, 5, k2)
       /\ Lies(p7, 9, k3)
       /\ Lies(p7, 13, k4)
       /\ Lies(p7, 17, e1)
       /\ Lies(p7, 19, acc)
       /\ Lies(p7, 19 + Len(acc), e2)
  <2>1. p7 \in Seq(Byte) /\ Len(p7) = Len(p6) + Len(e2) /\ Lies(p7, Len(p6), e2)
    BY <1>33 DEF Extends
  <2>2. \A at \in Nat, w \in Seq(Byte) : Lies(p6, at, w) => Lies(p7, at, w)
    BY <1>33 DEF Extends
  <2>3. Len(p7) = 21 + Len(acc)
    BY <1>9, <1>10, <1>11, <1>31, <2>1
  <2>4. Lies(p7, 19 + Len(acc), e2)
    BY <1>31, <2>1
  <2>5. 19 \in Nat /\ 19 + Len(acc) \in Nat
    BY <1>11
  <2> QED  BY <1>9, <1>10, <1>11, <1>31, <2>1, <2>2, <2>3, <2>4, <2>5
<1>35. PICK p8 : p8 = p7 \o pwd
  BY Zenon
<1>36. Extends(p8, p7, pwd)
  BY <1>9, <1>10, <1>11, <1>34, <1>35, ConcatExtends
<1>37. /\ p8 \in Seq(Byte) /\ Len(p8) = 21 + Len(acc) + Len(pwd)
       /\ Lies(p8, 1, k1)
       /\ Lies(p8, 5, k2)
       /\ Lies(p8, 9, k3)
       /\ Lies(p8, 13, k4)
       /\ Lies(p8, 17, e1)
       /\ Lies(p8, 19, acc)
       /\ Lies(p8, 19 + Len(acc), e2)
       /\ Lies(p8, 21 + Len(acc), pwd)
  <2>1. p8 \in Seq(Byte) /\ Len(p8) = Len(p7) + Len(pwd) /\ Lies(p8, Len(p7), pwd)
    BY <1>36 DEF Extends
  <2>2. \A at \in Nat, w \in Seq(Byte) : Lies(p7, at, w) => Lies(p8, at, w)
    BY <1>36 DEF Extends
  <2>3. Len(p8) = 21 + Len(acc) + Len(pwd)
    BY <1>9, <1>10, <1>11, <1>34, <2>1
  <2>4. Lies(p8, 21 + Len(acc), pwd)
    BY <1>34, <2>1
  <2>5. 19 + Len(acc) \in Nat /\ 19 + Len(acc) \in Nat
    BY <1>11
  <2> QED  BY <1>9, <1>10, <1>11, <1>34, <2>1, <2>2, <2>3, <2>4, <2>5
<1>38. PICK l : l = RsaLen - Len(p8)
  BY Zenon
<1>39. PICK pad : pad = [i \in 1 .. l |-> 1]
  BY Zenon
<1>40. pad \in Seq(Byte) /\ Len(pad) = RsaLen - Len(p8)
  <2>1. l \in Nat
    BY <1>11, <1>37, <1>38
  <2>2. pad \in [1 .. l -> Byte]
    BY <1>39, LayoutFacts
  <2> QED  BY <1>38, <2>1, <2>2, FunctionIsSeq
<1>41. PICK z : z = Plain(r)
  BY Zenon
<1>42. z = p8 \o pad
  BY <1>1, <1>2, <1>3, <1>4, <1>5, <1>6, <1>7, <1>8, <1>12, <1>14, <1>17, <1>20, <1>23, <1>26, <1>29, <1>32, <1>35, <1>38, <1>39, <1>41 DEF Plain
<1>43. Extends(z, p8, pad)
  BY <1>37, <1>40, <1>42, ConcatExtends
<1>44. /\ z \in Seq(Byte) /\ Len(z) = RsaLen
       /\ Lies(z, 1, k1)
       /\ Lies(z, 5, k2)
       /\ Lies(z, 9, k3)
       /\ Lies(z, 13, k4)
       /\ Lies(z, 17, e1)
       /\ Lies(z, 19, acc)
       /\ Lies(z, 19 + Len(acc), e2)
       /\ Lies(z, 21 + Len(acc), pwd)
  <2>1. z \in Seq(Byte) /\ Len(z) = Len(p8) + Len(pad)
    BY <1>43 DEF Extends
  <2>2. \A at \in Nat, w \in Seq(Byte) : Lies(p8, at, w) => Lies(z, at, w)
    BY <1>43 DEF Extends
  <2>3. Len(z) = RsaLen
    BY <1>11, <1>37, <1>40, <2>1
  <2>4. 19 + Len(acc) \in Nat /\ 21 + Len(acc) \in Nat
    BY <1>11
  <2> QED  BY <1>9, <1>10, <1>11, <1>37, <2>1, <2>2, <2>3, <2>4
<1>45. /\ 1 + 4 = 5 /\ 1 + 8 = 9 /\ 1 + 12 = 13 /\ 1 + 16 = 17 /\ 1 + 18 = 19
       /\ 1 + 18 + Len(acc) = 19 + Len(acc) /\ 1 + 20 + Len(acc) = 21 + Len(acc)
  BY <1>11
<1>46. Layout(z, r, 1)
  BY <1>1, <1>2, <1>3, <1>4, <1>5, <1>6, <1>7, <1>8, <1>44, <1>45, Zenon DEF Layout
<1> QED  BY <1>41, <1>44, <1>46

LEMMA LiesTail ==
    ASSUME NEW p \in Seq(Byte), NEW d \in Seq(Byte), Len(d) = Len(p) - 1,
           \A i \in 1 .. Len(p) - 1 : d[i] = p[i + 1],
           NEW at \in Nat, NEW w \in Seq(Byte), Lies(p, at + 1, w)
    PROVE  Lies(d, at, w)
<1>1. at + 1 + Len(w) <= Len(p)
  BY DEF Lies
<1>2. ASSUME NEW i \in 1 .. Len(w) PROVE d[at + i] = w[i]
  <2>1. at + i \in 1 .. Len(p) - 1 /\ at + i + 1 = at + 1 + i
    BY <1>1
  <2>2. p[at + 1 + i] = w[i]
    BY DEF Lies
  <2> QED  BY <2>1, <2>2
<1> QED  BY <1>1, <1>2 DEF Lies

\* A block that lost only its leading zero byte is read as it was written.
LEMMA DecodedLayout ==
    ASSUME NEW r \in Request, Len(rsa_decode(Plain(r))) = RsaLen - 1
    PROVE  Layout(rsa_decode(Plain(r)), r, 0)
<1>1. PICK p : p = Plain(r)
  BY Zenon
<1>2. PICK d : d = rsa_decode(p)
  BY Zenon
<1>3. Layout(p, r, 1) /\ Len(p) = RsaLen /\ p \in Seq(Byte)
  <2>1. Layout(p, r, 1) /\ Len(p) = RsaLen
    BY <1>1, PlainLayout
  <2> QED  BY <2>1 DEF Layout
<1>4. Len(d) = Len(p) - 1
  BY <1>1, <1>2, <1>3
<1>5. d \in Seq(Byte) /\ \A i \in 1 .. Len(p) - 1 : d[i] = p[i + 1]
  BY <1>2, <1>3, <1>4, RsaDecodeFacts
<1>6. \A at \in Nat, w \in Seq(Byte) : Lies(p, at + 1, w) => Lies(d, at, w)
  BY <1>3, <1>4, <1>5, LiesTail
<1>7. /\ \A i \in 1 .. 4 : encode_u32_le(r.key[i]) \in Seq(Byte)
      /\ encode_u16_le(r.alen) \in Seq(Byte) /\ encode_u16_le(r.plen) \in Seq(Byte)
      /\ r.acc \in Seq(Byte) /\ r.pwd \in Seq(Byte)
  BY RequestFacts, EncodeU32, EncodeU16
<1>8. PICK n : n = Len(r.acc)
  BY Zenon
<1>9. n \in Nat
  BY <1>8, RequestFacts
<1>10. /\ 0 \in Nat /\ 4 \in Nat /\ 8 \in Nat /\ 12 \in Nat /\ 16 \in Nat /\ 18 \in Nat
       /\ 0 + 18 + n \in Nat /\ 0 + 20 + n \in Nat
       /\ 0 + 4 = 4 /\ 0 + 8 = 8 /\ 0 + 12 = 12 /\ 0 + 16 = 16 /\ 0 + 18 = 18
       /\ 1 + 4 = 4 + 1 /\ 1 + 8 = 8 + 1 /\ 1 + 12 = 12 + 1 /\ 1 + 16 = 16 + 1
       /\ 1 + 18 = 18 + 1 /\ 1 + 18 + n = (0 + 18 + n) + 1 /\ 1 + 20 + n = (0 + 20 + n) + 1
       /\ 1 = 0 + 1
  BY <1>9
<1>11. /\ Lies(p, 0 + 1, encode_u32_le(r.key[1])) /\ Lies(p, 4 + 1, encode_u32_le(r.key[2]))
       /\ Lies(p, 8 + 1, encode_u32_le(r.key[3])) /\ Lies(p, 12 + 1, encode_u32_le(r.key[4]))
       /\ Lies(p, 16 + 1, encode_u16_le(r.alen)) /\ Lies(p, 18 + 1, r.acc)
       /\ Lies(p, (0 + 18 + n) + 1, encode_u16_le(r.plen))
       /\ Lies(p, (0 + 20 + n) + 1, r.pwd)
  BY <1>3, <1>8, <1>10, Zenon DEF Layout
<1>12. /\ Lies(d, 0, encode_u32_le(r.key[1])) /\ Lies(d, 4, encode_u32_le(r.key[2]))
       /\ Lies(d, 8, encode_u32_le(r.key[3])) /\ Lies(d, 12, encode_u32_le(r.key[4]))
       /\ Lies(d, 16, encode_u16_le(r.alen)) /\ Lies(d, 18, r.acc)
       /\ Lies(d, 0 + 18 + n, encode_u16_le(r.plen))
       /\ Lies(d, 0 + 20 + n, r.pwd)
  <2>1. 1 \in 1 .. 4 /\ 2 \in 1 .. 4 /\ 3 \in 1 .. 4 /\ 4 \in 1 .. 4
    OBVIOUS
  <2>2. /\ Lies(d, 0, encode_u32_le(r.key[1])) /\ Lies(d, 4, encode_u32_le(r.key[2]))
        /\ Lies(d, 8, encode_u32_le(r.key[3])) /\ Lies(d, 12, encode_u32_le(r.key[4]))
    BY <1>6, <1>7, <1>10, <1>11, <2>1
  <2>3. Lies(d, 16, encode_u16_le(r.alen)) /\ Lies(d, 18, r.acc)
    BY <1>6, <1>7, <1>10, <1>11
  <2>4. Lies(d, 0 + 18 + n, encode_u16_le(r.plen)) /\ Lies(d, 0 + 20 + n, r.pwd)
    BY <1>6, <1>7, <1>10, <1>11
  <2> QED  BY <2>2, <2>3, <2>4
<1>13. Layout(d, r, 0)
  BY <1>5, <1>8, <1>10, <1>12, Zenon DEF Layout
<1> QED  BY <1>1, <1>2, <1>13

\* The server reads the key of the client.
LEMMA KeyRead ==
    ASSUME NEW r \in Request, Len(rsa_decode(Plain(r))) = RsaLen - 1
    PROVE  Key(rsa_decode(Plain(r))) = r.key
<1>1. PICK d : d = rsa_decode(Plain(r))
  BY Zenon
<1>2. Layout(d, r, 0)
  BY <1>1, DecodedLayout
<1>3. /\ d \in Seq(Byte)
      /\ Lies(d, 0, encode_u32_le(r.key[1])) /\ Lies(d, 4, encode_u32_le(r.key[2]))
      /\ Lies(d, 8, encode_u32_le(r.key[3])) /\ Lies(d, 12, encode_u32_le(r.key[4]))
  <2>1. 0 + 4 = 4 /\ 0 + 8 = 8 /\ 0 + 12 = 12
    OBVIOUS
  <2> QED  BY <1>2, <2>1, Zenon DEF Layout
<1>4. ASSUME NEW i \in 1 .. 4 PROVE decode_u32_le(d, 4 * (i - 1)) = r.key[i]
  <2>1. Lies(d, 4 * (i - 1), encode_u32_le(r.key[i]))
    <3>1. i = 1 \/ i = 2 \/ i = 3 \/ i = 4
      OBVIOUS
    <3>2. 4 * (1 - 1) = 0 /\ 4 * (2 - 1) = 4 /\ 4 * (3 - 1) = 8 /\ 4 * (4 - 1) = 12
      OBVIOUS
    <3> QED  BY <1>3, <3>1, <3>2, Zenon
  <2>2. 4 * (i - 1) \in Nat
    OBVIOUS
  <2>3. r.key[i] \in 0 .. U32 - 1 /\ encode_u32_le(r.key[i]) \in Seq(Byte)
    BY RequestFacts, EncodeU32
  <2>4. Holds(d, 4 * (i - 1), encode_u32_le(r.key[i]))
    BY <1>3, <2>1, <2>2, <2>3, LiesHolds
  <2> QED  BY <2>2, <2>3, <2>4, DecodeU32
<1>5. r.key = [i \in 1 .. 4 |-> r.key[i]]
  BY RequestFacts DEF Keys
<1>6. Key(d) = r.key
  BY <1>4, <1>5 DEF Key
<1> QED  BY <1>1, <1>6

\* A string of at most NameSize - 2 bytes is read whole.
LEMMA StringRead ==
    ASSUME NEW d \in Seq(Byte), NEW at \in Nat, at + 2 + (NameSize - 1) <= Len(d),
           NEW w \in Seq(Byte), Len(w) <= NameSize - 2,
           Lies(d, at, encode_u16_le(Len(w))), Lies(d, at + 2, w)
    PROVE  LET t == decode_tibia_string(d, at, NameSize)
           IN  t.ret = Len(w) + 2 /\ t.str = w
<1>1. PICK n : n = Len(w)
  BY Zenon
<1>2. n \in Nat /\ n \in Int /\ n < NameSize /\ n + 2 < U16 /\ n \in 0 .. U16 - 1
      /\ n + 2 \in 0 .. U16 - 1
  BY <1>1, LayoutFacts, ByteFacts
<1>3. encode_u16_le(n) \in Seq(Byte)
  BY <1>2, EncodeU16
<1>4. decode_u16_le(d, at) = n
  <2>1. Holds(d, at, encode_u16_le(n))
    BY <1>1, <1>3, LiesHolds
  <2>2. decode_u16_le(d, at) = n % U16
    BY <1>2, <2>1, DecodeU16
  <2> QED  BY <1>2, <2>2, SmallMod, ByteFacts
<1>5. PICK t : t = decode_tibia_string(d, at, NameSize)
  BY Zenon
<1>6. t.ret = (n + 2) % U16 /\ t.str = BytesAt(d, at + 2, n)
  BY <1>2, <1>4, <1>5, TibiaString
<1>7. (n + 2) % U16 = n + 2
  BY <1>2, SmallMod, ByteFacts
<1>8. BytesAt(d, at + 2, n) = w
  <2>1. at + 2 \in Nat
    OBVIOUS
  <2> QED  BY <1>1, <2>1, LiesBytesAt
<1> QED  BY <1>1, <1>5, <1>6, <1>7, <1>8

\* The server reads the name and the password of a well-formed request.
LEMMA CredentialsRead ==
    ASSUME NEW r \in Request, Len(rsa_decode(Plain(r))) = RsaLen - 1, WellFormed(r)
    PROVE  LET cred == Credentials(rsa_decode(Plain(r)))
           IN  ~cred.toolong /\ CString(cred.acc) = r.acc /\ CString(cred.pwd) = r.pwd
<1>1. PICK d : d = rsa_decode(Plain(r))
  BY Zenon
<1>2. PICK acc : acc = r.acc
  BY Zenon
<1>3. PICK pwd : pwd = r.pwd
  BY Zenon
<1>4. /\ acc \in Seq(Byte) /\ pwd \in Seq(Byte)
      /\ Len(acc) <= NameSize - 2 /\ Len(pwd) <= NameSize - 2
      /\ \A i \in 1 .. Len(acc) : acc[i] # 0
      /\ \A i \in 1 .. Len(pwd) : pwd[i] # 0
  <2>1. acc \in Seq(Byte) /\ pwd \in Seq(Byte)
    BY <1>2, <1>3, RequestFacts
  <2>2. DOMAIN acc = 1 .. Len(acc) /\ DOMAIN pwd = 1 .. Len(pwd)
    BY <2>1
  <2> QED  BY <1>2, <1>3, <2>1, <2>2 DEF WellFormed
<1>5. /\ d \in Seq(Byte) /\ Lies(d, 16, encode_u16_le(Len(acc))) /\ Lies(d, 18, acc)
      /\ Lies(d, 18 + Len(acc), encode_u16_le(Len(pwd))) /\ Lies(d, 20 + Len(acc), pwd)
  <2>1. Layout(d, r, 0)
    BY <1>1, DecodedLayout
  <2>2. Len(acc) \in Nat
    BY <1>4
  <2>3. 0 + 16 = 16 /\ 0 + 18 = 18 /\ 0 + 18 + Len(acc) = 18 + Len(acc)
        /\ 0 + 20 + Len(acc) = 20 + Len(acc)
    BY <2>2
  <2>4. r.alen = Len(acc) /\ r.plen = Len(pwd)
    BY <1>2, <1>3 DEF WellFormed
  <2> QED  BY <1>2, <1>3, <2>1, <2>3, <2>4, Zenon DEF Layout
<1>6. Len(d) = RsaLen - 1 /\ Len(acc) \in Nat
  BY <1>1, <1>4
<1>7. PICK a : a = decode_tibia_string(d, 16, NameSize)
  BY Zenon
<1>8. a.ret = Len(acc) + 2 /\ a.str = acc
  <2>1. 16 \in Nat /\ 16 + 2 = 18 /\ 16 + 2 + (NameSize - 1) <= Len(d)
    BY <1>6, LayoutFacts
  <2> QED  BY <1>4, <1>5, <1>7, <2>1, StringRead
<1>9. ~(a.ret > NameSize) /\ 16 + a.ret = 18 + Len(acc)
  BY <1>4, <1>6, <1>8, LayoutFacts
<1>10. PICK at : at = 18 + Len(acc)
  BY Zenon
<1>11. PICK b : b = decode_tibia_string(d, at, NameSize)
  BY Zenon
<1>12. b.ret = Len(pwd) + 2 /\ b.str = pwd
  <2>1. at \in Nat /\ at + 2 = 20 + Len(acc) /\ at + 2 + (NameSize - 1) <= Len(d)
    BY <1>4, <1>6, <1>10, LayoutFacts
  <2> QED  BY <1>4, <1>5, <1>10, <1>11, <2>1, StringRead
<1>13. ~(b.ret > NameSize)
  BY <1>4, <1>12, LayoutFacts
<1>14. PICK cred : cred = Credentials(d)
  BY Zenon
<1>15. /\ cred.toolong = (a.ret > NameSize \/ b.ret > NameSize)
       /\ cred.acc = a.str /\ cred.pwd = b.str
  BY <1>7, <1>9, <1>10, <1>11, <1>14 DEF Credentials
<1>16. CString(acc) = acc /\ CString(pwd) = pwd
  BY <1>4, CStringFacts
<1> QED  BY <1>1, <1>2, <1>3, <1>8, <1>9, <1>12, <1>13, <1>14, <1>15, <1>16

-----------------------------------------------------------------------------
(***************************************************************************)
(* The inductive invariant.                                                *)
(***************************************************************************)

Login == [c : Clients, key : Keys, accname : Seq(Byte), password : Seq(Byte),
          accid : Nat \cup {NoId}]

Types ==
    /\ ListTypeOK
    /\ req \in [Clients -> Request \cup {None}]
    /\ \A c \in Clients : req[c] \in RequestsOf[c] \cup {None}
    /\ conn \in [Clients -> {"open", "sending", "closing", "gone"}]
    /\ udata \in [Clients -> Bufs \cup {NULL}]
    /\ tasks \in Seq(Login) /\ \A i \in 1 .. Len(tasks) : tasks[i].accid = NoId
    /\ task \in Login \cup {None}
    /\ db \in {"ok", "lost"}
    /\ answers \in Seq([c : Clients, output : Bufs])

\* The logins of s are of different clients.
Distinct(s) == \A i, j \in 1 .. Len(s) : s[i].c = s[j].c => i = j

\* A client whose login is under way has no message yet.
Waits(c) == req[c] # None /\ udata[c] = NULL /\ conn[c] \in {"open", "gone"}

\* A client has at most one login under way.
OneLogin ==
    /\ Distinct(tasks) /\ Distinct(answers)
    /\ \A i \in 1 .. Len(tasks), j \in 1 .. Len(answers) : tasks[i].c # answers[j].c
    /\ \A i \in 1 .. Len(tasks) : Waits(tasks[i].c)
    /\ \A j \in 1 .. Len(answers) : Waits(answers[j].c)
    /\ task # None =>
         /\ Waits(task.c)
         /\ \A i \in 1 .. Len(tasks) : tasks[i].c # task.c
         /\ \A j \in 1 .. Len(answers) : answers[j].c # task.c

Connections ==
    \A c \in Clients :
        /\ conn[c] \in {"sending", "closing"} => udata[c] # NULL
        /\ conn[c] = "gone" => udata[c] = NULL
        /\ req[c] = None => conn[c] = "open" /\ udata[c] = NULL

Owned == ({udata[c] : c \in Clients} \ {NULL})
         \cup {answers[i].output : i \in 1 .. Len(answers)}

Ownership ==
    /\ HeldIs(Owned)
    /\ \A c, d \in Clients : udata[c] = udata[d] /\ udata[c] # NULL => c = d
    /\ \A i, j \in 1 .. Len(answers) : answers[i].output = answers[j].output => i = j
    /\ \A c \in Clients, j \in 1 .. Len(answers) : udata[c] # answers[j].output

\* The result it holds is that of the query it has made.
Progress ==
    /\ task # None /\ task.accid # NoId =>
         /\ task.accname # <<>>
         /\ \E a \in Accounts : /\ a.id = task.accid
                                /\ a.name = task.accname /\ a.pwd = task.password
    /\ res # None =>
         /\ task # None
         /\ task.accid = NoId =>
              res = [rows |-> AccountRows(task.accname)] /\ task.accname # <<>>
         /\ task.accid # NoId =>
              res = [names |-> CharlistOf(encode_u32_be(task.accid))]

ControlInv == Types /\ OneLogin /\ Connections /\ Ownership /\ Progress

LEMMA NoneFacts ==
    /\ \A r \in Request : r # None
    /\ \A l \in Login : l # None
    /\ \A x : [rows |-> x] # None /\ [names |-> x] # None
    /\ NoId \notin Nat
<1>1. ASSUME NEW r \in Request PROVE r # None
  <2>1. r \in [version : {"supported", "old", "other"},
               key : [1 .. 4 -> 0 .. U32 - 1],
               alen : 0 .. U16 - 1, acc : Seq(Byte),
               plen : 0 .. U16 - 1, pwd : Seq(Byte)]
    BY DEF Request
  <2>2. DOMAIN r = {"version", "key", "alen", "acc", "plen", "pwd"}
    BY <2>1
  <2> QED  BY <2>2 DEF None
<1>2. ASSUME NEW l \in Login PROVE l # None
  BY DEF Login, None
<1>3. ASSUME NEW x PROVE [rows |-> x] # None /\ [names |-> x] # None
  BY DEF None
<1>4. NoId \notin Nat
  BY DEF NoId
<1> QED  BY <1>1, <1>2, <1>3, <1>4

\* Every path through database_resolve_login releases the result it loaded,
\* once (PQclear in protocol_login.c and in the macros of db/pgsql.c).
THEOREM ResultsReleased == Spec => []ResultsCleared
<1>1. Init => ResultsCleared
  BY DEF Init, ResultsCleared
<1>2. ASSUME ResultsCleared, [Next]_vars PROVE ResultsCleared'
  <2>1. CASE UNCHANGED <<res, results>>
    BY <1>2, <2>1 DEF ResultsCleared
  <2>2. CASE res = None /\ results' = results + 1 /\ res' # None
    BY <1>2, <2>2 DEF ResultsCleared
  <2>3. CASE res # None /\ results' = results - 1 /\ res' = None
    BY <1>2, <2>3 DEF ResultsCleared
  <2>4. CASE db_load_account_info
    BY <2>2, <2>4, NoneFacts DEF db_load_account_info
  <2>5. CASE db_load_account_charlist
    BY <2>2, <2>5, NoneFacts DEF db_load_account_charlist
  <2>6. CASE NotCorrect
    BY <2>3, <2>6 DEF NotCorrect
  <2>7. CASE PasswordMatches
    BY <2>3, <2>7 DEF PasswordMatches
  <2>8. CASE SendCharlist
    BY <2>3, <2>8 DEF SendCharlist
  <2>9. CASE \E c \in Clients :
                \/ \E r \in RequestsOf[c] :
                     ReceiveMalformed(c, r) \/ ReceiveRefused(c, r) \/ ReceiveLogin(c, r)
                \/ on_write(c) \/ on_close(c)
    BY <2>1, <2>9 DEF ReceiveMalformed, ReceiveRefused, ReceiveLogin, on_write,
                      on_close, dbVars
  <2>10. CASE internal_resolve_login
    BY <2>1, <2>10 DEF internal_resolve_login, dbVars
  <2>11. CASE \/ TakeTask \/ NoAccountName \/ LoadAccountInfoFails
              \/ LoadCharlistFails \/ LoseDatabase
    BY <2>1, <2>11 DEF TakeTask, NoAccountName, LoadAccountInfoFails,
                       LoadCharlistFails, LoseDatabase
  <2>12. CASE UNCHANGED vars
    BY <2>1, <2>12 DEF vars, replyVars
  <2> QED  BY <1>2, <2>4, <2>5, <2>6, <2>7, <2>8, <2>9, <2>10, <2>11, <2>12 DEF Next
<1> QED  BY <1>1, <1>2, PTL DEF Spec

-----------------------------------------------------------------------------
(***************************************************************************)
(* Every step keeps the control invariant.                                 *)
(***************************************************************************)

LEMMA TypesFacts ==
    ASSUME Types
    PROVE  /\ \A i \in 1 .. Len(tasks) : tasks[i] \in Login /\ tasks[i].c \in Clients
           /\ \A j \in 1 .. Len(answers) :
                answers[j].c \in Clients /\ answers[j].output \in Bufs
           /\ task # None => task \in Login /\ task.c \in Clients
           /\ Len(tasks) \in Nat /\ Len(answers) \in Nat
           /\ NULL \notin Bufs /\ Owned \subseteq Bufs
<1>1. tasks \in Seq(Login) /\ answers \in Seq([c : Clients, output : Bufs])
      /\ udata \in [Clients -> Bufs \cup {NULL}]
  BY DEF Types
<1>2. Len(tasks) \in Nat /\ Len(answers) \in Nat
  BY <1>1
<1>3. \A l \in Login : l.c \in Clients
  BY DEF Login
<1>4. ASSUME NEW i \in 1 .. Len(tasks) PROVE tasks[i] \in Login /\ tasks[i].c \in Clients
  BY <1>1, <1>3, ElementOf
<1>5. ASSUME NEW j \in 1 .. Len(answers)
      PROVE  answers[j].c \in Clients /\ answers[j].output \in Bufs
  <2>1. answers[j] \in [c : Clients, output : Bufs]
    BY <1>1, ElementOf
  <2> QED  BY <2>1
<1>6. task # None => task \in Login /\ task.c \in Clients
  BY <1>3 DEF Types
<1>7. NULL \notin Bufs
  BY BufsAssumption
<1>8. Owned \subseteq Bufs
  BY <1>1, <1>5 DEF Owned
<1> QED  BY <1>2, <1>4, <1>5, <1>6, <1>7, <1>8

LEMMA InitControl ==
    ASSUME Init
    PROVE  ControlInv
<1>0. NULL \notin Bufs /\ MaxIdleOutbufs \in Nat
  BY BufsAssumption, IdleAssumption
<1>1. Types
  <2>1. <<>> \in Seq(Login) /\ <<>> \in Seq([c : Clients, output : Bufs]) /\ Len(<<>>) = 0
    OBVIOUS
  <2> QED  BY <1>0, <2>1 DEF Init, ListInit, Types, ListTypeOK
<1>2. OneLogin /\ Connections /\ Progress
  BY DEF Init, OneLogin, Connections, Distinct, Progress
<1>3. Ownership
  <2>1. Owned = {}
    BY DEF Init, Owned
  <2>2. HeldIs({})
    <3>1. PICK s : s = [i \in 1 .. 0 |-> NULL]
      BY Zenon
    <3>2. outbuf_list_size = 0 /\ heap = {} /\ outbuf_head = NULL
      BY DEF Init, ListInit
    <3>3. s \in [1 .. outbuf_list_size -> heap] /\ Chain(s)
      BY <3>1, <3>2 DEF Chain
    <3>4. {} = heap \ {s[i] : i \in 1 .. outbuf_list_size}
      BY <3>2
    <3> QED  BY <3>3, <3>4 DEF HeldIs
  <2> QED  BY <2>1, <2>2 DEF Init, Ownership
<1> QED  BY <1>1, <1>2, <1>3 DEF ControlInv

\* Waits in the next state.
WaitsNext(c) == req'[c] # None /\ udata'[c] = NULL /\ conn'[c] \in {"open", "gone"}

\* A client that has sent nothing has no login under way.
LEMMA FreshClient ==
    ASSUME ControlInv, NEW c \in Clients, req[c] = None
    PROVE  /\ ~Waits(c) /\ udata[c] = NULL /\ conn[c] = "open"
           /\ \A i \in 1 .. Len(tasks) : tasks[i].c # c
           /\ \A j \in 1 .. Len(answers) : answers[j].c # c
           /\ task # None => task.c # c
BY DEF ControlInv, Connections, OneLogin, Waits

LEMMA HeldFrame ==
    ASSUME NEW H, HeldIs(H), UNCHANGED listVars
    PROVE  HeldIs(H)'
<1>1. PICK s \in [1 .. outbuf_list_size -> heap] :
        Chain(s) /\ H = heap \ {s[i] : i \in 1 .. outbuf_list_size}
  BY DEF HeldIs
<1>2. UNCHANGED <<outbuf_head, outbuf_list_size, next, heap>>
  BY DEF listVars
<1>3. Chain(s)'
  BY <1>1, <1>2 DEF Chain
<1>4. s \in [1 .. outbuf_list_size' -> heap'] /\ Chain(s)'
      /\ H = heap' \ {s[i] : i \in 1 .. outbuf_list_size'}
  BY <1>1, <1>2, <1>3
<1> QED  BY <1>4 DEF HeldIs

LEMMA OwnershipFrame ==
    ASSUME Ownership, UNCHANGED <<listVars, udata, answers>>
    PROVE  Ownership'
<1>1. PICK H : H = Owned
  BY Zenon
<1>2. Owned' = H
  BY <1>1 DEF Owned
<1>3. HeldIs(H)'
  BY <1>1, HeldFrame DEF Ownership
<1>4. HeldIs(Owned)'
  BY <1>2, <1>3 DEF HeldIs
<1> QED  BY <1>4 DEF Ownership

LEMMA ProgressFrame ==
    ASSUME Progress, UNCHANGED <<task, res>>
    PROVE  Progress'
BY DEF Progress

LEMMA ReceiveMalformedKeeps ==
    ASSUME ControlInv, NEW c \in Clients, NEW r \in RequestsOf[c], ReceiveMalformed(c, r)
    PROVE  ControlInv'
<1>0. /\ req[c] = None /\ req' = [req EXCEPT ![c] = r]
      /\ conn' = [conn EXCEPT ![c] = "gone"]
      /\ UNCHANGED <<udata, dbVars, answers, listVars>>
  BY DEF ReceiveMalformed, Receives
<1>1. r \in Request /\ r # None
  BY RequestsAssumption, NoneFacts
<1>2. Types'
  BY <1>0, <1>1 DEF ControlInv, Types, ListTypeOK, dbVars, listVars
<1>3. ASSUME NEW d \in Clients, d # c, Waits(d) PROVE Waits(d)'
  BY <1>0, <1>3 DEF Waits, ControlInv, Types
<1>4. OneLogin'
  BY <1>0, <1>3, FreshClient, TypesFacts DEF ControlInv, OneLogin, Distinct, dbVars
<1>5. Connections'
  BY <1>0, <1>1, FreshClient DEF ControlInv, Types, Connections
<1>6. Ownership'
  BY <1>0, OwnershipFrame DEF ControlInv
<1>7. Progress'
  BY <1>0, ProgressFrame DEF ControlInv, dbVars
<1> QED  BY <1>2, <1>4, <1>5, <1>6, <1>7 DEF ControlInv

LEMMA ReceiveRefusedKeeps ==
    ASSUME ControlInv, NEW c \in Clients, NEW r \in RequestsOf[c], ReceiveRefused(c, r)
    PROVE  ControlInv'
<1>0. /\ req[c] = None /\ req' = [req EXCEPT ![c] = r]
      /\ \E started \in BOOLEAN :
           conn' = [conn EXCEPT ![c] = IF started THEN "sending" ELSE "closing"]
      /\ UNCHANGED <<dbVars, answers>>
  BY DEF ReceiveRefused, Receives
<1>1. PICK b \in Bufs : outbuf_acquire(b) /\ udata' = [udata EXCEPT ![c] = b]
  BY DEF ReceiveRefused
<1>2. r \in Request /\ r # None
  BY RequestsAssumption, NoneFacts
<1>3. PICK H : H = Owned
  BY Zenon
<1>4. ListTypeOK' /\ b \notin H /\ HeldIs(H \cup {b})'
  BY <1>1, <1>3, AcquireHeld DEF ControlInv, Types, Ownership
<1>5. PICK x \in {"sending", "closing"} : conn' = [conn EXCEPT ![c] = x]
  BY <1>0
<1>6. Types'
  BY <1>0, <1>1, <1>2, <1>4, <1>5 DEF ControlInv, Types, dbVars
<1>7. ASSUME NEW d \in Clients, d # c, Waits(d) PROVE Waits(d)'
  BY <1>0, <1>1, <1>5, <1>7 DEF Waits, ControlInv, Types
<1>8. OneLogin'
  BY <1>0, <1>7, FreshClient, TypesFacts DEF ControlInv, OneLogin, Distinct, dbVars
<1>9. Connections'
  BY <1>0, <1>1, <1>2, <1>5, TypesFacts DEF ControlInv, Types, Connections
<1>10. Ownership'
  <2>0. NULL \notin Bufs /\ udata[c] = NULL /\ udata \in [Clients -> Bufs \cup {NULL}]
        /\ answers' = answers
    BY <1>0, FreshClient, TypesFacts DEF ControlInv, Types
  <2>1. udata' = [udata EXCEPT ![c] = b]
    BY <1>1
  <2>2. Owned' = H \cup {b}
    BY <1>3, <2>0, <2>1 DEF Owned
  <2>3. HeldIs(Owned)'
    BY <1>4, <2>2 DEF HeldIs
  <2>4. /\ \A d \in Clients : udata[d] # b
        /\ \A j \in 1 .. Len(answers) : answers[j].output # b
    BY <1>3, <1>4, <2>0 DEF Owned
  <2> QED  BY <2>0, <2>1, <2>3, <2>4 DEF ControlInv, Ownership
<1>11. Progress'
  BY <1>0, ProgressFrame DEF ControlInv, dbVars
<1> QED  BY <1>6, <1>8, <1>9, <1>10, <1>11 DEF ControlInv

\* What the server thread hands to the database thread.
LEMMA LoginTyped ==
    ASSUME NEW c \in Clients, NEW r \in Request, ~Malformed(r)
    PROVE  LET decoded == rsa_decode(Plain(r))
               cred == Credentials(decoded)
           IN  [c |-> c, key |-> Key(decoded), accname |-> CString(cred.acc),
                password |-> CString(cred.pwd), accid |-> NoId] \in Login
<1>1. PICK d : d = rsa_decode(Plain(r))
  BY Zenon
<1>2. PICK cred : cred = Credentials(d)
  BY Zenon
<1>3. d \in Seq(Byte) /\ Len(d) = RsaLen - 1
  <2>1. Len(d) = RsaLen - 1
    BY <1>1 DEF Malformed
  <2>2. Plain(r) \in Seq(Byte)
    BY PlainLayout DEF Layout
  <2> QED  BY <1>1, <2>1, <2>2, RsaDecodeFacts
<1>4. cred.acc \in Seq(Byte) /\ cred.pwd \in Seq(Byte)
  BY <1>2, <1>3, CredentialsInBounds
<1>5. CString(cred.acc) \in Seq(Byte) /\ CString(cred.pwd) \in Seq(Byte)
  BY <1>4, CStringFacts
<1>6. Key(d) \in Keys
  BY <1>1, <1>3, KeyRead, RequestFacts
<1>7. NoId \in Nat \cup {NoId}
  BY Zenon
<1>8. [c |-> c, key |-> Key(d), accname |-> CString(cred.acc),
       password |-> CString(cred.pwd), accid |-> NoId] \in Login
  BY <1>5, <1>6, <1>7, Zenon DEF Login
<1> QED  BY <1>1, <1>2, <1>8

LEMMA ReceiveLoginKeeps ==
    ASSUME ControlInv, NEW c \in Clients, NEW r \in RequestsOf[c], ReceiveLogin(c, r)
    PROVE  ControlInv'
<1>0. /\ req[c] = None /\ req' = [req EXCEPT ![c] = r]
      /\ UNCHANGED <<conn, udata, task, res, results, db, answers, listVars>>
  BY DEF ReceiveLogin, Receives
<1>1. r \in Request /\ r # None
  BY RequestsAssumption, NoneFacts
<1>2. PICK l : l.c = c /\ l.accid = NoId /\ l \in Login /\ tasks' = Append(tasks, l)
  <2>1. ~Malformed(r)
    BY DEF ReceiveLogin
  <2>2. PICK l : /\ l = [c |-> c, key |-> Key(rsa_decode(Plain(r))),
                    accname |-> CString(Credentials(rsa_decode(Plain(r))).acc),
                    password |-> CString(Credentials(rsa_decode(Plain(r))).pwd),
                    accid |-> NoId]
    BY Zenon
  <2>3. l \in Login
    BY <1>1, <2>1, <2>2, LoginTyped
  <2>4. tasks' = Append(tasks, l)
    BY <2>2 DEF ReceiveLogin
  <2>5. l.c = c /\ l.accid = NoId
    BY <2>2
  <2> QED  BY <2>3, <2>4, <2>5
<1>3. /\ tasks' \in Seq(Login) /\ Len(tasks') = Len(tasks) + 1
      /\ \A i \in 1 .. Len(tasks) : tasks'[i] = tasks[i]
      /\ tasks'[Len(tasks) + 1] = l
  <2>1. tasks \in Seq(Login)
    BY DEF ControlInv, Types
  <2> QED  BY <1>2, <2>1
<1>4. Len(tasks) \in Nat
  BY TypesFacts DEF ControlInv
<1>5. \A i \in 1 .. Len(tasks') : i \in 1 .. Len(tasks) \/ i = Len(tasks) + 1
  BY <1>3, <1>4
<1>6. Types'
  <2>1. \A i \in 1 .. Len(tasks') : tasks'[i].accid = NoId
    BY <1>2, <1>3, <1>5 DEF ControlInv, Types
  <2> QED  BY <1>0, <1>1, <1>3, <2>1 DEF ControlInv, Types, ListTypeOK, listVars
<1>7. ASSUME NEW d \in Clients, d # c, Waits(d) PROVE WaitsNext(d)
  BY <1>0, <1>7 DEF Waits, WaitsNext, ControlInv, Types
<1>8. WaitsNext(c)
  BY <1>0, <1>1, FreshClient DEF WaitsNext, ControlInv, Types
<1>9. OneLogin'
  <2>1. /\ \A i \in 1 .. Len(tasks) : tasks[i].c # c /\ tasks[i].c \in Clients
        /\ \A j \in 1 .. Len(answers) : answers[j].c # c /\ answers[j].c \in Clients
        /\ task # None => task.c # c /\ task.c \in Clients
    BY <1>0, FreshClient, TypesFacts DEF ControlInv
  <2>2. Distinct(tasks')
    <3>1. ASSUME NEW i \in 1 .. Len(tasks'), NEW j \in 1 .. Len(tasks'),
                 tasks'[i].c = tasks'[j].c
          PROVE  i = j
      BY <1>2, <1>3, <1>5, <2>1, <3>1 DEF ControlInv, OneLogin, Distinct
    <3> QED  BY <3>1 DEF Distinct
  <2>3. \A i \in 1 .. Len(tasks') : WaitsNext(tasks'[i].c)
    BY <1>2, <1>3, <1>5, <1>7, <1>8, <2>1 DEF ControlInv, OneLogin
  <2>4. \A i \in 1 .. Len(tasks'), j \in 1 .. Len(answers) : tasks'[i].c # answers[j].c
    BY <1>2, <1>3, <1>5, <2>1 DEF ControlInv, OneLogin
  <2>5. \A j \in 1 .. Len(answers) : WaitsNext(answers[j].c)
    BY <1>7, <2>1 DEF ControlInv, OneLogin
  <2>6. task # None =>
          /\ WaitsNext(task.c)
          /\ \A i \in 1 .. Len(tasks') : tasks'[i].c # task.c
          /\ \A j \in 1 .. Len(answers) : answers[j].c # task.c
    BY <1>2, <1>3, <1>5, <1>7, <2>1 DEF ControlInv, OneLogin
  <2>7. answers' = answers /\ task' = task /\ Distinct(answers)
    BY <1>0 DEF ControlInv, OneLogin
  <2> QED  BY <2>2, <2>3, <2>4, <2>5, <2>6, <2>7 DEF OneLogin, Distinct, Waits, WaitsNext
<1>10. Connections'
  BY <1>0, <1>1 DEF ControlInv, Types, Connections
<1>11. Ownership'
  BY <1>0, OwnershipFrame DEF ControlInv
<1>12. Progress'
  BY <1>0, ProgressFrame DEF ControlInv
<1> QED  BY <1>6, <1>9, <1>10, <1>11, <1>12 DEF ControlInv

LEMMA TailFacts ==
    ASSUME NEW S, NEW s \in Seq(S), s # <<>>
    PROVE  /\ Tail(s) \in Seq(S) /\ Len(Tail(s)) = Len(s) - 1 /\ Len(s) >= 1
           /\ \A i \in 1 .. Len(s) - 1 : Tail(s)[i] = s[i + 1]
           /\ Head(s) = s[1] /\ s[1] \in S
OBVIOUS

LEMMA ResolveKeeps ==
    ASSUME ControlInv, internal_resolve_login
    PROVE  ControlInv'
<1> DEFINE R == [c : Clients, output : Bufs]
           n == Len(answers)
<1>0. answers \in Seq(R) /\ answers # <<>> /\ answers' = Tail(answers) /\ n \in Nat
  BY DEF ControlInv, Types, internal_resolve_login
<1>1. /\ answers' \in Seq(R) /\ Len(answers') = n - 1 /\ n >= 1
      /\ \A j \in 1 .. n - 1 : answers'[j] = answers[j + 1]
      /\ Head(answers) = answers[1]
  BY <1>0, TailFacts
<1>2. PICK l : l = answers[1]
  BY Zenon
<1>3. PICK c : c = l.c
  BY Zenon
<1>4. PICK b : b = l.output
  BY Zenon
<1>5. c \in Clients /\ b \in Bufs /\ NULL \notin Bufs
  BY <1>1, <1>2, <1>3, <1>4, TypesFacts DEF ControlInv
<1>6. Waits(c)
  BY <1>1, <1>2, <1>3 DEF ControlInv, OneLogin
<1>7. UNCHANGED <<req, tasks, task, res, results, db>>
  BY DEF internal_resolve_login, dbVars
<1>8. /\ \A j \in 1 .. n - 1 : /\ answers'[j].c # c /\ answers'[j].c \in Clients
                               /\ Waits(answers[j + 1].c)
      /\ \A i \in 1 .. Len(tasks) : tasks[i].c # c /\ tasks[i].c \in Clients
      /\ task # None => task.c # c /\ task.c \in Clients
  <2>1. ASSUME NEW j \in 1 .. n - 1
        PROVE  answers[j + 1].c # c /\ answers[j + 1].c \in Clients /\ Waits(answers[j + 1].c)
    <3>1. j + 1 \in 1 .. n /\ 1 \in 1 .. n /\ j + 1 # 1
      BY <1>0
    <3> QED  BY <1>2, <1>3, <3>1, TypesFacts DEF ControlInv, OneLogin, Distinct
  <2>2. 1 \in 1 .. n
    BY <1>1, <1>0
  <2>3. \A i \in 1 .. Len(tasks) : tasks[i].c # c /\ tasks[i].c \in Clients
    BY <1>2, <1>3, <2>2, TypesFacts DEF ControlInv, OneLogin
  <2>4. task # None => task.c # c /\ task.c \in Clients
    BY <1>2, <1>3, <2>2, TypesFacts DEF ControlInv, OneLogin
  <2> QED  BY <1>1, <2>1, <2>3, <2>4
<1>9. ASSUME \A d \in Clients : d # c /\ Waits(d) => WaitsNext(d)
      PROVE  OneLogin'
  <2>1. \A j \in 1 .. n - 1 : WaitsNext(answers'[j].c)
    BY <1>1, <1>8, <1>9
  <2>2. Distinct(answers')
    <3>1. ASSUME NEW i \in 1 .. n - 1, NEW j \in 1 .. n - 1, answers'[i].c = answers'[j].c
          PROVE  i = j
      <4>1. i + 1 \in 1 .. n /\ j + 1 \in 1 .. n
        BY <1>0
      <4>2. i + 1 = j + 1
        BY <1>1, <3>1, <4>1 DEF ControlInv, OneLogin, Distinct
      <4> QED  BY <4>2
    <3> QED  BY <1>1, <3>1 DEF Distinct
  <2>3. \A i \in 1 .. Len(tasks), j \in 1 .. n - 1 : tasks[i].c # answers'[j].c
    <3>1. \A j \in 1 .. n - 1 : j + 1 \in 1 .. n
      BY <1>0
    <3> QED  BY <1>1, <3>1 DEF ControlInv, OneLogin
  <2>4. \A i \in 1 .. Len(tasks) : WaitsNext(tasks[i].c)
    BY <1>8, <1>9 DEF ControlInv, OneLogin
  <2>5. task # None => /\ WaitsNext(task.c)
                       /\ \A i \in 1 .. Len(tasks) : tasks[i].c # task.c
                       /\ \A j \in 1 .. n - 1 : answers'[j].c # task.c
    <3>1. \A j \in 1 .. n - 1 : j + 1 \in 1 .. n
      BY <1>0
    <3> QED  BY <1>1, <1>8, <1>9, <3>1 DEF ControlInv, OneLogin
  <2>6. Distinct(tasks)
    BY DEF ControlInv, OneLogin
  <2> QED  BY <1>1, <1>7, <2>1, <2>2, <2>3, <2>4, <2>5, <2>6
           DEF OneLogin, Distinct, Waits, WaitsNext
<1>10. PICK H : H = Owned
  BY Zenon
<1>11. b \in H /\ HeldIs(H) /\ ListTypeOK
  BY <1>1, <1>2, <1>4, <1>10 DEF ControlInv, Ownership, Owned, Types
<1>12. PICK A : A = {answers'[j].output : j \in 1 .. n - 1}
  BY Zenon
<1>13. /\ b \notin A /\ A \subseteq Bufs
       /\ H = ({udata[d] : d \in Clients} \ {NULL}) \cup A \cup {b}
  <2>1. \A j \in 1 .. n - 1 : j + 1 \in 1 .. n /\ j + 1 # 1 /\ 1 \in 1 .. n
    BY <1>0
  <2>2. b \notin A
    BY <1>1, <1>2, <1>4, <1>12, <2>1 DEF ControlInv, Ownership
  <2>3. {answers[j].output : j \in 1 .. n} = A \cup {b}
    <3>1. ASSUME NEW j \in 1 .. n PROVE answers[j].output \in A \cup {b}
      <4>1. CASE j = 1
        BY <1>2, <1>4, <4>1
      <4>2. CASE j # 1
        <5>1. PICK k : k = j - 1
          BY Zenon
        <5>2. k \in 1 .. n - 1 /\ k + 1 = j
          BY <1>0, <4>2, <5>1
        <5>3. answers'[k].output = answers[j].output
          BY <1>1, <5>2
        <5> QED  BY <1>12, <5>2, <5>3
      <4> QED  BY <4>1, <4>2
    <3>2. ASSUME NEW j \in 1 .. n - 1 PROVE answers'[j].output \in {answers[k].output : k \in 1 .. n}
      BY <1>1, <2>1
    <3>3. b \in {answers[k].output : k \in 1 .. n}
      BY <1>0, <1>1, <1>2, <1>4
    <3> QED  BY <1>12, <3>1, <3>2, <3>3
  <2>4. A \subseteq Bufs
    BY <1>1, <1>12, <2>1, TypesFacts, SMTT(40) DEF ControlInv
  <2> QED  BY <1>10, <2>2, <2>3, <2>4 DEF Owned
<1>14. /\ \A d, e \in Clients : udata[d] = udata[e] /\ udata[d] # NULL => d = e
       /\ \A d \in Clients : udata[d] # b
       /\ \A d \in Clients, j \in 1 .. n - 1 : udata[d] # answers'[j].output
       /\ \A i, j \in 1 .. n - 1 : answers'[i].output = answers'[j].output => i = j
       /\ \A j \in 1 .. n - 1 : answers'[j].output # b
  <2>1. \A j \in 1 .. n - 1 : j + 1 \in 1 .. n
    BY <1>0
  <2>2. 1 \in 1 .. n
    BY <1>0, <1>1
  <2>3. ASSUME NEW i \in 1 .. n - 1, NEW j \in 1 .. n - 1,
               answers'[i].output = answers'[j].output
        PROVE  i = j
    <3>1. i + 1 = j + 1
      BY <1>1, <2>1, <2>3, SMTT(40) DEF ControlInv, Ownership
    <3> QED  BY <3>1
  <2>4. \A d \in Clients, j \in 1 .. n - 1 : udata[d] # answers'[j].output
    BY <1>1, <2>1 DEF ControlInv, Ownership
  <2>5. \A d \in Clients : udata[d] # b
    BY <1>2, <1>4, <2>2 DEF ControlInv, Ownership
  <2>6. \A j \in 1 .. n - 1 : answers'[j].output # b
    BY <1>12, <1>13
  <2> QED  BY <2>3, <2>4, <2>5, <2>6 DEF ControlInv, Ownership
<1>15. Progress'
  BY <1>7, ProgressFrame DEF ControlInv
<1>16. /\ req \in [Clients -> Request \cup {None}]
       /\ conn \in [Clients -> {"open", "sending", "closing", "gone"}]
       /\ udata \in [Clients -> Bufs \cup {NULL}]
       /\ udata[c] = NULL /\ req[c] # None /\ conn[c] \in {"open", "gone"}
  BY <1>6 DEF ControlInv, Types, Waits
<1>17. CASE conn[c] # "gone" /\ UNCHANGED listVars
            /\ udata' = [udata EXCEPT ![c] = b]
            /\ \E started \in BOOLEAN :
                 conn' = [conn EXCEPT ![c] = IF started THEN "sending" ELSE @]
  <2>1. PICK x \in {"open", "sending"} : conn' = [conn EXCEPT ![c] = x]
    BY <1>16, <1>17
  <2>2. Types'
    BY <1>1, <1>5, <1>7, <1>17, <2>1 DEF ControlInv, Types, ListTypeOK, listVars
  <2>3. OneLogin'
    <3>1. \A d \in Clients : d # c /\ Waits(d) => WaitsNext(d)
      BY <1>7, <1>16, <1>17, <2>1 DEF Waits, WaitsNext
    <3> QED  BY <1>9, <3>1
  <2>4. Connections'
    BY <1>5, <1>7, <1>16, <1>17, <2>1 DEF ControlInv, Connections
  <2>5. Owned' = H
    BY <1>1, <1>5, <1>12, <1>13, <1>16, <1>17 DEF Owned
  <2>6. HeldIs(H)'
    BY <1>11, <1>17, HeldFrame
  <2>7. HeldIs(Owned)'
    BY <2>5, <2>6 DEF HeldIs
  <2>8. Ownership'
    <3>1. \A d \in Clients : udata'[d] = IF d = c THEN b ELSE udata[d]
      BY <1>5, <1>16, <1>17
    <3>2. \A d, e \in Clients : udata'[d] = udata'[e] /\ udata'[d] # NULL => d = e
      BY <1>14, <3>1
    <3>3. \A d \in Clients, j \in 1 .. n - 1 : udata'[d] # answers'[j].output
      BY <1>14, <3>1
    <3>4. Len(answers') = n - 1
      BY <1>1
    <3> QED  BY <1>14, <2>7, <3>2, <3>3, <3>4 DEF Ownership
  <2> QED  BY <1>15, <2>2, <2>3, <2>4, <2>8 DEF ControlInv
<1>18. CASE conn[c] = "gone" /\ outbuf_release(b) /\ UNCHANGED <<conn, udata>>
  <2>1. ListTypeOK' /\ HeldIs(H \ {b})'
    BY <1>11, <1>18, ReleaseHeld
  <2>2. Types'
    BY <1>1, <1>7, <1>18, <2>1 DEF ControlInv, Types
  <2>3. OneLogin'
    <3>1. \A d \in Clients : d # c /\ Waits(d) => WaitsNext(d)
      BY <1>7, <1>18 DEF Waits, WaitsNext
    <3> QED  BY <1>9, <3>1
  <2>4. Connections'
    BY <1>7, <1>18 DEF ControlInv, Connections
  <2>5. Owned' = H \ {b}
    BY <1>1, <1>12, <1>13, <1>14, <1>18 DEF Owned
  <2>7. HeldIs(Owned)'
    BY <2>1, <2>5 DEF HeldIs
  <2>8. Ownership'
    BY <1>1, <1>14, <1>18, <2>7 DEF Ownership
  <2> QED  BY <1>15, <2>2, <2>3, <2>4, <2>8 DEF ControlInv
<1> QED  BY <1>1, <1>2, <1>3, <1>4, <1>17, <1>18 DEF internal_resolve_login

\* on_write and on_close: the connection of c ends and gives up its outbuf.
LEMMA EndKeeps ==
    ASSUME ControlInv, NEW c \in Clients, req[c] # None,
           udata' = [udata EXCEPT ![c] = NULL], conn' = [conn EXCEPT ![c] = "gone"],
           IF udata[c] # NULL THEN outbuf_release(udata[c]) ELSE UNCHANGED listVars,
           UNCHANGED <<req, dbVars, answers>>
    PROVE  ControlInv'
<1>0. /\ conn \in [Clients -> {"open", "sending", "closing", "gone"}]
      /\ udata \in [Clients -> Bufs \cup {NULL}] /\ NULL \notin Bufs
      /\ UNCHANGED <<req, tasks, task, res, db, answers>>
  BY TypesFacts DEF ControlInv, Types, dbVars
<1>1. PICK H : H = Owned
  BY Zenon
<1>2. PICK b : b = udata[c]
  BY Zenon
<1>3. HeldIs(H) /\ ListTypeOK /\ (b # NULL => b \in H)
  BY <1>1, <1>2 DEF ControlInv, Ownership, Owned, Types
<1>4. ListTypeOK' /\ HeldIs(H \ {b})'
  <2>1. CASE b # NULL
    <3>1. outbuf_release(b)
      BY <1>2, <2>1
    <3> QED  BY <1>3, <2>1, <3>1, ReleaseHeld
  <2>2. CASE b = NULL
    <3>1. UNCHANGED listVars
      BY <1>2, <2>2
    <3>2. H \ {b} = H
      BY <1>0, <1>1, <2>2, TypesFacts DEF ControlInv
    <3>3. ListTypeOK'
      BY <1>3, <3>1 DEF ListTypeOK, listVars
    <3> QED  BY <1>3, <3>1, <3>2, <3>3, HeldFrame
  <2> QED  BY <2>1, <2>2
<1>5. Types'
  BY <1>0, <1>4 DEF ControlInv, Types
<1>6. \A d \in Clients : Waits(d) => WaitsNext(d)
  BY <1>0 DEF Waits, WaitsNext
<1>7. OneLogin'
  <2>1. \A i \in 1 .. Len(tasks) : WaitsNext(tasks[i].c)
    BY <1>6, TypesFacts DEF ControlInv, OneLogin
  <2>2. \A j \in 1 .. Len(answers) : WaitsNext(answers[j].c)
    BY <1>6, TypesFacts DEF ControlInv, OneLogin
  <2>3. task # None => WaitsNext(task.c)
    BY <1>6, TypesFacts DEF ControlInv, OneLogin
  <2> QED  BY <1>0, <2>1, <2>2, <2>3
           DEF ControlInv, OneLogin, Distinct, Waits, WaitsNext
<1>8. Connections'
  BY <1>0 DEF ControlInv, Connections
<1>9. Owned' = H \ {b}
  <2>1. \A d \in Clients : udata[d] = b /\ b # NULL => d = c
    BY <1>2 DEF ControlInv, Ownership
  <2>2. \A j \in 1 .. Len(answers) : answers[j].output # b
    BY <1>2 DEF ControlInv, Ownership
  <2> QED  BY <1>0, <1>1, <1>2, <2>1, <2>2 DEF Owned
<1>10. HeldIs(Owned)'
  BY <1>4, <1>9 DEF HeldIs
<1>11. Ownership'
  <2>1. \A j \in 1 .. Len(answers) : answers[j].output # NULL
    BY <1>0, TypesFacts DEF ControlInv
  <2> QED  BY <1>0, <1>10, <2>1 DEF ControlInv, Ownership
<1>12. Progress'
  BY <1>0, ProgressFrame DEF ControlInv
<1> QED  BY <1>5, <1>7, <1>8, <1>11, <1>12 DEF ControlInv

\* The database thread has built its answer in b.
LEMMA AnswerKeeps ==
    ASSUME ControlInv, task # None, NEW b \in Bufs, outbuf_acquire(b),
           answers' = Append(answers, [c |-> task.c, output |-> b]),
           task' = None, UNCHANGED <<tasks, db, serverVars>>, res' = None
    PROVE  ControlInv'
<1> DEFINE R == [c : Clients, output : Bufs]
           n == Len(answers)
<1>0. answers \in Seq(R) /\ n \in Nat /\ NULL \notin Bufs /\ task.c \in Clients
      /\ UNCHANGED <<req, conn, udata, tasks, db>>
  BY TypesFacts DEF ControlInv, Types, serverVars
<1>1. PICK l : l = [c |-> task.c, output |-> b]
  BY Zenon
<1>2. l \in R /\ l.c = task.c /\ l.output = b
  BY <1>0, <1>1
<1>3. /\ answers' \in Seq(R) /\ Len(answers') = n + 1
      /\ \A i \in 1 .. n : answers'[i] = answers[i]
      /\ answers'[n + 1] = l
  <2>1. answers' = Append(answers, l)
    BY <1>1
  <2> QED  BY <1>0, <1>2, <2>1
<1>4. \A j \in 1 .. n + 1 : j \in 1 .. n \/ j = n + 1
  BY <1>0
<1>5. PICK H : H = Owned
  BY Zenon
<1>6. ListTypeOK' /\ b \notin H /\ HeldIs(H \cup {b})'
  BY <1>5, AcquireHeld DEF ControlInv, Types, Ownership
<1>7. Types'
  BY <1>0, <1>3, <1>6 DEF ControlInv, Types
<1>8. OneLogin'
  <2>1. Distinct(answers')
    <3>1. ASSUME NEW i \in 1 .. n + 1, NEW j \in 1 .. n + 1, answers'[i].c = answers'[j].c
          PROVE  i = j
      BY <1>2, <1>3, <1>4, <3>1 DEF ControlInv, OneLogin, Distinct
    <3> QED  BY <1>3, <3>1 DEF Distinct
  <2>2. \A j \in 1 .. n + 1 : Waits(answers'[j].c)
    BY <1>2, <1>3, <1>4 DEF ControlInv, OneLogin
  <2>3. \A i \in 1 .. Len(tasks), j \in 1 .. n + 1 : tasks[i].c # answers'[j].c
    BY <1>2, <1>3, <1>4 DEF ControlInv, OneLogin
  <2> QED  BY <1>0, <1>3, <2>1, <2>2, <2>3, SMTT(40) DEF ControlInv, OneLogin, Distinct, Waits
<1>9. Connections'
  BY <1>0 DEF ControlInv, Connections
<1>10. Owned' = H \cup {b}
  <2>1. {answers'[j].output : j \in 1 .. n + 1} = {answers[j].output : j \in 1 .. n} \cup {b}
    <3>1. n + 1 \in 1 .. n + 1 /\ \A j \in 1 .. n : j \in 1 .. n + 1
      BY <1>0
    <3> QED  BY <1>2, <1>3, <1>4, <3>1
  <2> QED  BY <1>0, <1>3, <1>5, <2>1 DEF Owned
<1>11. HeldIs(Owned)'
  BY <1>6, <1>10 DEF HeldIs
<1>12. Ownership'
  <2>1. /\ \A d \in Clients : udata[d] # b
        /\ \A j \in 1 .. n : answers[j].output # b
    BY <1>0, <1>5, <1>6 DEF Owned
  <2>2. ASSUME NEW i \in 1 .. n + 1, NEW j \in 1 .. n + 1,
               answers'[i].output = answers'[j].output
        PROVE  i = j
    BY <1>2, <1>3, <1>4, <2>1, <2>2 DEF ControlInv, Ownership
  <2>3. \A d \in Clients, j \in 1 .. n + 1 : udata[d] # answers'[j].output
    BY <1>2, <1>3, <1>4, <2>1 DEF ControlInv, Ownership
  <2> QED  BY <1>0, <1>3, <1>11, <2>2, <2>3 DEF ControlInv, Ownership
<1>13. Progress'
  BY DEF Progress
<1> QED  BY <1>7, <1>8, <1>9, <1>12, <1>13 DEF ControlInv

LEMMA TakeTaskKeeps ==
    ASSUME ControlInv, TakeTask
    PROVE  ControlInv'
<1> DEFINE n == Len(tasks)
<1>0. /\ tasks \in Seq(Login) /\ tasks # <<>> /\ tasks' = Tail(tasks) /\ n \in Nat
      /\ task' = Head(tasks) /\ task = None
      /\ UNCHANGED <<req, conn, udata, got, res, results, db, answers, listVars>>
  BY TypesFacts DEF ControlInv, Types, TakeTask, serverVars
<1>1. /\ tasks' \in Seq(Login) /\ Len(tasks') = n - 1 /\ n >= 1
      /\ \A i \in 1 .. n - 1 : tasks'[i] = tasks[i + 1]
      /\ task' = tasks[1] /\ tasks[1] \in Login
  BY <1>0, TailFacts
<1>2. \A i \in 1 .. n - 1 : i + 1 \in 1 .. n /\ i + 1 # 1 /\ 1 \in 1 .. n
  BY <1>0
<1>3. 1 \in 1 .. n
  BY <1>0, <1>1
<1>4. Types'
  <2>1. \A i \in 1 .. n - 1 : tasks'[i].accid = NoId
    BY <1>1, <1>2 DEF ControlInv, Types
  <2> QED  BY <1>0, <1>1, <2>1 DEF ControlInv, Types, ListTypeOK, listVars
<1>5. OneLogin'
  <2>1. Distinct(tasks')
    <3>1. ASSUME NEW i \in 1 .. n - 1, NEW j \in 1 .. n - 1, tasks'[i].c = tasks'[j].c
          PROVE  i = j
      <4>1. i + 1 = j + 1
        BY <1>1, <1>2, <3>1 DEF ControlInv, OneLogin, Distinct
      <4> QED  BY <4>1
    <3> QED  BY <1>1, <3>1 DEF Distinct
  <2>2. \A i \in 1 .. n - 1 : Waits(tasks'[i].c) /\ tasks'[i].c # tasks[1].c
    BY <1>1, <1>2 DEF ControlInv, OneLogin, Distinct
  <2>3. \A i \in 1 .. n - 1, j \in 1 .. Len(answers) : tasks'[i].c # answers[j].c
    BY <1>1, <1>2 DEF ControlInv, OneLogin
  <2>4. Waits(tasks[1].c) /\ \A j \in 1 .. Len(answers) : answers[j].c # tasks[1].c
    BY <1>3 DEF ControlInv, OneLogin
  <2> QED  BY <1>0, <1>1, <2>1, <2>2, <2>3, <2>4
           DEF ControlInv, OneLogin, Distinct, Waits
<1>6. Connections'
  BY <1>0 DEF ControlInv, Connections
<1>7. Ownership'
  BY <1>0, OwnershipFrame DEF ControlInv
<1>8. Progress'
  <2>1. task'.accid = NoId
    BY <1>1, <1>3 DEF ControlInv, Types
  <2>2. res' = None
    BY <1>0 DEF ControlInv, Progress
  <2> QED  BY <2>1, <2>2 DEF Progress
<1> QED  BY <1>4, <1>5, <1>6, <1>7, <1>8 DEF ControlInv

\* The id in a row is read as it is in the database.
LEMMA RowFacts ==
    ASSUME NEW name, NEW row \in AccountRows(name)
    PROVE  \E a \in Accounts : /\ a.name = name /\ a.pwd = row.pwd
                               /\ decode_u32_be(row.id, 0) = a.id
                               /\ a.id \in Nat /\ a.id # NoId
<1>1. PICK a \in Accounts : a.name = name /\ row = [id |-> BigEndian(a.id), pwd |-> a.pwd]
  BY DEF AccountRows
<1>2. a.id \in 0 .. U32 - 1
  BY AccountsAssumption DEF Account
<1>3. decode_u32_be(BigEndian(a.id), 0) = a.id
  BY <1>2, DecodeU32Be
<1>4. a.id \in Nat
  BY <1>2, ByteFacts
<1>5. row.id = BigEndian(a.id) /\ row.pwd = a.pwd
  BY <1>1
<1> QED  BY <1>1, <1>3, <1>4, <1>5, NoneFacts

LEMMA PasswordMatchesKeeps ==
    ASSUME ControlInv, PasswordMatches
    PROVE  ControlInv'
<1>0. /\ res # None /\ task.accid = NoId /\ res' = None
      /\ UNCHANGED <<req, conn, udata, got, tasks, db, answers, listVars>>
  BY DEF PasswordMatches, serverVars
<1>1. /\ task # None /\ task \in Login /\ task.accname # <<>>
      /\ res = [rows |-> AccountRows(task.accname)]
  BY <1>0, TypesFacts DEF ControlInv, Progress
<1>2. PICK row \in res.rows : /\ row.pwd = task.password
                              /\ task' = [task EXCEPT !.accid = decode_u32_be(row.id, 0)]
  BY DEF PasswordMatches
<1>3. row \in AccountRows(task.accname)
  BY <1>1, <1>2
<1>4. PICK a \in Accounts : /\ a.name = task.accname /\ a.pwd = row.pwd
                            /\ decode_u32_be(row.id, 0) = a.id
                            /\ a.id \in Nat /\ a.id # NoId
  BY <1>3, RowFacts
<1>5. PICK id \in Nat : id = a.id
  BY <1>4
<1>6. task' = [task EXCEPT !.accid = id]
  BY <1>2, <1>4, <1>5
<1>7. /\ task' \in Login /\ task'.c = task.c /\ task'.accname = task.accname
      /\ task'.password = task.password /\ task'.accid = id
  BY <1>1, <1>6 DEF Login
<1>8. Types'
  BY <1>0, <1>7 DEF ControlInv, Types, ListTypeOK, listVars
<1>9. OneLogin'
  BY <1>0, <1>1, <1>7, NoneFacts DEF ControlInv, OneLogin, Distinct, Waits
<1>10. Connections'
  BY <1>0 DEF ControlInv, Connections
<1>11. Ownership'
  BY <1>0, OwnershipFrame DEF ControlInv
<1>12. Progress'
  BY <1>0, <1>1, <1>2, <1>4, <1>5, <1>7 DEF Progress
<1> QED  BY <1>8, <1>9, <1>10, <1>11, <1>12 DEF ControlInv

LEMMA QueryKeeps ==
    ASSUME ControlInv,
           db_load_account_info \/ db_load_account_charlist \/ LoseDatabase
    PROVE  ControlInv'
<1>0. /\ UNCHANGED <<req, conn, udata, got, tasks, task, answers, listVars>>
      /\ db' \in {"ok", "lost"}
  BY DEF db_load_account_info, db_load_account_charlist, LoseDatabase, serverVars,
         ControlInv, Types
<1>1. Types'
  BY <1>0 DEF ControlInv, Types, ListTypeOK, listVars
<1>2. OneLogin'
  BY <1>0 DEF ControlInv, OneLogin, Distinct, Waits
<1>3. Connections'
  BY <1>0 DEF ControlInv, Connections
<1>4. Ownership'
  BY <1>0, OwnershipFrame DEF ControlInv
<1>5. Progress'
  <2>1. CASE db_load_account_info
    BY <1>0, <2>1 DEF ControlInv, Progress, db_load_account_info
  <2>2. CASE db_load_account_charlist
    BY <1>0, <2>2 DEF ControlInv, Progress, db_load_account_charlist
  <2>3. CASE LoseDatabase
    BY <2>3, ProgressFrame DEF ControlInv, LoseDatabase
  <2> QED  BY <2>1, <2>2, <2>3
<1> QED  BY <1>1, <1>2, <1>3, <1>4, <1>5 DEF ControlInv

\* Whenever the database thread answers, with whatever message, it holds a login,
\* and afterwards neither a login nor a result.
Answers(bytes) == Answer(task, bytes) /\ task # None /\ res' = None

LEMMA AnswersKeeps ==
    ASSUME ControlInv, NEW bytes, Answers(bytes)
    PROVE  ControlInv'
<1>1. PICK b \in Bufs : /\ outbuf_acquire(b)
                        /\ answers' = Append(answers, [c |-> task.c, output |-> b])
  BY DEF Answers, Answer
<1>2. task # None /\ task' = None /\ UNCHANGED <<tasks, db, serverVars>> /\ res' = None
  BY DEF Answers, Answer
<1> QED  BY <1>1, <1>2, AnswerKeeps

LEMMA AnswerCases ==
    ASSUME ControlInv
    PROVE  /\ NoAccountName => Answers(build_disconnect_message("name"))
           /\ LoadAccountInfoFails => Answers(build_disconnect_message("incorrect"))
           /\ NotCorrect => Answers(build_disconnect_message("incorrect"))
           /\ LoadCharlistFails => Answers(build_disconnect_message("internal"))
           /\ SendCharlist => Answers(CharlistMessage(res.names))
<1>1. NoAccountName => res = None
  BY DEF NoAccountName, ControlInv, Progress
<1>2. NoAccountName => Answers(build_disconnect_message("name"))
  BY <1>1 DEF NoAccountName, Answers
<1>3. LoadAccountInfoFails => Answers(build_disconnect_message("incorrect"))
  BY DEF LoadAccountInfoFails, Answers
<1>4. NotCorrect => Answers(build_disconnect_message("incorrect"))
  BY DEF NotCorrect, Answers, ControlInv, Progress
<1>5. LoadCharlistFails => Answers(build_disconnect_message("internal"))
  BY DEF LoadCharlistFails, Answers
<1>6. SendCharlist => Answers(CharlistMessage(res.names))
  BY DEF SendCharlist, Answers, ControlInv, Progress
<1> QED  BY <1>2, <1>3, <1>4, <1>5, <1>6

LEMMA OnWriteKeeps ==
    ASSUME ControlInv, NEW c \in Clients, on_write(c) \/ on_close(c)
    PROVE  ControlInv' /\ req[c] # None
<1>1. /\ udata' = [udata EXCEPT ![c] = NULL] /\ conn' = [conn EXCEPT ![c] = "gone"]
      /\ UNCHANGED <<req, dbVars, answers>>
  BY DEF on_write, on_close
<1>2. req[c] # None
  BY DEF on_write, on_close, ControlInv, Connections
<1>3. IF udata[c] # NULL THEN outbuf_release(udata[c]) ELSE UNCHANGED listVars
  <2>1. CASE on_write(c)
    BY <2>1 DEF on_write, ControlInv, Connections
  <2>2. CASE on_close(c)
    BY <2>2 DEF on_close
  <2> QED  BY <2>1, <2>2
<1> QED  BY <1>1, <1>2, <1>3, EndKeeps

LEMMA StutterKeepsControl ==
    ASSUME ControlInv, UNCHANGED vars
    PROVE  ControlInv'
<1>0. UNCHANGED <<req, conn, udata, tasks, task, res, db, answers, listVars>>
  BY DEF vars, replyVars
<1>1. Types'
  BY <1>0 DEF ControlInv, Types, ListTypeOK, listVars
<1>2. OneLogin' /\ Connections'
  BY <1>0 DEF ControlInv, OneLogin, Distinct, Waits, Connections
<1>3. Ownership'
  BY <1>0, OwnershipFrame DEF ControlInv
<1>4. Progress'
  BY <1>0, ProgressFrame DEF ControlInv
<1> QED  BY <1>1, <1>2, <1>3, <1>4 DEF ControlInv

LEMMA NextKeepsControl ==
    ASSUME ControlInv, [Next]_vars
    PROVE  ControlInv'
<1>1. CASE \E c \in Clients : \E r \in RequestsOf[c] :
             ReceiveMalformed(c, r) \/ ReceiveRefused(c, r) \/ ReceiveLogin(c, r)
  BY <1>1, ReceiveMalformedKeeps, ReceiveRefusedKeeps, ReceiveLoginKeeps
<1>2. CASE \E c \in Clients : on_write(c) \/ on_close(c)
  BY <1>2, OnWriteKeeps
<1>3. CASE internal_resolve_login
  BY <1>3, ResolveKeeps
<1>4. CASE TakeTask
  BY <1>4, TakeTaskKeeps
<1>5. CASE \/ NoAccountName \/ LoadAccountInfoFails \/ NotCorrect
           \/ LoadCharlistFails \/ SendCharlist
  BY <1>5, AnswerCases, AnswersKeeps
<1>6. CASE db_load_account_info \/ db_load_account_charlist \/ LoseDatabase
  BY <1>6, QueryKeeps
<1>7. CASE PasswordMatches
  BY <1>7, PasswordMatchesKeeps
<1>8. CASE UNCHANGED vars
  BY <1>8, StutterKeepsControl
<1> QED  BY <1>1, <1>2, <1>3, <1>4, <1>5, <1>6, <1>7, <1>8 DEF Next

LEMMA ControlAlways == Spec => []ControlInv
<1>1. Init => ControlInv
  BY InitControl
<1>2. ControlInv /\ [Next]_vars => ControlInv'
  BY NextKeepsControl
<1> QED  BY <1>1, <1>2, PTL DEF Spec

-----------------------------------------------------------------------------
(***************************************************************************)
(* What follows from it.                                                   *)
(***************************************************************************)

LEMMA OwnersCounted ==
    ASSUME ControlInv, NEW b \in Bufs
    PROVE  Owners(b) = IF b \in Owned THEN 1 ELSE 0
<1> DEFINE U == {c \in Clients : udata[c] = b}
           A == {i \in DOMAIN answers : answers[i].output = b}
<1>0. /\ NULL \notin Bufs /\ DOMAIN answers = 1 .. Len(answers)
  BY TypesFacts DEF ControlInv, Types
<1>1. Cardinality({}) = 0 /\ 0 + 1 = 1 /\ 1 + 0 = 1 /\ 0 + 0 = 0
  BY FS_EmptySet
<1>2. Owners(b) = Cardinality(U) + Cardinality(A)
  BY DEF Owners
<1>3. CASE \E c \in Clients : udata[c] = b
  <2>1. PICK c \in Clients : udata[c] = b
    BY <1>3
  <2>2. U = {c}
    BY <1>0, <2>1 DEF ControlInv, Ownership
  <2>3. A = {}
    BY <1>0, <2>1 DEF ControlInv, Ownership
  <2>4. b \in Owned
    BY <1>0, <2>1 DEF Owned
  <2>5. Cardinality({c}) = 1
    BY FS_Singleton
  <2> QED  BY <1>1, <1>2, <2>2, <2>3, <2>4, <2>5
<1>4. CASE \E i \in 1 .. Len(answers) : answers[i].output = b
  <2>1. PICK i \in 1 .. Len(answers) : answers[i].output = b
    BY <1>4
  <2>2. A = {i}
    BY <1>0, <2>1 DEF ControlInv, Ownership
  <2>3. U = {}
    BY <2>1 DEF ControlInv, Ownership
  <2>4. b \in Owned
    BY <2>1 DEF Owned
  <2>5. Cardinality({i}) = 1
    BY FS_Singleton
  <2> QED  BY <1>1, <1>2, <2>2, <2>3, <2>4, <2>5
<1>5. CASE /\ ~\E c \in Clients : udata[c] = b
           /\ ~\E i \in 1 .. Len(answers) : answers[i].output = b
  <2>1. U = {} /\ A = {}
    BY <1>0, <1>5
  <2>2. b \notin Owned
    BY <1>5 DEF Owned
  <2> QED  BY <1>1, <1>2, <2>1, <2>2
<1> QED  BY <1>3, <1>4, <1>5

\* For any number of clients, any pool and whatever connections end while their
\* logins are resolved: an outbuf of the heap is idle or has exactly one owner, and
\* the list of idle ones is sound (outbuf.c, internal_resolve_login, on_close,
\* on_write).
THEOREM OutbufsSafe == Spec => []OutbufsOwned
<1>1. ASSUME ControlInv PROVE OutbufsOwned
  <2>1. ListSound /\ Owned = heap \ Idle
    BY <1>1, HeldSound DEF ControlInv, Ownership, Types
  <2>2. \A b \in Bufs : Owners(b) = IF b \in heap \ Idle THEN 1 ELSE 0
    BY <1>1, <2>1, OwnersCounted
  <2> QED  BY <2>1, <2>2 DEF OutbufsOwned
<1> QED  BY <1>1, ControlAlways, PTL

\* Whatever lengths a request claims, on_recv_first_message reads bytes of the
\* decoded block only and keeps strings that fit with their terminator.
THEOREM ParserSafe == Spec => []ParseInBounds
<1>1. ASSUME ControlInv PROVE ParseInBounds
  <2>1. ASSUME NEW c \in Clients, req[c] # None,
               Len(rsa_decode(Plain(req[c]))) = RsaLen - 1
        PROVE  LET decoded == rsa_decode(Plain(req[c]))
                   cred == Credentials(decoded)
               IN  /\ cred.last <= Len(decoded)
                   /\ Len(cred.acc) < NameSize /\ Len(cred.pwd) < NameSize
    <3>1. PICK d : d = rsa_decode(Plain(req[c]))
      BY Zenon
    <3>2. req[c] \in Request
      BY <1>1, <2>1 DEF ControlInv, Types
    <3>3. Plain(req[c]) \in Seq(Byte)
      BY <3>2, PlainLayout DEF Layout
    <3>4. d \in Seq(Byte) /\ Len(d) = RsaLen - 1
      BY <2>1, <3>1, <3>3, RsaDecodeFacts
    <3> QED  BY <3>1, <3>4, CredentialsInBounds
  <2> QED  BY <2>1 DEF ParseInBounds
<1> QED  BY <1>1, ControlAlways, PTL

-----------------------------------------------------------------------------
(***************************************************************************)
(* Building a message in an output buffer.                                 *)
(***************************************************************************)

OutbufData == [base : [1 .. MaxOutbufLen -> Byte], ptr : Nat, fits : BOOLEAN]

\* v is w with bytes behind the first `at' ones of its memory.
Poked(v, w, at, bytes) ==
    /\ v \in OutbufData /\ v.ptr = w.ptr /\ v.fits = w.fits
    /\ at + Len(bytes) <= MaxOutbufLen => Lies(v.base, at, bytes)
    /\ \A p \in Nat, u \in Seq(Byte) :
         /\ Lies(w.base, p, u)
         /\ p + Len(u) <= at \/ at + Len(bytes) <= p
         => Lies(v.base, p, u)

LEMMA OutbufTypes ==
    ASSUME NEW w \in OutbufData
    PROVE  /\ w.base \in [1 .. MaxOutbufLen -> Byte] /\ w.ptr \in Nat /\ w.fits \in BOOLEAN
           /\ w.base \in Seq(Byte) /\ Len(w.base) = MaxOutbufLen
<1>1. w.base \in [1 .. MaxOutbufLen -> Byte] /\ w.ptr \in Nat /\ w.fits \in BOOLEAN
  BY DEF OutbufData
<1>2. PICK f \in [1 .. MaxOutbufLen -> Byte] : f = w.base
  BY <1>1
<1>3. f \in Seq(Byte) /\ Len(f) = MaxOutbufLen
  BY LayoutFacts, FunctionIsSeq
<1> QED  BY <1>1, <1>2, <1>3

LEMMA PokeFacts ==
    ASSUME NEW w \in OutbufData, NEW at \in Nat, NEW bytes \in Seq(Byte)
    PROVE  Poked(Poke(w, at, bytes), w, at, bytes)
<1>0. MaxOutbufLen \in Nat /\ Len(bytes) \in Nat
  BY LayoutFacts
<1>1. PICK f \in [1 .. MaxOutbufLen -> Byte] : f = w.base
  BY OutbufTypes
<1>2. PICK g : g = [i \in 1 .. MaxOutbufLen |->
                      IF i \in at + 1 .. at + Len(bytes) THEN bytes[i - at] ELSE f[i]]
  BY Zenon
<1>3. g \in [1 .. MaxOutbufLen -> Byte]
  <2>1. ASSUME NEW i \in 1 .. MaxOutbufLen, i \in at + 1 .. at + Len(bytes)
        PROVE  bytes[i - at] \in Byte
    <3>1. i - at \in 1 .. Len(bytes)
      BY <1>0, <2>1
    <3> QED  BY <3>1, ElementOf
  <2> QED  BY <1>2, <2>1
<1>4. g \in Seq(Byte) /\ Len(g) = MaxOutbufLen
  BY <1>0, <1>3, FunctionIsSeq
<1>5. f \in Seq(Byte) /\ Len(f) = MaxOutbufLen
  BY <1>0, FunctionIsSeq
<1>6. PICK v : v = Poke(w, at, bytes)
  BY Zenon
<1>7. v = [w EXCEPT !.base = g]
  BY <1>1, <1>2, <1>6 DEF Poke
<1>8. v \in OutbufData /\ v.base = g /\ v.ptr = w.ptr /\ v.fits = w.fits
  BY <1>3, <1>7 DEF OutbufData
<1>9. ASSUME at + Len(bytes) <= MaxOutbufLen PROVE Lies(g, at, bytes)
  <2>1. ASSUME NEW i \in 1 .. Len(bytes) PROVE g[at + i] = bytes[i]
    <3>1. at + i \in 1 .. MaxOutbufLen /\ at + i \in at + 1 .. at + Len(bytes)
          /\ (at + i) - at = i
      BY <1>0, <1>9
    <3> QED  BY <1>2, <3>1
  <2> QED  BY <1>4, <1>9, <2>1 DEF Lies
<1>10. ASSUME NEW p \in Nat, NEW u \in Seq(Byte), Lies(f, p, u),
              p + Len(u) <= at \/ at + Len(bytes) <= p
       PROVE  Lies(g, p, u)
  <2>0. Len(u) \in Nat /\ p + Len(u) <= MaxOutbufLen
    BY <1>5, <1>10 DEF Lies
  <2>1. ASSUME NEW i \in 1 .. Len(u) PROVE g[p + i] = u[i]
    <3>1. p + i \in 1 .. MaxOutbufLen /\ p + i \notin at + 1 .. at + Len(bytes)
      BY <1>0, <1>10, <2>0
    <3>2. f[p + i] = u[i]
      BY <1>10 DEF Lies
    <3> QED  BY <1>2, <3>1, <3>2
  <2> QED  BY <1>4, <2>0, <2>1 DEF Lies
<1> QED  BY <1>1, <1>6, <1>8, <1>9, <1>10 DEF Poked

\* v is w after the write of bytes.
Written(v, w, bytes) ==
    /\ v \in OutbufData /\ v.ptr = w.ptr + Len(bytes)
    /\ v.fits <=> w.fits /\ w.ptr + Len(bytes) <= MaxOutbufLen
    /\ w.ptr + Len(bytes) <= MaxOutbufLen => Lies(v.base, w.ptr, bytes)
    /\ \A p \in Nat, u \in Seq(Byte) :
         Lies(w.base, p, u) /\ p + Len(u) <= w.ptr => Lies(v.base, p, u)

LEMMA WriteFacts ==
    ASSUME NEW w \in OutbufData, NEW bytes \in Seq(Byte)
    PROVE  Written(Write(w, bytes), w, bytes)
<1>1. PICK at \in Nat : at = w.ptr
  BY OutbufTypes
<1>2. PICK x : x = Poke(w, at, bytes)
  BY Zenon
<1>3. Poked(x, w, at, bytes)
  BY <1>2, PokeFacts
<1>4. PICK v : v = Write(w, bytes)
  BY Zenon
<1>5. PICK fits : fits = (w.fits /\ at <= MaxOutbufLen - Len(bytes))
  BY Zenon
<1>6. PICK ptr : ptr = at + Len(bytes)
  BY Zenon
<1>7. Len(bytes) \in Nat /\ ptr \in Nat /\ fits \in BOOLEAN /\ MaxOutbufLen \in Nat
      /\ (at <= MaxOutbufLen - Len(bytes) <=> ptr <= MaxOutbufLen)
  BY <1>5, <1>6, LayoutFacts
<1>8. x \in OutbufData /\ x.ptr = at /\ x.fits = w.fits
  BY <1>1, <1>3 DEF Poked
<1>9. v = [x EXCEPT !.fits = fits, !.ptr = ptr]
  BY <1>1, <1>2, <1>4, <1>5, <1>6, <1>8 DEF Write
<1>10. v \in OutbufData /\ v.base = x.base /\ v.ptr = ptr /\ v.fits = fits
  BY <1>7, <1>8, <1>9 DEF OutbufData
<1>11. ptr <= MaxOutbufLen => Lies(v.base, at, bytes)
  BY <1>3, <1>6, <1>10 DEF Poked
<1>12. \A p \in Nat, u \in Seq(Byte) :
          Lies(w.base, p, u) /\ p + Len(u) <= at => Lies(v.base, p, u)
  BY <1>3, <1>10, Zenon DEF Poked
<1>13. v.fits <=> w.fits /\ ptr <= MaxOutbufLen
  BY <1>5, <1>7, <1>10
<1> QED  BY <1>1, <1>4, <1>6, <1>10, <1>11, <1>12, <1>13, Zenon DEF Written

\* A message is padded to whole blocks.
LEMMA PaddingFacts ==
    ASSUME NEW n \in Nat
    PROVE  \E B \in Nat, pad \in Nat : /\ pad = Padding(n) /\ n + pad = 8 * B
                                       /\ B = (n + 7) \div 8
<1>1. PICK q \in Nat : q = n \div 8
  OBVIOUS
<1>2. PICK r \in 0 .. 7 : r = n % 8
  OBVIOUS
<1>3. n = 8 * q + r
  BY <1>1, <1>2
<1>4. CASE r = 0
  <2>1. Padding(n) = 0 /\ (n + 7) \div 8 = q
    BY <1>2, <1>3, <1>4 DEF Padding
  <2> QED  BY <1>3, <1>4, <2>1
<1>5. CASE r # 0
  <2>1. Padding(n) = 8 - r /\ (n + 7) \div 8 = q + 1
    BY <1>2, <1>3, <1>5 DEF Padding
  <2>2. 8 - r \in Nat /\ q + 1 \in Nat /\ n + (8 - r) = 8 * (q + 1)
    BY <1>3
  <2> QED  BY <2>1, <2>2
<1> QED  BY <1>4, <1>5

\* Reading a part of the memory: what lies inside the part lies there.
LEMMA LiesPart ==
    ASSUME NEW x \in Seq(Byte), NEW z, NEW m \in Nat, NEW n \in Nat, m <= n, n <= Len(x),
           Part(z, Byte, x, m + 1, n),
           NEW at \in Nat, NEW w \in Seq(Byte), m + at + Len(w) <= n, Lies(x, m + at, w)
    PROVE  z \in Seq(Byte) /\ Len(z) = n - m /\ Lies(z, at, w)
<1>0. n - (m + 1) + 1 = n - m /\ Len(w) \in Nat
  OBVIOUS
<1>1. z \in Seq(Byte) /\ Len(z) = n - m
  BY <1>0 DEF Part
<1>2. ASSUME NEW i \in 1 .. Len(w) PROVE z[at + i] = w[i]
  <2>1. at + i \in 1 .. n - (m + 1) + 1
    BY <1>0
  <2>2. z[at + i] = x[m + 1 + (at + i) - 1]
    BY <2>1 DEF Part
  <2>3. m + 1 + (at + i) - 1 = m + at + i
    BY <1>0
  <2>4. x[m + at + i] = w[i]
    BY DEF Lies
  <2> QED  BY <2>2, <2>3, <2>4
<1> QED  BY <1>0, <1>1, <1>2 DEF Lies

\* The client finds in a wrapped message the body that was put there.
LEMMA UnwrapFacts ==
    ASSUME NEW base \in Seq(Byte), NEW k \in Keys, NEW body \in Seq(Byte),
           NEW plain \in Seq(Byte), NEW B \in Nat, Len(plain) = 8 * B,
           Lies(plain, 0, encode_u16_le(Len(body))), Lies(plain, 2, body),
           Lies(base, 0, encode_u16_le(8 * B + 4)),
           Lies(base, 2, encode_u32_le(adler32(xtea_encode(k, plain)))),
           Lies(base, 6, xtea_encode(k, plain)),
           8 * B + 6 < U16
    PROVE  Unwrapped(SubSeq(base, 1, 6 + 8 * B), k) = body
<1>1. PICK data : data = xtea_encode(k, plain)
  BY Zenon
<1>2. data \in Seq(Byte) /\ Len(data) = 8 * B /\ xtea_decode(k, data) = plain
  BY <1>1, XteaInverts
<1>3. PICK N \in Nat : N = 6 + 8 * B
  OBVIOUS
<1>4. N <= Len(base) /\ N < U16 /\ 8 * B = N - 6 /\ 6 <= N
  BY <1>1, <1>2, <1>3 DEF Lies
<1>5. PICK msg : msg = SubSeq(base, 1, N)
  BY Zenon
<1>6. Part(msg, Byte, base, 0 + 1, N)
  <2>1. 1 \in Nat /\ 1 <= 1 /\ 1 <= N + 1 /\ 0 + 1 = 1
    OBVIOUS
  <2> QED  BY <1>4, <1>5, <2>1, PartFacts
<1>7. PICK e1 : e1 = encode_u16_le(8 * B + 4)
  BY Zenon
<1>8. PICK sum : sum = adler32(data)
  BY Zenon
<1>9. sum = Adler32(data) /\ sum \in 0 .. U32 - 1 /\ sum \in Int
  BY <1>2, <1>8, AdlerExact, ByteFacts
<1>10. PICK e2 : e2 = encode_u32_le(sum)
  BY Zenon
<1>11. /\ e1 \in Seq(Byte) /\ Len(e1) = 2 /\ e2 \in Seq(Byte) /\ Len(e2) = 4
  BY <1>7, <1>9, <1>10, EncodeU16, EncodeU32
<1>12. ASSUME NEW at \in Nat, NEW w \in Seq(Byte), Lies(base, at, w), at + Len(w) <= N
       PROVE  msg \in Seq(Byte) /\ Len(msg) = N /\ Lies(msg, at, w)
  <2>1. 0 \in Nat /\ 0 <= N /\ 0 + at = at /\ N - 0 = N /\ Len(w) \in Nat
        /\ 0 + at + Len(w) <= N
    BY <1>12
  <2>2. Lies(base, 0 + at, w)
    BY <1>12, <2>1
  <2>3. msg \in Seq(Byte) /\ Len(msg) = N - 0 /\ Lies(msg, at, w)
    BY <1>4, <1>6, <1>12, <2>1, <2>2, LiesPart
  <2> QED  BY <2>1, <2>3
<1>13. /\ msg \in Seq(Byte) /\ Len(msg) = N
       /\ Lies(msg, 0, e1) /\ Lies(msg, 2, e2) /\ Lies(msg, 6, data)
  <2>1. 0 \in Nat /\ 2 \in Nat /\ 6 \in Nat /\ 0 + Len(e1) <= N /\ 2 + Len(e2) <= N
        /\ 6 + Len(data) <= N
    BY <1>2, <1>3, <1>4, <1>11
  <2>2. Lies(base, 0, e1) /\ Lies(base, 2, e2) /\ Lies(base, 6, data)
    BY <1>1, <1>7, <1>8, <1>10
  <2> QED  BY <1>2, <1>11, <1>12, <2>1, <2>2
<1>14. BytesAt(msg, 6, Len(msg) - 6) = data
  <2>1. Len(msg) - 6 = Len(data) /\ 6 \in Nat
    BY <1>2, <1>4, <1>13
  <2> QED  BY <1>2, <1>13, <2>1, LiesBytesAt
<1>15. decode_u16_le(msg, 0) = Len(msg) - 2
  <2>1. 0 \in Nat /\ 8 * B + 4 \in Int /\ 8 * B + 4 \in 0 .. U16 - 1 /\ Len(msg) - 2 = 8 * B + 4
    BY <1>3, <1>13, ByteFacts
  <2>2. Holds(msg, 0, encode_u16_le(8 * B + 4))
    BY <1>7, <1>11, <1>13, <2>1, LiesHolds
  <2>3. decode_u16_le(msg, 0) = (8 * B + 4) % U16
    BY <2>1, <2>2, DecodeU16
  <2>4. (8 * B + 4) % U16 = 8 * B + 4
    BY <2>1, SmallMod, ByteFacts
  <2> QED  BY <2>1, <2>3, <2>4
<1>16. decode_u32_le(msg, 2) = Adler32(data)
  <2>1. 2 \in Nat
    OBVIOUS
  <2>2. Holds(msg, 2, encode_u32_le(sum))
    BY <1>10, <1>11, <1>13, <2>1, LiesHolds
  <2> QED  BY <1>9, <2>1, <2>2, DecodeU32
<1>17. PICK n \in Nat : n = Len(body)
  OBVIOUS
<1>18. 2 + n <= Len(plain) /\ n \in 0 .. U16 - 1 /\ n \in Int
  BY <1>17, ByteFacts DEF Lies
<1>19. decode_u16_le(plain, 0) = n
  <2>1. 0 \in Nat /\ encode_u16_le(n) \in Seq(Byte)
    BY <1>18, EncodeU16
  <2>2. Holds(plain, 0, encode_u16_le(n))
    BY <1>17, <2>1, LiesHolds
  <2>3. decode_u16_le(plain, 0) = n % U16
    BY <1>18, <2>1, <2>2, DecodeU16
  <2> QED  BY <1>18, <2>3, SmallMod, ByteFacts
<1>20. BytesAt(plain, 2, n) = body
  <2>1. 2 \in Nat
    OBVIOUS
  <2> QED  BY <1>17, <2>1, LiesBytesAt
<1>21. n + 2 <= Len(plain)
  BY <1>17, <1>18
<1>22. Unwrapped(msg, k) = body
  BY <1>2, <1>14, <1>15, <1>16, <1>19, <1>20, <1>21, Zenon DEF Unwrapped
<1> QED  BY <1>3, <1>5, <1>22

\* Whatever the outbuf held before, a message that fits is built inside it and
\* its client reads it as it was written.
BuiltRight(v, k, bytes) ==
    /\ v \in OutbufData
    /\ Fits(bytes) => v.fits /\ Unwrapped(SubSeq(v.base, 1, v.ptr), k) = bytes

LEMMA WrapFacts ==
    ASSUME NEW w \in OutbufData, NEW bytes \in Seq(Byte), NEW k \in Keys
    PROVE  BuiltRight(outbuf_wrap(Write(outbuf_prepare(w), bytes), k), k, bytes)
<1>1. PICK n \in Nat : n = Len(bytes)
  OBVIOUS
<1>2. PICK B \in Nat, pad \in Nat : /\ pad = Padding(n + 2) /\ (n + 2) + pad = 8 * B
                                    /\ B = ((n + 2) + 7) \div 8
  <2>1. n + 2 \in Nat
    OBVIOUS
  <2> QED  BY <2>1, PaddingFacts
<1>3. PICK N \in Nat : N = 6 + 8 * B
  OBVIOUS
<1>4. PICK w1 : w1 = outbuf_prepare(w)
  BY Zenon
<1>5. w1 \in OutbufData /\ w1.ptr = 8 /\ w1.fits = TRUE
  BY <1>4 DEF outbuf_prepare, OutbufData
<1>6. PICK w2 : w2 = Write(w1, bytes)
  BY Zenon
<1>7. Written(w2, w1, bytes)
  BY <1>5, <1>6, WriteFacts
<1>8. /\ w2 \in OutbufData /\ w2.ptr = 8 + n
      /\ w2.fits <=> 8 + n <= MaxOutbufLen
      /\ 8 + n <= MaxOutbufLen => Lies(w2.base, 8, bytes)
  BY <1>1, <1>5, <1>7 DEF Written
<1>9. PICK threes : threes = [i \in 1 .. pad |-> 3]
  BY Zenon
<1>10. threes \in Seq(Byte) /\ Len(threes) = pad
  <2>1. threes \in [1 .. pad -> Byte]
    BY <1>9, LayoutFacts
  <2> QED  BY <2>1, FunctionIsSeq
<1>11. PICK p : p = Write(w2, threes)
  BY Zenon
<1>12. Written(p, w2, threes)
  BY <1>8, <1>10, <1>11, WriteFacts
<1>13. (8 + n) + pad = N /\ n \in Int /\ 8 + n <= N /\ 6 <= N
  BY <1>2, <1>3
<1>14. p \in OutbufData /\ p.ptr = N /\ (p.fits <=> w2.fits /\ N <= MaxOutbufLen)
  <2>1. w2.ptr + Len(threes) = N
    BY <1>8, <1>10, <1>13
  <2> QED  BY <1>12, <2>1, Zenon DEF Written
<1>15. (8 + n <= MaxOutbufLen) => Lies(p.base, 8, bytes)
  <2>1. 8 \in Nat /\ 8 + Len(bytes) <= w2.ptr
    BY <1>1, <1>8
  <2> QED  BY <1>8, <1>12, <2>1, Zenon DEF Written
<1>16. Fits(bytes) <=> N <= MaxOutbufLen
  <2>1. 2 + n + 7 = (n + 2) + 7
    OBVIOUS
  <2> QED  BY <1>1, <1>2, <1>3, <2>1 DEF Fits
<1>17. p.fits <=> N <= MaxOutbufLen
  BY <1>8, <1>13, <1>14, LayoutFacts
<1>18. PICK v : v = outbuf_wrap(w2, k)
  BY Zenon
<1>19. PICK e0 : e0 = encode_u16_le(n)
  BY Zenon
<1>20. e0 \in Seq(Byte) /\ Len(e0) = 2
  BY <1>13, <1>19, EncodeU16
<1>21. PICK q : q = Poke(p, 6, e0)
  BY Zenon
<1>22. Poked(q, p, 6, e0)
  BY <1>14, <1>20, <1>21, PokeFacts
<1>23. PICK plain : plain = BytesAt(q.base, 6, 8 * B)
  BY Zenon
<1>24. PICK data : data = xtea_encode(k, plain)
  BY Zenon
<1>25. PICK e1 : e1 = encode_u16_le(8 * B + 4)
  BY Zenon
<1>26. PICK e2 : e2 = encode_u32_le(adler32(data))
  BY Zenon
<1>27. PICK head : head = e1 \o e2
  BY Zenon
<1>28. PICK q2 : q2 = Poke(q, 6, data)
  BY Zenon
<1>29. v = IF p.fits THEN Poke(q2, 0, head) ELSE p
  <2>1. /\ w2.ptr - 6 = n + 2 /\ (n + 2) - 2 = n /\ (n + 2) + pad = 8 * B
    BY <1>2, <1>8
  <2>2. DEFINE len == w2.ptr - 6
  <2>3. len = n + 2 /\ len - 2 = n /\ Padding(len) = pad /\ len + pad = 8 * B
    BY <1>2, <2>1
  <2> QED  BY <1>9, <1>11, <1>18, <1>19, <1>21, <1>23, <1>24, <1>25, <1>26, <1>27,
              <1>28, <2>3 DEF outbuf_wrap
<1>30. CASE ~p.fits
  BY <1>4, <1>6, <1>14, <1>16, <1>17, <1>18, <1>29, <1>30 DEF BuiltRight
<1>31. CASE p.fits
  <2>1. N <= MaxOutbufLen /\ 8 + n <= MaxOutbufLen /\ MaxOutbufLen < U16
        /\ MaxOutbufLen \in Nat /\ N < U16
    BY <1>13, <1>17, <1>31, LayoutFacts, ByteFacts
  <2>2. q \in OutbufData /\ q.ptr = N /\ q.fits
        /\ Lies(q.base, 6, e0) /\ Lies(q.base, 8, bytes)
    <3>1. 6 + Len(e0) <= MaxOutbufLen /\ 6 + Len(e0) <= 8 /\ 8 \in Nat
      BY <1>13, <1>20, <2>1
    <3>2. Lies(p.base, 8, bytes)
      BY <1>15, <2>1
    <3> QED  BY <1>14, <1>22, <1>31, <3>1, <3>2, Zenon DEF Poked
  <2>3. PICK qb : qb = q.base
    BY Zenon
  <2>4. qb \in Seq(Byte) /\ Len(qb) = MaxOutbufLen
    BY <2>2, <2>3, OutbufTypes
  <2>5. Part(plain, Byte, qb, 6 + 1, 6 + 8 * B)
    <3>1. 6 \in Nat /\ 8 * B \in Nat /\ 6 + 8 * B <= Len(qb)
      BY <1>3, <2>1, <2>4
    <3> QED  BY <1>23, <2>3, <2>4, <3>1, BytesAtFacts
  <2>6. /\ plain \in Seq(Byte) /\ Len(plain) = 8 * B
        /\ Lies(plain, 0, e0) /\ Lies(plain, 2, bytes)
    <3>1. /\ 6 \in Nat /\ N \in Nat /\ 6 <= N /\ N <= Len(qb) /\ 0 \in Nat /\ 2 \in Nat
          /\ 6 + 0 = 6 /\ 6 + 2 = 8 /\ 6 + 0 + Len(e0) <= N /\ 6 + 2 + Len(bytes) <= N
          /\ N - 6 = 8 * B
      BY <1>1, <1>3, <1>13, <1>20, <2>1, <2>4
    <3>2. Part(plain, Byte, qb, 6 + 1, N)
      BY <1>3, <2>5
    <3>3. Lies(qb, 6 + 0, e0) /\ Lies(qb, 6 + 2, bytes)
      BY <2>2, <2>3, <3>1
    <3>4. ASSUME NEW at \in Nat, NEW u \in Seq(Byte), 6 + at + Len(u) <= N,
                 Lies(qb, 6 + at, u)
          PROVE  plain \in Seq(Byte) /\ Len(plain) = N - 6 /\ Lies(plain, at, u)
      <4>1. PICK m \in Nat : m = 6
        OBVIOUS
      <4>2. m <= N /\ Part(plain, Byte, qb, m + 1, N) /\ Lies(qb, m + at, u)
            /\ m + at + Len(u) <= N
        BY <3>1, <3>2, <3>4, <4>1
      <4>3. plain \in Seq(Byte) /\ Len(plain) = N - m /\ Lies(plain, at, u)
        BY <2>4, <3>1, <4>2, LiesPart
      <4> QED  BY <4>1, <4>3
    <3> QED  BY <1>20, <3>1, <3>3, <3>4
  <2>7. data \in Seq(Byte) /\ Len(data) = 8 * B
    BY <1>24, <2>6, XteaInverts
  <2>8. e1 \in Seq(Byte) /\ Len(e1) = 2 /\ e2 \in Seq(Byte) /\ Len(e2) = 4
    <3>1. 8 * B + 4 \in Int /\ adler32(data) \in Int
      BY <2>7, AdlerExact, ByteFacts
    <3> QED  BY <1>25, <1>26, <3>1, EncodeU16, EncodeU32
  <2>9. /\ head \in Seq(Byte) /\ Len(head) = 6
        /\ \A i \in 1 .. 2 : head[i] = e1[i]
        /\ \A i \in 1 .. 4 : head[2 + i] = e2[i]
    <3>1. Joined(head, Byte, e1, e2)
      BY <1>27, <2>8, ConcatFacts
    <3>2. /\ head \in Seq(Byte) /\ Len(head) = Len(e1) + Len(e2)
          /\ \A i \in 1 .. Len(e1) : head[i] = e1[i]
          /\ \A i \in 1 .. Len(e2) : head[Len(e1) + i] = e2[i]
      BY <3>1 DEF Joined
    <3> QED  BY <2>8, <3>2
  <2>10. Poked(q2, q, 6, data)
    BY <1>28, <2>2, <2>7, PokeFacts
  <2>11. q2 \in OutbufData /\ q2.ptr = N /\ q2.fits /\ Lies(q2.base, 6, data)
    <3>1. 6 + Len(data) <= MaxOutbufLen
      BY <1>3, <2>1, <2>7
    <3> QED  BY <2>2, <2>10, <3>1 DEF Poked
  <2>12. Poked(v, q2, 0, head)
    <3>1. 0 \in Nat
      OBVIOUS
    <3> QED  BY <1>29, <1>31, <2>9, <2>11, <3>1, PokeFacts
  <2>13. v \in OutbufData /\ v.ptr = N /\ v.fits
         /\ Lies(v.base, 0, head) /\ Lies(v.base, 6, data)
    <3>1. 0 + Len(head) <= MaxOutbufLen /\ 0 + Len(head) <= 6 /\ 6 \in Nat
      BY <1>13, <2>1, <2>9
    <3> QED  BY <2>7, <2>11, <2>12, <3>1, Zenon DEF Poked
  <2>14. PICK vb : vb = v.base
    BY Zenon
  <2>15. vb \in Seq(Byte)
    BY <2>13, <2>14, OutbufTypes
  <2>16. Lies(vb, 0, head) /\ Lies(vb, 6, data)
    BY <2>13, <2>14
  <2>17. 6 <= Len(vb) /\ \A i \in 1 .. 6 : vb[i] = head[i]
    <3>1. 0 + Len(head) <= Len(vb) /\ \A i \in 1 .. Len(head) : vb[0 + i] = head[i]
      BY <2>16 DEF Lies
    <3>2. \A i \in 1 .. 6 : 0 + i = i
      OBVIOUS
    <3> QED  BY <2>9, <3>1, <3>2
  <2>18. Lies(vb, 0, e1) /\ Lies(vb, 2, e2)
    <3>1. \A i \in 1 .. 2 : i \in 1 .. 6 /\ 0 + i = i
      OBVIOUS
    <3>2. \A i \in 1 .. 4 : 2 + i \in 1 .. 6
      OBVIOUS
    <3>3. 0 + 2 <= Len(vb) /\ 2 + 4 <= Len(vb)
      BY <2>15, <2>17
    <3> QED  BY <2>8, <2>9, <2>17, <3>1, <3>2, <3>3 DEF Lies
  <2>19. Unwrapped(SubSeq(vb, 1, 6 + 8 * B), k) = bytes
    <3>1. 8 * B + 6 < U16
      BY <1>3, <2>1
    <3> QED  BY <1>1, <1>19, <1>24, <1>25, <1>26, <2>6, <2>15, <2>16, <2>18, <3>1,
                UnwrapFacts
  <2>20. Unwrapped(SubSeq(v.base, 1, v.ptr), k) = bytes
    BY <1>3, <2>13, <2>14, <2>19
  <2> QED  BY <1>4, <1>6, <1>18, <2>13, <2>20 DEF BuiltRight
<1> QED  BY <1>30, <1>31

-----------------------------------------------------------------------------
(***************************************************************************)
(* The messages, and what the client understands of them.                  *)
(***************************************************************************)

LEMMA LiesSelf ==
    ASSUME NEW x \in Seq(Byte)
    PROVE  Lies(x, 0, x)
<1>1. Len(x) \in Nat /\ 0 + Len(x) <= Len(x) /\ \A i \in 1 .. Len(x) : 0 + i = i
  OBVIOUS
<1> QED  BY <1>1 DEF Lies

\* What lies there as a whole lies there in parts.
LEMMA LiesSplit ==
    ASSUME NEW x \in Seq(Byte), NEW at \in Nat, NEW u \in Seq(Byte), NEW v \in Seq(Byte),
           Lies(x, at, u \o v)
    PROVE  Lies(x, at, u) /\ Lies(x, at + Len(u), v)
<1>1. PICK z : z = u \o v
  BY Zenon
<1>2. Joined(z, Byte, u, v)
  BY <1>1, ConcatFacts
<1>3. /\ z \in Seq(Byte) /\ Len(z) = Len(u) + Len(v) /\ Len(u) \in Nat /\ Len(v) \in Nat
      /\ \A i \in 1 .. Len(u) : z[i] = u[i]
      /\ \A i \in 1 .. Len(v) : z[Len(u) + i] = v[i]
  BY <1>2 DEF Joined
<1>4. at + Len(z) <= Len(x) /\ \A i \in 1 .. Len(z) : x[at + i] = z[i]
  BY <1>1 DEF Lies
<1>5. Lies(x, at, u)
  <2>1. \A i \in 1 .. Len(u) : i \in 1 .. Len(z)
    BY <1>3
  <2>2. at + Len(u) <= Len(x)
    BY <1>3, <1>4
  <2> QED  BY <1>3, <1>4, <2>1, <2>2 DEF Lies
<1>6. Lies(x, at + Len(u), v)
  <2>1. ASSUME NEW i \in 1 .. Len(v) PROVE x[at + Len(u) + i] = v[i]
    <3>1. Len(u) + i \in 1 .. Len(z) /\ at + (Len(u) + i) = at + Len(u) + i
      BY <1>3
    <3> QED  BY <1>3, <1>4, <3>1
  <2>2. at + Len(u) + Len(v) <= Len(x)
    BY <1>3, <1>4
  <2> QED  BY <2>1, <2>2 DEF Lies
<1> QED  BY <1>5, <1>6

LEMMA StrFacts ==
    ASSUME NEW s \in Seq(Byte)
    PROVE  /\ str(s) \in Seq(Byte) /\ Len(str(s)) = 2 + Len(s)
           /\ encode_u16_le(Len(s)) \in Seq(Byte) /\ Len(encode_u16_le(Len(s))) = 2
<1>1. PICK e : e = encode_u16_le(Len(s))
  BY Zenon
<1>2. e \in Seq(Byte) /\ Len(e) = 2
  <2>1. Len(s) \in Int
    OBVIOUS
  <2> QED  BY <1>1, <2>1, EncodeU16
<1>3. PICK z : z = e \o s
  BY Zenon
<1>4. Joined(z, Byte, e, s)
  BY <1>2, <1>3, ConcatFacts
<1>5. z \in Seq(Byte) /\ Len(z) = Len(e) + Len(s)
  BY <1>4 DEF Joined
<1>6. str(s) = z
  BY <1>1, <1>3 DEF str
<1> QED  BY <1>1, <1>2, <1>5, <1>6

\* A string of a message is read as it was written.
LEMMA StringThere ==
    ASSUME NEW x \in Seq(Byte), NEW at \in Nat, NEW s \in Seq(Byte), Len(s) < U16,
           Lies(x, at, str(s))
    PROVE  StringAt(x, at) = s
<1>1. PICK e : e = encode_u16_le(Len(s))
  BY Zenon
<1>2. e \in Seq(Byte) /\ Len(e) = 2 /\ str(s) = e \o s
  BY <1>1, StrFacts DEF str
<1>3. Lies(x, at, e) /\ Lies(x, at + 2, s)
  <2>1. Lies(x, at, e) /\ Lies(x, at + Len(e), s)
    BY <1>2, LiesSplit
  <2> QED  BY <1>2, <2>1
<1>4. Len(s) \in Int /\ Len(s) \in 0 .. U16 - 1
  BY ByteFacts
<1>5. decode_u16_le(x, at) = Len(s)
  <2>1. Holds(x, at, e)
    BY <1>2, <1>3, LiesHolds
  <2>2. decode_u16_le(x, at) = Len(s) % U16
    BY <1>1, <1>4, <2>1, DecodeU16
  <2> QED  BY <1>4, <2>2, SmallMod, ByteFacts
<1>6. BytesAt(x, at + 2, Len(s)) = s
  <2>1. at + 2 \in Nat
    OBVIOUS
  <2> QED  BY <1>3, <2>1, LiesBytesAt
<1> QED  BY <1>5, <1>6 DEF StringAt

LEMMA ByteSeq ==
    ASSUME NEW v \in Int
    PROVE  byte(v) \in Seq(Byte) /\ Len(byte(v)) = 1 /\ byte(v)[1] = v % ByteMod
<1>1. v % ByteMod \in Byte
  BY ByteFacts, DivMod
<1> QED  BY <1>1 DEF byte

LEMMA TextFacts ==
    ASSUME NEW reason \in DOMAIN Text
    PROVE  Text[reason] \in Seq(Byte) /\ Len(Text[reason]) <= 3
<1>1. 1 \in Byte /\ 2 \in Byte /\ 3 \in Byte /\ 4 \in Byte /\ 5 \in Byte
  BY LayoutFacts
<1>2. /\ <<1>> \in Seq(Byte) /\ <<2, 2>> \in Seq(Byte) /\ <<3>> \in Seq(Byte)
      /\ <<4, 4, 4>> \in Seq(Byte) /\ <<5, 5>> \in Seq(Byte)
  BY <1>1
<1>3. reason \in {"version", "banned", "name", "incorrect", "internal"}
  BY DEF Text
<1>4. Text[reason] \in {<<1>>, <<2, 2>>, <<3>>, <<4, 4, 4>>, <<5, 5>>}
  BY <1>3 DEF Text
<1>5. /\ Len(<<1>>) = 1 /\ Len(<<2, 2>>) = 2 /\ Len(<<3>>) = 1
      /\ Len(<<4, 4, 4>>) = 3 /\ Len(<<5, 5>>) = 2
  OBVIOUS
<1>6. 1 <= 3 /\ 2 <= 3 /\ 3 <= 3
  OBVIOUS
<1>7. \A t \in {<<1>>, <<2, 2>>, <<3>>, <<4, 4, 4>>, <<5, 5>>} :
        t \in Seq(Byte) /\ Len(t) <= 3
  BY <1>2, <1>5, <1>6, Zenon
<1> QED  BY <1>4, <1>7

\* A refusal is understood.
LEMMA DisconnectUnderstood ==
    ASSUME NEW reason \in DOMAIN Text
    PROVE  /\ build_disconnect_message(reason) \in Seq(Byte)
           /\ Understood(build_disconnect_message(reason)) = Error(reason)
<1>1. PICK t : t = Text[reason]
  BY Zenon
<1>2. t \in Seq(Byte) /\ Len(t) \in Nat /\ Len(t) <= 3
  BY <1>1, TextFacts
<1>3. PICK o : o = byte(OpError)
  BY Zenon
<1>4. o \in Seq(Byte) /\ Len(o) = 1 /\ o[1] = 0
  <2>1. 0 \in Int /\ 0 % ByteMod = 0
    BY ByteFacts
  <2> QED  BY <1>3, <2>1, ByteSeq DEF OpError
<1>5. PICK s : s = str(t)
  BY Zenon
<1>6. s \in Seq(Byte)
  BY <1>2, <1>5, StrFacts
<1>7. PICK body : body = o \o s
  BY Zenon
<1>8. Joined(body, Byte, o, s)
  BY <1>4, <1>6, <1>7, ConcatFacts
<1>9. /\ body \in Seq(Byte) /\ Len(body) = Len(o) + Len(s)
      /\ \A i \in 1 .. Len(o) : body[i] = o[i]
  BY <1>8 DEF Joined
<1>10. body # <<>> /\ body[1] = 0
  BY <1>4, <1>6, <1>9
<1>11. Lies(body, 1, s)
  <2>1. Lies(body, Len(o), s)
    BY <1>4, <1>6, <1>7, LiesLast
  <2> QED  BY <1>4, <2>1
<1>12. StringAt(body, 1) = t
  <2>1. Len(t) < U16 /\ 1 \in Nat
    <3>1. 5 \in Byte
      BY LayoutFacts
    <3>2. U16 > 5
      <4>1. ByteMod \in Nat /\ ByteMod > 5 /\ U16 = ByteMod * ByteMod
        BY <3>1, ByteFacts
      <4>2. ByteMod * ByteMod > 5
        BY <4>1
      <4> QED  BY <4>1, <4>2
    <3> QED  BY <1>2, <3>2, ByteFacts
  <2> QED  BY <1>2, <1>5, <1>9, <1>11, <2>1, StringThere
<1>13. Understood(body) = [kind |-> "error", text |-> t]
  BY <1>10, <1>12 DEF Understood, OpError
<1>14. body = build_disconnect_message(reason)
  BY <1>1, <1>3, <1>5, <1>7 DEF build_disconnect_message
<1> QED  BY <1>1, <1>9, <1>13, <1>14 DEF Error

\* Entry i of a list.
Entry(names, i) == str(names[i]) \o str(SvName)
                     \o encode_u32_le(U32 - 2) \o encode_u16_le(GamePort)

LEMMA EntryFacts ==
    ASSUME NEW names \in Seq(Seq(Byte)), NEW i \in 1 .. Len(names)
    PROVE  /\ names[i] \in Seq(Byte) /\ Len(names[i]) \in Nat
           /\ Entry(names, i) \in Seq(Byte)
           /\ Len(Entry(names, i)) = 2 + Len(names[i]) + 2 + Len(SvName) + 6
           /\ Lies(Entry(names, i), 0, str(names[i]))
           /\ Lies(Entry(names, i), 2 + Len(names[i]), str(SvName))
<1>1. PICK name \in Seq(Byte) : name = names[i]
  BY ElementOf
<1>2. PICK a : a = str(name)
  BY Zenon
<1>3. PICK b : b = str(SvName)
  BY Zenon
<1>4. PICK x : x = encode_u32_le(U32 - 2)
  BY Zenon
<1>5. PICK y : y = encode_u16_le(GamePort)
  BY Zenon
<1>6. /\ a \in Seq(Byte) /\ Len(a) = 2 + Len(name)
      /\ b \in Seq(Byte) /\ Len(b) = 2 + Len(SvName) /\ SvName \in Seq(Byte)
      /\ x \in Seq(Byte) /\ Len(x) = 4 /\ y \in Seq(Byte) /\ Len(y) = 2
  <2>1. U32 - 2 \in Int /\ GamePort \in Int /\ SvName \in Seq(Byte)
    BY SettingsAssumption, ByteFacts
  <2> QED  BY <1>2, <1>3, <1>4, <1>5, <2>1, StrFacts, EncodeU16, EncodeU32
<1>7. PICK p1 : p1 = a \o b
  BY Zenon
<1>8. Extends(p1, a, b)
  BY <1>6, <1>7, ConcatExtends
<1>9. p1 \in Seq(Byte) /\ Len(p1) = Len(a) + Len(b) /\ Lies(p1, Len(a), b) /\ Lies(p1, 0, a)
  <2>1. Lies(a, 0, a) /\ 0 \in Nat
    BY <1>6, LiesSelf
  <2> QED  BY <1>6, <1>8, <2>1 DEF Extends
<1>10. PICK p2 : p2 = p1 \o x
  BY Zenon
<1>11. Extends(p2, p1, x)
  BY <1>6, <1>9, <1>10, ConcatExtends
<1>12. PICK na \in Nat : na = Len(a)
  BY <1>6
<1>13. p2 \in Seq(Byte) /\ Len(p2) = Len(p1) + 4 /\ Lies(p2, na, b) /\ Lies(p2, 0, a)
  BY <1>6, <1>9, <1>11, <1>12 DEF Extends
<1>14. PICK p3 : p3 = p2 \o y
  BY Zenon
<1>15. Extends(p3, p2, y)
  BY <1>6, <1>13, <1>14, ConcatExtends
<1>16. p3 \in Seq(Byte) /\ Len(p3) = Len(p2) + 2 /\ Lies(p3, na, b) /\ Lies(p3, 0, a)
  BY <1>6, <1>13, <1>15 DEF Extends
<1>17. Entry(names, i) = p3
  BY <1>1, <1>2, <1>3, <1>4, <1>5, <1>7, <1>10, <1>14 DEF Entry
<1>18. Len(p3) = 2 + Len(name) + 2 + Len(SvName) + 6 /\ na = 2 + Len(name) /\ Len(name) \in Nat
  <2>1. Len(name) \in Nat /\ Len(SvName) \in Nat
    BY <1>6
  <2> QED  BY <1>6, <1>9, <1>12, <1>13, <1>16, <2>1
<1> QED  BY <1>1, <1>2, <1>3, <1>16, <1>17, <1>18

\* g says where the entries of body end, the first beginning behind `at'.
Ends(g, body, at, n) ==
    g = [i \in 0 .. n |->
           IF i = 0 THEN at
           ELSE LET m == g[i - 1] + 2 + Len(StringAt(body, g[i - 1]))
                IN  m + 2 + Len(StringAt(body, m)) + 6]

EndsOf(body, at, n) == CHOOSE g : Ends(g, body, at, n)

LEMMA UnderstoodIs ==
    ASSUME NEW body, body # <<>>, body[1] # OpError,
           NEW motd, motd = StringAt(body, 1),
           NEW at, at = (3 + Len(motd)) + 2, NEW n, n = body[at],
           NEW g, g = EndsOf(body, at, n)
    PROVE  Understood(body) =
             IF Len(body) = g[n] + 2
             THEN [kind |-> "list", motd |-> motd,
                   names |-> [i \in 1 .. n |-> StringAt(body, g[i - 1])]]
             ELSE [kind |-> "garbage"]
BY DEF Understood, EndsOf, Ends

\* There is only one answer to where the entries end.
LEMMA EndsUnique ==
    ASSUME NEW body, NEW at \in Nat, NEW n \in Nat, NEW g, Ends(g, body, at, n),
           NEW h, Ends(h, body, at, n)
    PROVE  \A i \in 0 .. n : g[i] = h[i]
<1> DEFINE After(x) == LET m == x + 2 + Len(StringAt(body, x))
                       IN  m + 2 + Len(StringAt(body, m)) + 6
           S == {i \in 0 .. n : g[i] = h[i]}
<1>1. /\ g = [i \in 0 .. n |-> IF i = 0 THEN at ELSE After(g[i - 1])]
      /\ h = [i \in 0 .. n |-> IF i = 0 THEN at ELSE After(h[i - 1])]
  BY DEF Ends
<1> HIDE DEF After
<1>2. 0 \in S
  BY <1>1
<1>3. ASSUME NEW i \in 1 .. n, i - 1 \in S PROVE i \in S
  <2>1. i \in 0 .. n /\ i # 0 /\ g[i - 1] = h[i - 1]
    BY <1>3
  <2>2. g[i] = After(g[i - 1]) /\ h[i] = After(h[i - 1])
    BY <1>1, <2>1
  <2> QED  BY <2>1, <2>2
<1>4. \A i \in 0 .. n : i \in S
  <2> HIDE DEF S
  <2> QED  BY <1>2, <1>3, InductionTo
<1> QED  BY <1>4

\* z is the sequences of seqs one behind the other, the i-th before position p[i].
Laid(z, p, seqs) ==
    /\ z \in Seq(Byte) /\ p \in [0 .. Len(seqs) -> Nat]
    /\ p[0] = 0 /\ p[Len(seqs)] = Len(z)
    /\ \A i \in 1 .. Len(seqs) :
         p[i] = p[i - 1] + Len(seqs[i]) /\ Lies(z, p[i - 1], seqs[i])

LEMMA FlattenLaid ==
    ASSUME NEW seqs \in Seq(Seq(Byte))
    PROVE  \E p : Laid(FlattenSeq(seqs), p, seqs)
<1>1. PICK n \in Nat : n = Len(seqs)
  OBVIOUS
<1>2. PICK f \in [0 .. n -> Seq(Byte)] :
        /\ f[0] = <<>>
        /\ \A i \in 1 .. n : f[i] = f[i - 1] \o seqs[i]
        /\ FlattenSeq(seqs) = f[n]
  BY <1>1, FlattenSteps
<1>3. PICK p : p = [i \in 0 .. n |-> Len(f[i])]
  BY Zenon
<1>4. p \in [0 .. n -> Nat]
  <2>1. \A s \in Seq(Byte) : Len(s) \in Nat
    OBVIOUS
  <2> QED  BY <1>3, <2>1
<1>5. ASSUME NEW i \in 1 .. n
      PROVE  /\ i \in 0 .. n /\ i - 1 \in 0 .. n /\ seqs[i] \in Seq(Byte)
             /\ f[i - 1] \in Seq(Byte) /\ f[i] \in Seq(Byte) /\ p[i - 1] = Len(f[i - 1])
             /\ Extends(f[i], f[i - 1], seqs[i]) /\ p[i] = p[i - 1] + Len(seqs[i])
  <2>1. i \in 0 .. n /\ i - 1 \in 0 .. n
    OBVIOUS
  <2>2. seqs[i] \in Seq(Byte) /\ f[i - 1] \in Seq(Byte) /\ f[i] \in Seq(Byte)
    BY <1>1, <2>1, ElementOf
  <2>3. Extends(f[i], f[i - 1], seqs[i])
    BY <1>2, <2>2, ConcatExtends
  <2>4. p[i] = Len(f[i]) /\ p[i - 1] = Len(f[i - 1])
    BY <1>3, <2>1
  <2>5. p[i] = p[i - 1] + Len(seqs[i])
    BY <2>3, <2>4 DEF Extends
  <2> QED  BY <2>1, <2>2, <2>3, <2>4, <2>5
<1> DEFINE S == {m \in 0 .. n : \A i \in 1 .. m : Lies(f[m], p[i - 1], seqs[i])}
<1>6. 0 \in S
  OBVIOUS
<1>7. ASSUME NEW m \in 1 .. n, m - 1 \in S PROVE m \in S
  <2>1. \A i \in 1 .. m - 1 : Lies(f[m - 1], p[i - 1], seqs[i])
    BY <1>7
  <2>2. ASSUME NEW i \in 1 .. m PROVE Lies(f[m], p[i - 1], seqs[i])
    <3>1. i \in 1 .. n /\ i - 1 \in 0 .. n
      OBVIOUS
    <3>2. p[i - 1] \in Nat /\ seqs[i] \in Seq(Byte)
      BY <1>4, <1>5, <3>1
    <3>3. CASE i = m
      BY <1>5, <3>3 DEF Extends
    <3>4. CASE i # m
      <4>1. i \in 1 .. m - 1
        BY <3>4
      <4>2. Lies(f[m - 1], p[i - 1], seqs[i])
        BY <2>1, <4>1
      <4>3. Extends(f[m], f[m - 1], seqs[m])
        BY <1>5
      <4> QED  BY <3>2, <4>2, <4>3 DEF Extends
    <3> QED  BY <3>3, <3>4
  <2> QED  BY <2>2
<1>8. n \in S
  <2>1. \A i \in 0 .. n : i \in S
    <3> HIDE DEF S
    <3> QED  BY <1>6, <1>7, InductionTo
  <2>2. n \in 0 .. n
    OBVIOUS
  <2> QED  BY <2>1, <2>2
<1>9. \A i \in 1 .. n : Lies(f[n], p[i - 1], seqs[i])
  BY <1>8
<1>10. f[n] \in Seq(Byte) /\ p[n] = Len(f[n]) /\ p[0] = 0
  BY <1>2, <1>3
<1>11. \A i \in 1 .. n : p[i] = p[i - 1] + Len(seqs[i])
  BY <1>5
<1>12. Laid(FlattenSeq(seqs), p, seqs)
  BY <1>1, <1>2, <1>4, <1>9, <1>10, <1>11, Zenon DEF Laid
<1> QED  BY <1>12

\* What lies in a part that lies there, lies there.
LEMMA LiesInside ==
    ASSUME NEW x \in Seq(Byte), NEW at \in Nat, NEW u \in Seq(Byte), Lies(x, at, u),
           NEW p \in Nat, NEW v \in Seq(Byte), Lies(u, p, v)
    PROVE  Lies(x, at + p, v)
<1>1. Len(u) \in Nat /\ Len(v) \in Nat /\ at + Len(u) <= Len(x) /\ p + Len(v) <= Len(u)
  BY DEF Lies
<1>2. ASSUME NEW i \in 1 .. Len(v) PROVE x[at + p + i] = v[i]
  <2>1. p + i \in 1 .. Len(u) /\ at + (p + i) = at + p + i
    BY <1>1
  <2>2. u[p + i] = v[i]
    BY DEF Lies
  <2>3. x[at + (p + i)] = u[p + i]
    BY <2>1 DEF Lies
  <2> QED  BY <2>1, <2>2, <2>3
<1>3. at + p + Len(v) <= Len(x)
  BY <1>1
<1> QED  BY <1>2, <1>3 DEF Lies

Entries(names) == [i \in 1 .. Len(names) |-> Entry(names, i)]

\* Where the parts of a list lie: the message of the day behind the code, the
\* entries behind the code of the list and its length.
ListLaid(body, names, p) ==
    /\ body \in Seq(Byte) /\ body # <<>> /\ body[1] = 1
    /\ Lies(body, 1, str(Motd))
    /\ body[5 + Len(Motd)] = Len(names)
    /\ p \in [0 .. Len(names) -> Nat] /\ p[0] = 5 + Len(Motd)
    /\ Len(body) = p[Len(names)] + 2
    /\ \A i \in 1 .. Len(names) :
         /\ p[i] = p[i - 1] + (2 + Len(names[i]) + 2 + Len(SvName) + 6)
         /\ Lies(body, p[i - 1], str(names[i]))
         /\ Lies(body, p[i - 1] + (2 + Len(names[i])), str(SvName))

LEMMA CharlistLaid ==
    ASSUME NEW names \in Seq(Seq(Byte)), Len(names) < ByteMod
    PROVE  \E p : ListLaid(CharlistMessage(names), names, p)
<1>0. Motd \in Seq(Byte) /\ SvName \in Seq(Byte) /\ Len(Motd) \in Nat /\ Len(SvName) \in Nat
  BY SettingsAssumption
<1>1. PICK n \in Nat : n = Len(names)
  OBVIOUS
<1>2. PICK s : s = Entries(names)
  BY Zenon
<1>3. s \in Seq(Seq(Byte)) /\ Len(s) = n /\ \A i \in 1 .. n : s[i] = Entry(names, i)
  <2>1. s \in [1 .. n -> Seq(Byte)]
    BY <1>1, <1>2, EntryFacts DEF Entries
  <2> QED  BY <1>1, <1>2, <2>1, FunctionIsSeq DEF Entries
<1>4. PICK z : z = FlattenSeq(s)
  BY Zenon
<1>5. PICK q : Laid(z, q, s)
  BY <1>3, <1>4, FlattenLaid
<1>6. /\ z \in Seq(Byte) /\ q \in [0 .. n -> Nat] /\ q[0] = 0 /\ q[n] = Len(z)
      /\ \A i \in 1 .. n : q[i] = q[i - 1] + Len(s[i]) /\ Lies(z, q[i - 1], s[i])
  BY <1>3, <1>5, Zenon DEF Laid
<1>7. PICK o : o = byte(OpMotd)
  BY Zenon
<1>8. PICK m : m = str(Motd)
  BY Zenon
<1>9. PICK c : c = byte(OpChars)
  BY Zenon
<1>10. PICK k : k = byte(n)
  BY Zenon
<1>11. PICK e : e = encode_u16_le(1)
  BY Zenon
<1>12. /\ o \in Seq(Byte) /\ Len(o) = 1 /\ o[1] = 1
       /\ m \in Seq(Byte) /\ Len(m) = 2 + Len(Motd)
       /\ c \in Seq(Byte) /\ Len(c) = 1
       /\ k \in Seq(Byte) /\ Len(k) = 1 /\ k[1] = n
       /\ e \in Seq(Byte) /\ Len(e) = 2
  <2>1. 1 \in Int /\ 2 \in Int /\ n \in Int /\ n \in 0 .. ByteMod - 1 /\ 1 \in 0 .. ByteMod - 1
        /\ ByteMod \in Nat
    BY <1>1, ByteFacts
  <2>2. 1 % ByteMod = 1 /\ n % ByteMod = n
    BY <2>1, SmallMod
  <2>3. OpMotd = 1 /\ OpChars = 2
    BY DEF OpMotd, OpChars
  <2> QED  BY <1>0, <1>7, <1>8, <1>9, <1>10, <1>11, <2>1, <2>2, <2>3, ByteSeq, StrFacts,
              EncodeU16
<1>13. PICK p1 : p1 = o \o m
  BY Zenon
<1>14. PICK p2 : p2 = p1 \o c
  BY Zenon
<1>15. PICK p3 : p3 = p2 \o k
  BY Zenon
<1>16. PICK p4 : p4 = p3 \o z
  BY Zenon
<1>17. PICK body : body = p4 \o e
  BY Zenon
<1>18. body = CharlistMessage(names)
  BY <1>1, <1>2, <1>4, <1>7, <1>8, <1>9, <1>10, <1>11, <1>13, <1>14, <1>15, <1>16, <1>17
     DEF CharlistMessage, Entries, Entry
<1>19. p1 \in Seq(Byte) /\ Len(p1) = 3 + Len(Motd) /\ Lies(p1, 0, o) /\ Lies(p1, 1, m)
  <2>1. Extends(p1, o, m)
    BY <1>12, <1>13, ConcatExtends
  <2>2. Lies(o, 0, o) /\ 0 \in Nat
    BY <1>12, LiesSelf
  <2> QED  BY <1>0, <1>12, <2>1, <2>2 DEF Extends
<1>20. p2 \in Seq(Byte) /\ Len(p2) = 4 + Len(Motd) /\ Lies(p2, 0, o) /\ Lies(p2, 1, m)
  <2>1. Extends(p2, p1, c)
    BY <1>12, <1>14, <1>19, ConcatExtends
  <2> QED  BY <1>0, <1>12, <1>19, <2>1 DEF Extends
<1>21. PICK L \in Nat : L = 4 + Len(Motd)
  BY <1>0
<1>22. /\ p3 \in Seq(Byte) /\ Len(p3) = 5 + Len(Motd) /\ Lies(p3, 0, o) /\ Lies(p3, 1, m)
       /\ Lies(p3, L, k)
  <2>1. Extends(p3, p2, k)
    BY <1>12, <1>15, <1>20, ConcatExtends
  <2> QED  BY <1>0, <1>12, <1>20, <1>21, <2>1 DEF Extends
<1>23. PICK M \in Nat : M = 5 + Len(Motd)
  BY <1>0
<1>24. /\ p4 \in Seq(Byte) /\ Len(p4) = M + Len(z) /\ Lies(p4, 0, o) /\ Lies(p4, 1, m)
       /\ Lies(p4, L, k) /\ Lies(p4, M, z)
  <2>1. Extends(p4, p3, z)
    BY <1>6, <1>16, <1>22, ConcatExtends
  <2> QED  BY <1>12, <1>22, <1>23, <2>1 DEF Extends
<1>25. /\ body \in Seq(Byte) /\ Len(body) = M + Len(z) + 2 /\ Lies(body, 0, o)
       /\ Lies(body, 1, m) /\ Lies(body, L, k) /\ Lies(body, M, z)
  <2>1. Extends(body, p4, e)
    BY <1>12, <1>17, <1>24, ConcatExtends
  <2> QED  BY <1>6, <1>12, <1>24, <2>1 DEF Extends
<1>26. body[1] = 1 /\ body[M] = n
  <2>1. 1 \in 1 .. 1 /\ 0 + 1 = 1 /\ L + 1 = M
    BY <1>0, <1>21, <1>23
  <2> QED  BY <1>12, <1>25, <2>1 DEF Lies
<1>27. PICK p : p = [i \in 0 .. n |-> M + q[i]]
  BY Zenon
<1>28. p \in [0 .. n -> Nat] /\ p[0] = M /\ Len(body) = p[n] + 2 /\ body # <<>>
  <2>1. p \in [0 .. n -> Nat] /\ p[0] = M + q[0] /\ p[n] = M + q[n]
    <3>1. q \in [0 .. n -> Nat] /\ 0 \in 0 .. n /\ n \in 0 .. n
      BY <1>6
    <3>2. ASSUME NEW i \in 0 .. n PROVE M + q[i] \in Nat
      BY <3>1
    <3> QED  BY <1>27, <3>1, <3>2
  <2>2. Len(z) \in Nat
    BY <1>6
  <2> QED  BY <1>6, <1>25, <2>1, <2>2
<1>29. ASSUME NEW i \in 1 .. n
       PROVE  /\ p[i] = p[i - 1] + (2 + Len(names[i]) + 2 + Len(SvName) + 6)
              /\ Lies(body, p[i - 1], str(names[i]))
              /\ Lies(body, p[i - 1] + (2 + Len(names[i])), str(SvName))
  <2>1. i \in 0 .. n /\ i - 1 \in 0 .. n
    OBVIOUS
  <2>2. PICK x \in Seq(Byte) : x = Entry(names, i)
    BY <1>1, EntryFacts
  <2>3. PICK w \in Nat : w = 2 + Len(names[i])
    BY <1>1, EntryFacts
  <2>4. /\ Len(x) = w + 2 + Len(SvName) + 6 /\ names[i] \in Seq(Byte)
        /\ Lies(x, 0, str(names[i])) /\ Lies(x, w, str(SvName))
    BY <1>1, <2>2, <2>3, EntryFacts
  <2>5. PICK at \in Nat : at = q[i - 1]
    BY <1>6, <2>1
  <2>6. q[i] = at + Len(x) /\ Lies(z, at, x)
    BY <1>3, <1>6, <2>2, <2>5
  <2>7. p[i - 1] = M + at /\ p[i] = M + (at + Len(x))
    BY <1>27, <2>1, <2>5, <2>6
  <2>8. PICK pos \in Nat : pos = M + at
    OBVIOUS
  <2>9. Lies(body, pos, x)
    BY <1>6, <1>25, <2>6, <2>8, LiesInside
  <2>10. str(names[i]) \in Seq(Byte) /\ str(SvName) \in Seq(Byte)
    BY <1>0, <2>4, StrFacts
  <2>11. Lies(body, pos, str(names[i])) /\ Lies(body, pos + w, str(SvName))
    <3>1. 0 \in Nat /\ pos + 0 = pos
      OBVIOUS
    <3>2. Lies(body, pos + 0, str(names[i])) /\ Lies(body, pos + w, str(SvName))
      BY <1>25, <2>4, <2>9, <2>10, <3>1, LiesInside
    <3> QED  BY <3>1, <3>2
  <2>12. M + (at + Len(x)) = (M + at) + (w + 2 + Len(SvName) + 6)
    BY <1>0, <2>4
  <2> QED  BY <2>3, <2>7, <2>8, <2>11, <2>12
<1>30. ListLaid(body, names, p)
  BY <1>1, <1>8, <1>23, <1>25, <1>26, <1>28, <1>29, Zenon DEF ListLaid
<1> QED  BY <1>18, <1>30

\* A list is understood, whatever the names in it.
LEMMA CharlistUnderstood ==
    ASSUME NEW names \in Seq(Seq(Byte)), Len(names) < ByteMod,
           Fits(CharlistMessage(names))
    PROVE  /\ CharlistMessage(names) \in Seq(Byte)
           /\ Understood(CharlistMessage(names)) =
                [kind |-> "list", motd |-> Motd, names |-> names]
<1>0. Motd \in Seq(Byte) /\ SvName \in Seq(Byte) /\ Len(Motd) \in Nat /\ Len(SvName) \in Nat
  BY SettingsAssumption
<1>1. PICK n \in Nat : n = Len(names)
  OBVIOUS
<1>2. PICK body : body = CharlistMessage(names)
  BY Zenon
<1>3. PICK p : ListLaid(body, names, p)
  BY <1>2, CharlistLaid
<1>4. /\ body \in Seq(Byte) /\ body # <<>> /\ body[1] = 1 /\ Lies(body, 1, str(Motd))
      /\ body[5 + Len(Motd)] = n /\ p \in [0 .. n -> Nat] /\ p[0] = 5 + Len(Motd)
      /\ Len(body) = p[n] + 2
  BY <1>1, <1>3, Zenon DEF ListLaid
<1>5. \A i \in 1 .. n :
        /\ p[i] = p[i - 1] + (2 + Len(names[i]) + 2 + Len(SvName) + 6)
        /\ Lies(body, p[i - 1], str(names[i]))
        /\ Lies(body, p[i - 1] + (2 + Len(names[i])), str(SvName))
  BY <1>1, <1>3, Zenon DEF ListLaid
<1>6. Len(body) < U16
  <2>1. PICK b \in Nat : b = Len(body)
    BY <1>4
  <2>2. 6 + 8 * ((2 + b + 7) \div 8) <= MaxOutbufLen
    BY <1>2, <2>1 DEF Fits
  <2>3. 8 * ((2 + b + 7) \div 8) >= b + 2
    OBVIOUS
  <2>4. MaxOutbufLen \in Nat /\ MaxOutbufLen < U16 /\ U16 \in Nat
    BY LayoutFacts, ByteFacts
  <2>5. (2 + b + 7) \div 8 \in Int
    OBVIOUS
  <2> QED  BY <2>1, <2>2, <2>3, <2>4, <2>5
<1>7. ASSUME NEW at \in Nat, NEW s \in Seq(Byte), Lies(body, at, str(s))
      PROVE  StringAt(body, at) = s
  <2>1. str(s) \in Seq(Byte) /\ Len(str(s)) = 2 + Len(s) /\ Len(s) \in Nat
    BY StrFacts
  <2>2. at + Len(str(s)) <= Len(body)
    BY <1>7 DEF Lies
  <2>3. Len(s) < U16
    BY <1>4, <1>6, <2>1, <2>2, ByteFacts
  <2> QED  BY <1>4, <1>7, <2>3, StringThere
<1>8. StringAt(body, 1) = Motd
  BY <1>0, <1>4, <1>7
<1>9. ASSUME NEW i \in 1 .. n
      PROVE  /\ StringAt(body, p[i - 1]) = names[i]
             /\ p[i] = LET m == p[i - 1] + 2 + Len(StringAt(body, p[i - 1]))
                       IN  m + 2 + Len(StringAt(body, m)) + 6
  <2>1. names[i] \in Seq(Byte) /\ Len(names[i]) \in Nat
    BY <1>1, EntryFacts
  <2>2. PICK at \in Nat : at = p[i - 1]
    BY <1>4
  <2>3. StringAt(body, at) = names[i]
    BY <1>5, <1>7, <2>1, <2>2
  <2>9. PICK l \in Nat : l = Len(names[i])
    BY <2>1
  <2>4. PICK m \in Nat : m = at + 2 + l
    OBVIOUS
  <2>5. at + (2 + l) = m
    BY <2>4
  <2>6. StringAt(body, m) = SvName
    BY <1>0, <1>5, <1>7, <2>2, <2>5, <2>9
  <2>7. p[i] = at + (2 + l + 2 + Len(SvName) + 6)
    BY <1>5, <2>2, <2>9
  <2>8. p[i] = m + 2 + Len(SvName) + 6
    BY <1>0, <2>4, <2>7
  <2> QED  BY <2>2, <2>3, <2>4, <2>6, <2>8, <2>9
<1>10. PICK M \in Nat : M = 5 + Len(Motd)
  BY <1>0
<1>11. Ends(p, body, M, n)
  <2>1. p = [i \in 0 .. n |-> p[i]]
    BY <1>4
  <2>2. \A i \in 0 .. n : p[i] =
            IF i = 0 THEN M
            ELSE LET m == p[i - 1] + 2 + Len(StringAt(body, p[i - 1]))
                 IN  m + 2 + Len(StringAt(body, m)) + 6
    BY <1>4, <1>9, <1>10
  <2> QED  BY <2>1, <2>2, Zenon DEF Ends
<1>12. PICK g : g = EndsOf(body, M, n)
  BY Zenon
<1>13. \A i \in 0 .. n : g[i] = p[i]
  <2>1. Ends(g, body, M, n)
    BY <1>11, <1>12, Zenon DEF EndsOf
  <2> QED  BY <1>11, <2>1, EndsUnique
<1>14. body[1] # OpError /\ (3 + Len(Motd)) + 2 = M
  BY <1>0, <1>4, <1>10 DEF OpError
<1>15. Understood(body) =
         IF Len(body) = g[n] + 2
         THEN [kind |-> "list", motd |-> Motd,
               names |-> [i \in 1 .. n |-> StringAt(body, g[i - 1])]]
         ELSE [kind |-> "garbage"]
  <2>1. body[M] = n
    BY <1>4, <1>10
  <2>2. /\ body # <<>> /\ body[1] # OpError /\ Motd = StringAt(body, 1)
        /\ M = (3 + Len(Motd)) + 2 /\ n = body[M] /\ g = EndsOf(body, M, n)
    BY <1>4, <1>8, <1>12, <1>14, <2>1
  <2> QED  BY <2>2, UnderstoodIs
<1>16. Len(body) = g[n] + 2
  <2>1. n \in 0 .. n
    OBVIOUS
  <2> QED  BY <1>4, <1>13, <2>1
<1>17. [i \in 1 .. n |-> StringAt(body, g[i - 1])] = names
  <2>1. ASSUME NEW i \in 1 .. n PROVE StringAt(body, g[i - 1]) = names[i]
    <3>1. i - 1 \in 0 .. n
      OBVIOUS
    <3> QED  BY <1>9, <1>13, <3>1
  <2>2. names = [i \in 1 .. n |-> names[i]]
    BY <1>1
  <2> QED  BY <2>1, <2>2, Zenon
<1> QED  BY <1>2, <1>4, <1>15, <1>16, <1>17

LEMMA CharlistTyped ==
    ASSUME NEW names \in Seq(Seq(Byte))
    PROVE  CharlistMessage(names) \in Seq(Byte)
<1>1. ASSUME NEW x \in Seq(Byte), NEW y \in Seq(Byte) PROVE x \o y \in Seq(Byte)
  BY LiesLast
<1>2. PICK s : s = Entries(names)
  BY Zenon
<1>3. s \in Seq(Seq(Byte))
  <2>1. s \in [1 .. Len(names) -> Seq(Byte)] /\ Len(names) \in Nat
    BY <1>2, EntryFacts DEF Entries
  <2> QED  BY <2>1, FunctionIsSeq
<1>4. PICK z : z = FlattenSeq(s)
  BY Zenon
<1>5. z \in Seq(Byte)
  BY <1>3, <1>4, FlattenLaid DEF Laid
<1>6. /\ byte(OpMotd) \in Seq(Byte) /\ byte(OpChars) \in Seq(Byte)
      /\ byte(Len(names)) \in Seq(Byte) /\ str(Motd) \in Seq(Byte)
      /\ encode_u16_le(1) \in Seq(Byte)
  <2>1. OpMotd \in Int /\ OpChars \in Int /\ Len(names) \in Int /\ 1 \in Int
        /\ Motd \in Seq(Byte)
    BY SettingsAssumption DEF OpMotd, OpChars
  <2> QED  BY <2>1, ByteSeq, StrFacts, EncodeU16
<1>7. CharlistMessage(names) =
        byte(OpMotd) \o str(Motd) \o byte(OpChars) \o byte(Len(names)) \o z
          \o encode_u16_le(1)
  BY <1>2, <1>4 DEF CharlistMessage, Entries, Entry
<1> QED  BY <1>1, <1>5, <1>6, <1>7

LEMMA CharlistOfFacts ==
    ASSUME NEW param
    PROVE  /\ CharlistOf(param) \in {a.chars : a \in Accounts} \cup {<<>>}
           /\ CharlistOf(param) \in Seq(Seq(Byte))
<1> DEFINE found == {a \in Accounts : a.id = decode_u32_be(param, 0)}
<1>1. CharlistOf(param) = IF found = {} THEN <<>> ELSE (CHOOSE a \in found : TRUE).chars
  BY DEF CharlistOf
<1>2. \A a \in Accounts : a.chars \in Seq(Seq(Byte))
  BY AccountsAssumption DEF Account
<1>3. <<>> \in Seq(Seq(Byte))
  OBVIOUS
<1>4. CASE found = {}
  BY <1>1, <1>3, <1>4
<1>5. CASE found # {}
  <2>1. PICK a : a = CHOOSE x \in found : TRUE
    BY Zenon
  <2>2. a \in found
    BY <1>5, <2>1, Zenon
  <2>3. CharlistOf(param) = a.chars
    BY <1>1, <1>5, <2>1, Zenon
  <2> QED  BY <1>2, <2>2, <2>3
<1> QED  BY <1>4, <1>5

-----------------------------------------------------------------------------
(***************************************************************************)
(* The memory of the output buffers.                                       *)
(***************************************************************************)

BufTypes == buf \in [Bufs -> OutbufData]

LEMMA UnwrittenTyped == Unwritten \in OutbufData
<1>1. [i \in 1 .. MaxOutbufLen |-> ByteMod - 2] \in [1 .. MaxOutbufLen -> Byte]
  BY LayoutFacts
<1> QED  BY <1>1, Zenon DEF Unwritten, OutbufData

\* A message for the owner of key k is built in an outbuf that was idle or new.
Puts(b, k, bytes) ==
    outbuf_acquire(b) /\ buf' = [buf EXCEPT ![b] = Built(b, k, bytes)]

LEMMA PutsFacts ==
    ASSUME BufTypes, NEW b \in Bufs, NEW k \in Keys, NEW bytes \in Seq(Byte),
           Puts(b, k, bytes)
    PROVE  /\ BufTypes' /\ BuiltRight(buf'[b], k, bytes)
           /\ \A d \in Bufs : d # b => buf'[d] = buf[d]
           /\ heap' \subseteq heap \cup {b}
<1>2. PICK w : w = IF b \in heap THEN buf[b] ELSE Unwritten
  BY Zenon
<1>3. w \in OutbufData
  BY <1>2, UnwrittenTyped DEF BufTypes
<1>4. PICK v : v = Built(b, k, bytes)
  BY Zenon
<1>5. v = outbuf_wrap(Write(outbuf_prepare(w), bytes), k)
  BY <1>2, <1>4 DEF Built
<1>6. BuiltRight(v, k, bytes)
  BY <1>3, <1>5, WrapFacts
<1>7. v \in OutbufData
  BY <1>6 DEF BuiltRight
<1>8. buf' = [buf EXCEPT ![b] = v]
  BY <1>4 DEF Puts
<1>9. heap' \subseteq heap \cup {b}
  BY DEF Puts, outbuf_acquire
<1> QED  BY <1>6, <1>7, <1>8, <1>9 DEF BufTypes

\* The two kinds of messages, and that they fit if all messages do.
LEMMA MessageFacts ==
    /\ \A reason \in DOMAIN Text :
         /\ build_disconnect_message(reason) \in Seq(Byte)
         /\ MessagesFit => Fits(build_disconnect_message(reason))
    /\ \A param :
         /\ CharlistMessage(CharlistOf(param)) \in Seq(Byte)
         /\ MessagesFit => Fits(CharlistMessage(CharlistOf(param)))
  BY DisconnectUnderstood, CharlistTyped, CharlistOfFacts DEF MessagesFit

LEMMA RefusalReasons ==
    ASSUME NEW r
    PROVE  Refusals(r) \subseteq {"version", "banned"} /\ Refusals(r) \subseteq DOMAIN Text
  BY DEF Refusals, Text

LEMMA ReasonsAreTexts ==
    "name" \in DOMAIN Text /\ "incorrect" \in DOMAIN Text /\ "internal" \in DOMAIN Text
  BY DEF Text

\* What a step does to the buffers.
LEMMA BufCases ==
    ASSUME ControlInv, [Next]_vars
    PROVE  \/ buf' = buf /\ heap' \subseteq heap
           \/ \E b \in Bufs, k \in Keys, bytes \in Seq(Byte) :
                Puts(b, k, bytes) /\ (MessagesFit => Fits(bytes))
<1> DEFINE Kept == buf' = buf /\ heap' \subseteq heap
           Put == \E b \in Bufs, k \in Keys, bytes \in Seq(Byte) :
                    Puts(b, k, bytes) /\ (MessagesFit => Fits(bytes))
<1>1. ASSUME NEW c \in Clients, NEW r \in RequestsOf[c], ReceiveRefused(c, r)
      PROVE  Put
  <2>1. PICK reason \in Refusals(r), b \in Bufs :
          /\ outbuf_acquire(b)
          /\ buf' = [buf EXCEPT ![b] = Built(b, Key(rsa_decode(Plain(r))),
                                           build_disconnect_message(reason))]
    BY <1>1 DEF ReceiveRefused
  <2>2. r \in Request /\ Len(rsa_decode(Plain(r))) = RsaLen - 1
    BY <1>1, RequestsAssumption DEF ReceiveRefused, Malformed
  <2>3. PICK k \in Keys : k = Key(rsa_decode(Plain(r)))
    BY <2>2, KeyRead, RequestFacts
  <2>4. PICK bytes : bytes = build_disconnect_message(reason)
    BY Zenon
  <2>5. bytes \in Seq(Byte) /\ (MessagesFit => Fits(bytes))
    BY <2>4, RefusalReasons, MessageFacts
  <2>6. Puts(b, k, bytes)
    BY <2>1, <2>3, <2>4 DEF Puts
  <2> QED  BY <2>5, <2>6
<1>2. ASSUME NEW bytes \in Seq(Byte), Answers(bytes), MessagesFit => Fits(bytes)
      PROVE  Put
  <2>1. PICK b \in Bufs : Puts(b, task.key, bytes)
    BY <1>2 DEF Answers, Answer, Puts
  <2>2. task \in Login
    BY <1>2, TypesFacts DEF Answers, ControlInv
  <2>3. task.key \in Keys
    BY <2>2 DEF Login
  <2> QED  BY <1>2, <2>1, <2>3
<1>3. ASSUME NoAccountName \/ LoadAccountInfoFails \/ NotCorrect \/ LoadCharlistFails
      PROVE  Put
  <2> HIDE DEF Put
  <2>1. PICK reason \in DOMAIN Text : Answers(build_disconnect_message(reason))
    BY <1>3, AnswerCases, ReasonsAreTexts
  <2> QED  BY <1>2, <2>1, MessageFacts
<1>4. ASSUME SendCharlist PROVE Put
  <2>1. Answers(CharlistMessage(res.names))
    BY <1>4, AnswerCases
  <2>2. res = [names |-> CharlistOf(encode_u32_be(task.accid))]
    BY <1>4 DEF SendCharlist, ControlInv, Progress
  <2>3. PICK bytes : bytes = CharlistMessage(CharlistOf(encode_u32_be(task.accid)))
    BY Zenon
  <2>4. Answers(bytes)
    BY <2>1, <2>2, <2>3
  <2>5. bytes \in Seq(Byte) /\ (MessagesFit => Fits(bytes))
    BY <2>3, MessageFacts
  <2> HIDE DEF Put
  <2> QED  BY <1>2, <2>4, <2>5
<1>5. ASSUME NEW b, outbuf_release(b) PROVE heap' \subseteq heap
  BY <1>5 DEF outbuf_release
<1>6. UNCHANGED listVars => heap' \subseteq heap
  BY DEF listVars
<1>7. ASSUME NEW c \in Clients, NEW r \in RequestsOf[c],
             ReceiveMalformed(c, r) \/ ReceiveLogin(c, r)
      PROVE  Kept
  BY <1>6, <1>7 DEF ReceiveMalformed, ReceiveLogin
<1>8. ASSUME NEW c \in Clients, on_write(c) \/ on_close(c) PROVE Kept
  BY <1>5, <1>6, <1>8 DEF on_write, on_close
<1>9. ASSUME internal_resolve_login PROVE Kept
  BY <1>5, <1>6, <1>9 DEF internal_resolve_login
<1>10. ASSUME \/ TakeTask \/ db_load_account_info \/ PasswordMatches
              \/ db_load_account_charlist \/ LoseDatabase
       PROVE  Kept
  BY <1>6, <1>10 DEF TakeTask, db_load_account_info, PasswordMatches,
                     db_load_account_charlist, LoseDatabase
<1>11. ASSUME UNCHANGED vars PROVE Kept
  BY <1>6, <1>11 DEF vars, replyVars
<1> HIDE DEF Kept, Put
<1>12. Kept \/ Put
  BY <1>1, <1>3, <1>4, <1>7, <1>8, <1>9, <1>10, <1>11 DEF Next
<1> QED  BY <1>12 DEF Kept, Put

LEMMA BufTypesAlways == Spec => []BufTypes
<1>1. Init => BufTypes
  BY UnwrittenTyped DEF Init, BufTypes
<1>2. ControlInv /\ BufTypes /\ [Next]_vars => BufTypes'
  <2>1. SUFFICES ASSUME ControlInv, BufTypes, [Next]_vars PROVE BufTypes'
    OBVIOUS
  <2>2. CASE buf' = buf
    BY <2>1, <2>2 DEF BufTypes
  <2> QED  BY <2>1, <2>2, BufCases, PutsFacts
<1> QED  BY <1>1, <1>2, ControlAlways, PTL DEF Spec

\* The types of the login path: the connections, the queues between the threads
\* and the memory of the outbufs.
THEOREM ReplyTypes == Spec => []ReplyTypeOK
<1>1. ControlInv /\ BufTypes /\ ResultsCleared => ReplyTypeOK
  <2>1. SUFFICES ASSUME ControlInv, BufTypes, ResultsCleared PROVE ReplyTypeOK
    OBVIOUS
  <2>2. results \in Nat
    BY <2>1 DEF ResultsCleared
  <2>3. \A i \in DOMAIN answers : answers[i].output \in Bufs
    <3>1. DOMAIN answers = 1 .. Len(answers)
      BY <2>1 DEF ControlInv, Types
    <3> QED  BY <2>1, <3>1, TypesFacts DEF ControlInv
  <2>4. \A b \in Bufs : buf[b].ptr \in Nat
    BY <2>1, OutbufTypes DEF BufTypes
  <2> QED  BY <2>1, <2>2, <2>3, <2>4 DEF ControlInv, Types, ReplyTypeOK
<1> QED  BY <1>1, ControlAlways, BufTypesAlways, ResultsReleased, PTL

\* If every message fits an outbuf, as outbuf.c asks of its callers, no write of
\* the code runs over the end of one: the padding and the cipher's blocks
\* included, whatever the outbuf held before.
THEOREM WritesInside ==
    ASSUME MessagesFit
    PROVE  Spec => []WritesFit
<1>1. Init => WritesFit
  BY DEF Init, ListInit, WritesFit
<1>2. ControlInv /\ BufTypes /\ WritesFit /\ [Next]_vars => WritesFit'
  <2>1. SUFFICES ASSUME ControlInv, BufTypes, WritesFit, [Next]_vars PROVE WritesFit'
    OBVIOUS
  <2>2. CASE buf' = buf /\ heap' \subseteq heap
    BY <2>1, <2>2 DEF WritesFit
  <2>3. CASE \E b \in Bufs, k \in Keys, bytes \in Seq(Byte) :
               Puts(b, k, bytes) /\ (MessagesFit => Fits(bytes))
    <3>1. PICK b \in Bufs, k \in Keys, bytes \in Seq(Byte) :
            Puts(b, k, bytes) /\ Fits(bytes)
      BY <2>3
    <3>2. /\ BuiltRight(buf'[b], k, bytes) /\ heap' \subseteq heap \cup {b}
          /\ \A d \in Bufs : d # b => buf'[d] = buf[d]
      BY <2>1, <3>1, PutsFacts
    <3>3. buf'[b].fits
      BY <3>1, <3>2 DEF BuiltRight
    <3>4. heap \subseteq Bufs
      BY <2>1 DEF ControlInv, Types, ListTypeOK
    <3> QED  BY <2>1, <3>2, <3>3, <3>4 DEF WritesFit
  <2> QED  BY <2>1, <2>2, <2>3, BufCases
<1> QED  BY <1>1, <1>2, ControlAlways, BufTypesAlways, PTL DEF Spec

-----------------------------------------------------------------------------
(***************************************************************************)
(* The answer to a request.                                                *)
(***************************************************************************)

\* What the database thread knows of a login is what the client has sent.
Faithful(r, l) ==
    /\ r.version = "supported" /\ l.key = r.key
    /\ WellFormed(r) => l.accname = r.acc /\ l.password = r.pwd

\* m is a right answer to r, the connection to the database being d.
Right(r, d, m) ==
    /\ m # None /\ m.kind # "garbage"
    /\ WellFormed(r) =>
         \/ m \in Deserved(r)
         \/ m = Error("incorrect") /\ (Deserved(r) = {} \/ d = "lost")
         \/ m = Error("internal") /\ Deserved(r) # {} /\ d = "lost"

\* The outbuf w holds a message that the client will read as a right answer.
Carries(r, d, w) ==
    Right(r, d, Understood(Unwrapped(SubSeq(w.base, 1, w.ptr), r.key)))

Closed == [kind |-> "closed"]

DataInv ==
    /\ \A i \in 1 .. Len(tasks) : Faithful(req[tasks[i].c], tasks[i])
    /\ task # None => Faithful(req[task.c], task)
    /\ \A c \in Clients : udata[c] # NULL => Carries(req[c], db, buf[udata[c]])
    /\ \A j \in 1 .. Len(answers) :
         Carries(req[answers[j].c], db, buf[answers[j].output])
    /\ got = [c \in Clients |-> got[c]]
    /\ \A c \in Clients :
         \/ got[c] = None
         \/ req[c] # None /\ (got[c] = Closed \/ Right(req[c], db, got[c]))

\* A right answer stays one when the database is lost later.
LEMMA RightStays ==
    ASSUME NEW r, NEW d, NEW e, d = "lost" => e = "lost", NEW m, Right(r, d, m)
    PROVE  Right(r, e, m)
BY DEF Right

LEMMA CarriesStays ==
    ASSUME NEW r, NEW d, NEW e, d = "lost" => e = "lost", NEW w, Carries(r, d, w)
    PROVE  Carries(r, e, w)
BY RightStays DEF Carries

\* A message that fits arrives as it was built.
LEMMA BuiltCarries ==
    ASSUME NEW r, NEW d, NEW bytes, Right(r, d, Understood(bytes)),
           NEW v, BuiltRight(v, r.key, bytes), Fits(bytes)
    PROVE  Carries(r, d, v)
BY DEF BuiltRight, Carries

LEMMA KindFacts ==
    /\ \A reason : Error(reason) # None /\ Error(reason).kind = "error"
    /\ \A x, y : LET m == [kind |-> "list", motd |-> x, names |-> y]
                 IN  m # None /\ m.kind = "list"
    /\ Closed # None /\ Closed.kind = "closed"
BY DEF Error, None, Closed

-----------------------------------------------------------------------------
\* The answers of the server thread are right.
LEMMA RefusalRight ==
    ASSUME NEW r \in Request, ~Malformed(r), NEW reason \in Refusals(r), NEW d
    PROVE  Right(r, d, Error(reason))
<1>1. Len(rsa_decode(Plain(r))) = RsaLen - 1
  BY DEF Malformed
<1>2. Error(reason) # None /\ Error(reason).kind # "garbage"
  BY KindFacts
<1>3. CASE r.version # "supported"
  <2>1. reason = "version" /\ Deserved(r) = {Error("version")}
    BY <1>3 DEF Refusals, Deserved
  <2> QED  BY <1>2, <2>1 DEF Right
<1>4. CASE r.version = "supported"
  <2>1. Credentials(rsa_decode(Plain(r))).toolong
    BY <1>4 DEF Refusals
  <2>2. ~WellFormed(r)
    BY <1>1, <2>1, CredentialsRead
  <2> QED  BY <1>2, <2>2 DEF Right
<1> QED  BY <1>3, <1>4

\* A login knows what its request says.
LEMMA LoginFaithful ==
    ASSUME NEW r \in Request, ~Malformed(r), Refusals(r) = {}, NEW l,
           l.key = Key(rsa_decode(Plain(r))),
           l.accname = CString(Credentials(rsa_decode(Plain(r))).acc),
           l.password = CString(Credentials(rsa_decode(Plain(r))).pwd)
    PROVE  Faithful(r, l)
<1>1. Len(rsa_decode(Plain(r))) = RsaLen - 1
  BY DEF Malformed
<1>2. r.version = "supported"
  BY DEF Refusals
<1>3. l.key = r.key
  BY <1>1, KeyRead
<1>4. WellFormed(r) => l.accname = r.acc /\ l.password = r.pwd
  BY <1>1, CredentialsRead
<1> QED  BY <1>2, <1>3, <1>4 DEF Faithful

\* What the client of a login deserves.
LEMMA LoginDeserves ==
    ASSUME NEW r, NEW l, Faithful(r, l), WellFormed(r)
    PROVE  /\ l.accname = <<>> => Deserved(r) = {Error("name")}
           /\ l.accname # <<>> =>
                Deserved(r) = {[kind |-> "list", motd |-> Motd, names |-> a.chars] :
                                 a \in {x \in Accounts : x.name = l.accname
                                                         /\ x.pwd = l.password}}
BY DEF Faithful, Deserved

\* The list of the account the login has been found to be of.
LEMMA CharlistOfAccount ==
    ASSUME NEW a \in Accounts
    PROVE  CharlistOf(encode_u32_be(a.id)) = a.chars
<1>1. a.id \in 0 .. U32 - 1
  BY AccountsAssumption DEF Account
<1>2. PICK id : id = a.id
  BY Zenon
<1>3. decode_u32_be(encode_u32_be(id), 0) = id
  BY <1>1, <1>2, DecodeU32Be DEF encode_u32_be
<1>4. PICK found : found = {x \in Accounts : x.id = decode_u32_be(encode_u32_be(id), 0)}
  BY Zenon
<1>5. found = {a}
  BY <1>2, <1>3, <1>4, AccountsAssumption
<1>6. CharlistOf(encode_u32_be(id)) =
        IF found = {} THEN <<>> ELSE (CHOOSE x \in found : TRUE).chars
  BY <1>4 DEF CharlistOf
<1>7. PICK b : b = CHOOSE x \in found : TRUE
  BY Zenon
<1>8. b \in found
  BY <1>5, <1>7, Zenon
<1>9. b = a /\ found # {}
  BY <1>5, <1>8
<1>10. CharlistOf(encode_u32_be(id)) = b.chars
  BY <1>6, <1>7, <1>9, Zenon
<1> QED  BY <1>2, <1>9, <1>10

\* bytes is a right answer to the login that is being resolved.
AnswersRight(bytes) == Right(req[task.c], db, Understood(bytes))

LEMMA NameRight ==
    ASSUME ControlInv, DataInv, NoAccountName
    PROVE  AnswersRight(build_disconnect_message("name"))
<1>1. Faithful(req[task.c], task) /\ task.accname = <<>>
  BY DEF NoAccountName, DataInv
<1>2. WellFormed(req[task.c]) => Deserved(req[task.c]) = {Error("name")}
  BY <1>1, LoginDeserves
<1>3. Right(req[task.c], db, Error("name"))
  BY <1>2, KindFacts DEF Right
<1> QED  BY <1>3, ReasonsAreTexts, DisconnectUnderstood DEF AnswersRight

LEMMA LostRight ==
    ASSUME ControlInv, DataInv, LoadAccountInfoFails
    PROVE  AnswersRight(build_disconnect_message("incorrect"))
<1>1. db = "lost"
  BY DEF LoadAccountInfoFails
<1>2. Right(req[task.c], db, Error("incorrect"))
  BY <1>1, KindFacts DEF Right
<1> QED  BY <1>2, ReasonsAreTexts, DisconnectUnderstood DEF AnswersRight

LEMMA IncorrectRight ==
    ASSUME ControlInv, DataInv, NotCorrect
    PROVE  AnswersRight(build_disconnect_message("incorrect"))
<1>1. /\ res # None /\ task # None /\ task.accid = NoId
      /\ \A row \in res.rows : row.pwd # task.password
      /\ res = [rows |-> AccountRows(task.accname)] /\ task.accname # <<>>
  BY DEF NotCorrect, ControlInv, Progress
<1>2. Faithful(req[task.c], task)
  BY <1>1 DEF DataInv
<1>3. ASSUME NEW a \in Accounts, a.name = task.accname PROVE a.pwd # task.password
  <2>1. PICK row : row = [id |-> BigEndian(a.id), pwd |-> a.pwd]
    BY Zenon
  <2>2. row \in AccountRows(task.accname)
    BY <1>3, <2>1 DEF AccountRows
  <2>3. row.pwd # task.password
    BY <1>1, <2>2
  <2> QED  BY <2>1, <2>3
<1>4. WellFormed(req[task.c]) => Deserved(req[task.c]) = {}
  BY <1>1, <1>2, <1>3, LoginDeserves
<1>5. Right(req[task.c], db, Error("incorrect"))
  BY <1>4, KindFacts DEF Right
<1> QED  BY <1>5, ReasonsAreTexts, DisconnectUnderstood DEF AnswersRight

LEMMA InternalRight ==
    ASSUME ControlInv, DataInv, LoadCharlistFails
    PROVE  AnswersRight(build_disconnect_message("internal"))
<1>1. /\ task # None /\ task.accid # NoId /\ db = "lost" /\ task.accname # <<>>
      /\ \E a \in Accounts : a.name = task.accname /\ a.pwd = task.password
  BY DEF LoadCharlistFails, ControlInv, Progress
<1>2. Faithful(req[task.c], task)
  BY <1>1 DEF DataInv
<1>3. ASSUME WellFormed(req[task.c]) PROVE Deserved(req[task.c]) # {}
  <2>1. PICK a \in Accounts : a.name = task.accname /\ a.pwd = task.password
    BY <1>1
  <2>2. [kind |-> "list", motd |-> Motd, names |-> a.chars] \in Deserved(req[task.c])
    BY <1>1, <1>2, <1>3, <2>1, LoginDeserves
  <2> QED  BY <2>2
<1>4. Right(req[task.c], db, Error("internal"))
  BY <1>1, <1>3, KindFacts DEF Right
<1> QED  BY <1>4, ReasonsAreTexts, DisconnectUnderstood DEF AnswersRight

LEMMA CharlistRight ==
    ASSUME ControlInv, DataInv, SendCharlist, MessagesFit
    PROVE  AnswersRight(CharlistMessage(res.names))
<1>1. /\ task # None /\ task.accid # NoId /\ task.accname # <<>>
      /\ res = [names |-> CharlistOf(encode_u32_be(task.accid))]
  BY DEF SendCharlist, ControlInv, Progress
<1>2. PICK a \in Accounts : /\ a.id = task.accid
                            /\ a.name = task.accname /\ a.pwd = task.password
  BY <1>1 DEF ControlInv, Progress
<1>3. res.names = a.chars
  BY <1>1, <1>2, CharlistOfAccount
<1>4. a.chars \in Seq(Seq(Byte))
  BY AccountsAssumption DEF Account
<1>5. Len(a.chars) < ByteMod /\ Fits(CharlistMessage(a.chars))
  BY DEF MessagesFit
<1>6. PICK m : m = [kind |-> "list", motd |-> Motd, names |-> a.chars]
  BY Zenon
<1>7. Understood(CharlistMessage(a.chars)) = m
  BY <1>4, <1>5, <1>6, CharlistUnderstood
<1>8. Faithful(req[task.c], task)
  BY <1>1 DEF DataInv
<1>9. WellFormed(req[task.c]) => m \in Deserved(req[task.c])
  BY <1>1, <1>2, <1>6, <1>8, LoginDeserves
<1>10. Right(req[task.c], db, m)
  BY <1>6, <1>9, KindFacts DEF Right
<1> QED  BY <1>3, <1>7, <1>10 DEF AnswersRight

-----------------------------------------------------------------------------
(***************************************************************************)
(* Every step keeps the data invariant.                                    *)
(***************************************************************************)

\* What a step that does not touch an outbuf in use leaves as it was.
StillHolds ==
    /\ \A i \in 1 .. Len(tasks) : Faithful(req'[tasks[i].c], tasks[i])
    /\ task # None => Faithful(req'[task.c], task)
    /\ \A c \in Clients : udata[c] # NULL => Carries(req'[c], db', buf'[udata[c]])
    /\ \A j \in 1 .. Len(answers) :
         Carries(req'[answers[j].c], db', buf'[answers[j].output])
    /\ got = [c \in Clients |-> got[c]]
    /\ \A c \in Clients :
         \/ got[c] = None
         \/ req'[c] # None /\ (got[c] = Closed \/ Right(req'[c], db', got[c]))

LEMMA DataFrame ==
    ASSUME ControlInv, DataInv,
           \A c \in Clients : req[c] # None => req'[c] = req[c],
           db = "lost" => db' = "lost",
           \A d \in Owned : buf'[d] = buf[d]
    PROVE  StillHolds
<1>1. /\ \A i \in 1 .. Len(tasks) : tasks[i].c \in Clients
      /\ \A j \in 1 .. Len(answers) : answers[j].c \in Clients
      /\ task # None => task.c \in Clients
  BY TypesFacts DEF ControlInv
<1>2. /\ \A i \in 1 .. Len(tasks) : req[tasks[i].c] # None
      /\ \A j \in 1 .. Len(answers) : req[answers[j].c] # None
      /\ task # None => req[task.c] # None
      /\ \A c \in Clients : udata[c] # NULL => req[c] # None
  BY DEF ControlInv, OneLogin, Waits, Connections
<1>3. /\ \A i \in 1 .. Len(tasks) : req'[tasks[i].c] = req[tasks[i].c]
      /\ \A j \in 1 .. Len(answers) : req'[answers[j].c] = req[answers[j].c]
      /\ task # None => req'[task.c] = req[task.c]
      /\ \A c \in Clients : udata[c] # NULL => req'[c] = req[c]
  BY <1>1, <1>2
<1>4. /\ \A c \in Clients : udata[c] # NULL => buf'[udata[c]] = buf[udata[c]]
      /\ \A j \in 1 .. Len(answers) : buf'[answers[j].output] = buf[answers[j].output]
  BY DEF Owned
<1>5. /\ \A i \in 1 .. Len(tasks) : Faithful(req'[tasks[i].c], tasks[i])
      /\ task # None => Faithful(req'[task.c], task)
  BY <1>3 DEF DataInv
<1>6. ASSUME NEW c \in Clients, udata[c] # NULL
      PROVE  Carries(req'[c], db', buf'[udata[c]])
  <2>1. Carries(req[c], db, buf[udata[c]])
    BY <1>6 DEF DataInv
  <2> QED  BY <1>3, <1>4, <1>6, <2>1, CarriesStays
<1>7. ASSUME NEW j \in 1 .. Len(answers)
      PROVE  Carries(req'[answers[j].c], db', buf'[answers[j].output])
  <2>1. Carries(req[answers[j].c], db, buf[answers[j].output])
    BY DEF DataInv
  <2> QED  BY <1>3, <1>4, <2>1, CarriesStays
<1>8. ASSUME NEW c \in Clients, got[c] # None
      PROVE  req'[c] # None /\ (got[c] = Closed \/ Right(req'[c], db', got[c]))
  <2>1. req[c] # None /\ (got[c] = Closed \/ Right(req[c], db, got[c]))
    BY <1>8 DEF DataInv
  <2> QED  BY <2>1, RightStays
<1>9. got = [c \in Clients |-> got[c]]
  BY DEF DataInv
<1> QED  BY <1>5, <1>6, <1>7, <1>8, <1>9 DEF StillHolds

\* A message that is put in an idle outbuf touches no other message.
LEMMA PutsOther ==
    ASSUME ControlInv, BufTypes, NEW b \in Bufs, NEW k \in Keys, NEW bytes \in Seq(Byte),
           Puts(b, k, bytes)
    PROVE  b \notin Owned /\ \A d \in Owned : buf'[d] = buf[d]
<1>1. outbuf_acquire(b)
  BY DEF Puts
<1>2. b \notin Owned
  BY <1>1, AcquireHeld DEF ControlInv, Types, Ownership
<1>3. Owned \subseteq Bufs
  BY TypesFacts DEF ControlInv
<1>4. \A d \in Bufs : d # b => buf'[d] = buf[d]
  BY PutsFacts
<1> QED  BY <1>2, <1>3, <1>4

\* The first message of a client.
LEMMA ReceivesFacts ==
    ASSUME ControlInv, NEW c \in Clients, NEW r \in RequestsOf[c], Receives(c, r)
    PROVE  /\ r \in Request /\ r # None /\ req'[c] = r
           /\ \A d \in Clients : d # c => req'[d] = req[d]
           /\ \A d \in Clients : req[d] # None => req'[d] = req[d]
<1>1. req \in [Clients -> Request \cup {None}] /\ req[c] = None
      /\ req' = [req EXCEPT ![c] = r]
  BY DEF Receives, ControlInv, Types
<1>2. r \in Request /\ r # None
  BY RequestsAssumption, NoneFacts
<1> QED  BY <1>1, <1>2

LEMMA MalformedData ==
    ASSUME ControlInv, DataInv, NEW c \in Clients, NEW r \in RequestsOf[c],
           ReceiveMalformed(c, r)
    PROVE  DataInv'
<1>1. /\ UNCHANGED <<udata, tasks, task, db, answers, buf>> /\ Receives(c, r)
      /\ got' = [got EXCEPT ![c] = Closed]
  BY DEF ReceiveMalformed, dbVars, Closed
<1>2. /\ r # None /\ req'[c] = r
      /\ \A d \in Clients : req[d] # None => req'[d] = req[d]
  BY <1>1, ReceivesFacts
<1>3. StillHolds
  BY <1>1, <1>2, DataFrame
<1>4. got = [d \in Clients |-> got[d]]
  BY <1>3 DEF StillHolds
<1>5. /\ got' = [d \in Clients |-> got'[d]] /\ got'[c] = Closed
      /\ \A d \in Clients : d # c => got'[d] = got[d]
  BY <1>1, <1>4
<1> QED  BY <1>1, <1>2, <1>3, <1>5 DEF StillHolds, DataInv

LEMMA RefusedData ==
    ASSUME ControlInv, BufTypes, DataInv, MessagesFit,
           NEW c \in Clients, NEW r \in RequestsOf[c], ReceiveRefused(c, r)
    PROVE  DataInv'
<1>1. Receives(c, r) /\ ~Malformed(r) /\ UNCHANGED <<tasks, task, db, answers, got>>
  BY DEF ReceiveRefused, dbVars
<1>2. PICK reason \in Refusals(r), b \in Bufs :
        /\ outbuf_acquire(b)
        /\ buf' = [buf EXCEPT ![b] = Built(b, Key(rsa_decode(Plain(r))),
                                         build_disconnect_message(reason))]
        /\ udata' = [udata EXCEPT ![c] = b]
  BY DEF ReceiveRefused
<1>3. /\ r \in Request /\ r # None /\ req'[c] = r
      /\ \A d \in Clients : d # c => req'[d] = req[d]
      /\ \A d \in Clients : req[d] # None => req'[d] = req[d]
  BY <1>1, ReceivesFacts
<1>4. Key(rsa_decode(Plain(r))) = r.key /\ r.key \in Keys
  BY <1>1, <1>3, KeyRead, RequestFacts DEF Malformed
<1>5. PICK bytes : bytes = build_disconnect_message(reason)
  BY Zenon
<1>6. bytes \in Seq(Byte) /\ Fits(bytes) /\ Understood(bytes) = Error(reason)
  BY <1>5, RefusalReasons, MessageFacts, DisconnectUnderstood
<1>7. PICK k \in Keys : k = r.key
  BY <1>4
<1>8. Puts(b, k, bytes)
  BY <1>2, <1>4, <1>5, <1>7 DEF Puts
<1>9. \A d \in Owned : buf'[d] = buf[d]
  BY <1>6, <1>8, PutsOther
<1>10. StillHolds
  BY <1>1, <1>3, <1>9, DataFrame
<1>11. BuiltRight(buf'[b], k, bytes)
  BY <1>6, <1>8, PutsFacts
<1>12. Right(r, db', Understood(bytes))
  BY <1>1, <1>3, <1>6, RefusalRight
<1>13. Carries(r, db', buf'[b])
  BY <1>6, <1>7, <1>11, <1>12, BuiltCarries
<1>14. udata \in [Clients -> Bufs \cup {NULL}]
  BY DEF ControlInv, Types
<1>15. udata'[c] = b /\ \A d \in Clients : d # c => udata'[d] = udata[d]
  BY <1>2, <1>14
<1>16. ASSUME NEW d \in Clients, udata'[d] # NULL
       PROVE  Carries(req'[d], db', buf'[udata'[d]])
  <2>1. CASE d = c
    BY <1>3, <1>13, <1>15, <2>1
  <2>2. CASE d # c
    BY <1>10, <1>15, <1>16, <2>2 DEF StillHolds
  <2> QED  BY <2>1, <2>2
<1> QED  BY <1>1, <1>10, <1>16 DEF StillHolds, DataInv

LEMMA LoginData ==
    ASSUME ControlInv, DataInv, NEW c \in Clients, NEW r \in RequestsOf[c],
           ReceiveLogin(c, r)
    PROVE  DataInv'
<1>1. /\ Receives(c, r) /\ ~Malformed(r) /\ Refusals(r) = {}
      /\ UNCHANGED <<udata, task, db, answers, buf, got>>
  BY DEF ReceiveLogin
<1>2. PICK l : /\ l = [c |-> c, key |-> Key(rsa_decode(Plain(r))),
                       accname |-> CString(Credentials(rsa_decode(Plain(r))).acc),
                       password |-> CString(Credentials(rsa_decode(Plain(r))).pwd),
                       accid |-> NoId]
               /\ tasks' = Append(tasks, l)
  BY DEF ReceiveLogin
<1>3. /\ r \in Request /\ r # None /\ req'[c] = r
      /\ \A d \in Clients : req[d] # None => req'[d] = req[d]
  BY <1>1, ReceivesFacts
<1>4. l \in Login
  BY <1>1, <1>2, <1>3, LoginTyped
<1>5. Faithful(r, l) /\ l.c = c
  BY <1>1, <1>2, <1>3, LoginFaithful
<1>6. StillHolds
  BY <1>1, <1>3, DataFrame
<1>7. tasks \in Seq(Login) /\ Len(tasks) \in Nat
  BY DEF ControlInv, Types
<1>8. /\ Len(tasks') = Len(tasks) + 1
      /\ \A i \in 1 .. Len(tasks) : tasks'[i] = tasks[i]
      /\ tasks'[Len(tasks) + 1] = l
  BY <1>2, <1>4, <1>7
<1>9. ASSUME NEW i \in 1 .. Len(tasks') PROVE Faithful(req'[tasks'[i].c], tasks'[i])
  <2>1. i \in 1 .. Len(tasks) \/ i = Len(tasks) + 1
    BY <1>7, <1>8
  <2> QED  BY <1>3, <1>5, <1>6, <1>8, <2>1 DEF StillHolds
<1> QED  BY <1>1, <1>6, <1>9 DEF StillHolds, DataInv

LEMMA WriteData ==
    ASSUME ControlInv, DataInv, NEW c \in Clients, on_write(c) \/ on_close(c)
    PROVE  DataInv'
<1>1. /\ UNCHANGED <<req, tasks, task, db, answers, buf>>
      /\ udata' = [udata EXCEPT ![c] = NULL]
  BY DEF on_write, on_close, dbVars
<1>2. StillHolds
  BY <1>1, DataFrame
<1>3. udata \in [Clients -> Bufs \cup {NULL}] /\ got = [d \in Clients |-> got[d]]
  BY <1>2 DEF ControlInv, Types, StillHolds
<1>4. udata'[c] = NULL /\ \A d \in Clients : d # c => udata'[d] = udata[d]
  BY <1>1, <1>3
<1>5. ASSUME NEW d \in Clients, udata'[d] # NULL
      PROVE  Carries(req'[d], db', buf'[udata'[d]])
  BY <1>2, <1>4, <1>5 DEF StillHolds
<1>6. /\ got' = [d \in Clients |-> got'[d]]
      /\ \A d \in Clients :
           \/ got'[d] = None
           \/ req'[d] # None /\ (got'[d] = Closed \/ Right(req'[d], db', got'[d]))
  <2>1. CASE on_close(c)
    BY <1>2, <2>1 DEF on_close, StillHolds
  <2>2. CASE on_write(c)
    <3>1. PICK w : w = buf[udata[c]]
      BY Zenon
    <3>2. PICK m : m = Understood(Unwrapped(SubSeq(w.base, 1, w.ptr), req[c].key))
      BY Zenon
    <3>3. got' = [got EXCEPT ![c] = m]
      BY <2>2, <3>1, <3>2 DEF on_write
    <3>4. udata[c] # NULL /\ req[c] # None
      BY <2>2, OnWriteKeeps DEF on_write, ControlInv, Connections
    <3>5. Right(req[c], db, m)
      BY <3>1, <3>2, <3>4 DEF DataInv, Carries
    <3>6. /\ got' = [d \in Clients |-> got'[d]] /\ got'[c] = m
          /\ \A d \in Clients : d # c => got'[d] = got[d]
      BY <1>3, <3>3
    <3>7. \A d \in Clients :
            \/ got[d] = None
            \/ req'[d] # None /\ (got[d] = Closed \/ Right(req'[d], db', got[d]))
      BY <1>2 DEF StillHolds
    <3> QED  BY <1>1, <3>4, <3>5, <3>6, <3>7
  <2> QED  BY <2>1, <2>2
<1> QED  BY <1>1, <1>2, <1>5, <1>6 DEF StillHolds, DataInv

LEMMA ResolveData ==
    ASSUME ControlInv, DataInv, internal_resolve_login
    PROVE  DataInv'
<1> DEFINE n == Len(answers)
<1>1. /\ UNCHANGED <<req, tasks, task, db, buf, got>> /\ answers # <<>>
      /\ answers' = Tail(answers)
  BY DEF internal_resolve_login, dbVars
<1>2. StillHolds
  BY <1>1, DataFrame
<1>3. /\ answers \in Seq([c : Clients, output : Bufs])
      /\ udata \in [Clients -> Bufs \cup {NULL}]
  BY DEF ControlInv, Types
<1>4. /\ Len(answers') = n - 1 /\ n >= 1 /\ n \in Nat
      /\ \A j \in 1 .. n - 1 : answers'[j] = answers[j + 1]
      /\ Head(answers) = answers[1]
  BY <1>1, <1>3, TailFacts
<1>5. ASSUME NEW j \in 1 .. Len(answers')
      PROVE  Carries(req'[answers'[j].c], db', buf'[answers'[j].output])
  <2>1. j + 1 \in 1 .. n /\ answers'[j] = answers[j + 1]
    BY <1>4
  <2> QED  BY <1>2, <2>1 DEF StillHolds
<1>6. PICK l : l = answers[1]
  BY Zenon
<1>7. l.c \in Clients /\ Carries(req'[l.c], db', buf'[l.output])
  <2>1. 1 \in 1 .. n
    BY <1>4
  <2> QED  BY <1>2, <1>6, <2>1, TypesFacts DEF ControlInv, StillHolds
<1>8. udata' = udata \/ udata' = [udata EXCEPT ![l.c] = l.output]
  BY <1>4, <1>6 DEF internal_resolve_login
<1>9. ASSUME NEW d \in Clients, udata'[d] # NULL
      PROVE  Carries(req'[d], db', buf'[udata'[d]])
  <2>1. udata'[d] = udata[d] \/ (d = l.c /\ udata'[d] = l.output)
    BY <1>3, <1>7, <1>8
  <2> QED  BY <1>2, <1>7, <1>9, <2>1 DEF StillHolds
<1> QED  BY <1>1, <1>2, <1>5, <1>9 DEF StillHolds, DataInv

LEMMA TakeTaskData ==
    ASSUME ControlInv, DataInv, TakeTask
    PROVE  DataInv'
<1> DEFINE n == Len(tasks)
<1>1. /\ UNCHANGED <<req, udata, db, answers, buf, got>> /\ tasks # <<>>
      /\ tasks' = Tail(tasks) /\ task' = Head(tasks)
  BY DEF TakeTask, serverVars
<1>2. StillHolds
  BY <1>1, DataFrame
<1>3. tasks \in Seq(Login)
  BY DEF ControlInv, Types
<1>4. /\ Len(tasks') = n - 1 /\ n >= 1 /\ n \in Nat
      /\ \A i \in 1 .. n - 1 : tasks'[i] = tasks[i + 1]
      /\ task' = tasks[1]
  BY <1>1, <1>3, TailFacts
<1>5. ASSUME NEW i \in 1 .. Len(tasks') PROVE Faithful(req'[tasks'[i].c], tasks'[i])
  <2>1. i + 1 \in 1 .. n /\ tasks'[i] = tasks[i + 1]
    BY <1>4
  <2> QED  BY <1>2, <2>1 DEF StillHolds
<1>6. Faithful(req'[task'.c], task')
  <2>1. 1 \in 1 .. n
    BY <1>4
  <2> QED  BY <1>2, <1>4, <2>1 DEF StillHolds
<1> QED  BY <1>1, <1>2, <1>5, <1>6 DEF StillHolds, DataInv

LEMMA AnswersData ==
    ASSUME ControlInv, BufTypes, DataInv, NEW bytes \in Seq(Byte), Fits(bytes),
           Answers(bytes), AnswersRight(bytes)
    PROVE  DataInv'
<1> DEFINE n == Len(answers)
<1>1. /\ UNCHANGED <<req, udata, tasks, db, got>> /\ task # None /\ task' = None
  BY DEF Answers, Answer, serverVars
<1>2. PICK b \in Bufs : /\ Puts(b, task.key, bytes)
                        /\ answers' = Append(answers, [c |-> task.c, output |-> b])
  BY DEF Answers, Answer, Puts
<1>3. task \in Login /\ task.key \in Keys /\ task.c \in Clients
  BY <1>1, TypesFacts DEF ControlInv, Login
<1>4. PICK k \in Keys : k = task.key
  BY <1>3
<1>5. Puts(b, k, bytes)
  BY <1>2, <1>4
<1>6. BuiltRight(buf'[b], k, bytes) /\ \A d \in Owned : buf'[d] = buf[d]
  BY <1>5, PutsFacts, PutsOther
<1>7. StillHolds
  BY <1>1, <1>6, DataFrame
<1>8. PICK r : r = req[task.c]
  BY Zenon
<1>9. r.key = k
  BY <1>1, <1>4, <1>8 DEF DataInv, Faithful
<1>10. Carries(r, db', buf'[b])
  <2>1. Right(r, db', Understood(bytes))
    BY <1>1, <1>8 DEF AnswersRight
  <2> QED  BY <1>6, <1>9, <2>1, BuiltCarries
<1>11. PICK l : l = [c |-> task.c, output |-> b]
  BY Zenon
<1>12. /\ l \in [c : Clients, output : Bufs] /\ l.c = task.c /\ l.output = b
       /\ answers' = Append(answers, l)
  BY <1>2, <1>3, <1>11
<1>13. answers \in Seq([c : Clients, output : Bufs]) /\ n \in Nat
  BY DEF ControlInv, Types
<1>14. /\ Len(answers') = n + 1 /\ answers'[n + 1] = l
       /\ \A j \in 1 .. n : answers'[j] = answers[j]
  BY <1>12, <1>13
<1>15. ASSUME NEW j \in 1 .. Len(answers')
       PROVE  Carries(req'[answers'[j].c], db', buf'[answers'[j].output])
  <2>1. j \in 1 .. n \/ j = n + 1
    BY <1>13, <1>14
  <2>2. CASE j \in 1 .. n
    BY <1>7, <1>14, <2>2 DEF StillHolds
  <2>3. CASE j = n + 1
    BY <1>1, <1>8, <1>10, <1>12, <1>14, <2>3
  <2> QED  BY <2>1, <2>2, <2>3
<1> QED  BY <1>1, <1>7, <1>15 DEF StillHolds, DataInv

LEMMA QueryData ==
    ASSUME ControlInv, DataInv,
           \/ db_load_account_info \/ db_load_account_charlist \/ LoseDatabase
           \/ PasswordMatches \/ UNCHANGED vars
    PROVE  DataInv'
<1>1. /\ UNCHANGED <<req, udata, tasks, answers, buf, got>>
      /\ db = "lost" => db' = "lost"
  BY DEF db_load_account_info, db_load_account_charlist, LoseDatabase, PasswordMatches,
         vars, replyVars, serverVars
<1>2. StillHolds
  BY <1>1, DataFrame
<1>3. task' # None => Faithful(req'[task'.c], task')
  <2>1. CASE task' = task
    BY <1>2, <2>1 DEF StillHolds
  <2>2. CASE PasswordMatches
    <3>1. task # None /\ task \in Login
      BY <2>2, TypesFacts DEF PasswordMatches, ControlInv, Progress
    <3>2. PICK id : task' = [task EXCEPT !.accid = id]
      BY <2>2 DEF PasswordMatches
    <3>3. /\ task'.c = task.c /\ task'.key = task.key
          /\ task'.accname = task.accname /\ task'.password = task.password
      BY <3>1, <3>2 DEF Login
    <3>4. Faithful(req'[task.c], task)
      BY <1>2, <3>1 DEF StillHolds
    <3> QED  BY <3>3, <3>4 DEF Faithful
  <2> QED  BY <2>1, <2>2 DEF db_load_account_info, db_load_account_charlist,
                             LoseDatabase, vars, replyVars
<1> QED  BY <1>1, <1>2, <1>3 DEF StillHolds, DataInv

LEMMA NextKeepsData ==
    ASSUME ControlInv, BufTypes, DataInv, [Next]_vars, MessagesFit
    PROVE  DataInv'
<1>1. CASE \E c \in Clients : \E r \in RequestsOf[c] :
             ReceiveMalformed(c, r) \/ ReceiveRefused(c, r) \/ ReceiveLogin(c, r)
  BY <1>1, MalformedData, RefusedData, LoginData
<1>2. CASE \E c \in Clients : on_write(c) \/ on_close(c)
  BY <1>2, WriteData
<1>3. CASE internal_resolve_login
  BY <1>3, ResolveData
<1>4. CASE TakeTask
  BY <1>4, TakeTaskData
<1>5. ASSUME NEW reason \in DOMAIN Text, Answers(build_disconnect_message(reason)),
             AnswersRight(build_disconnect_message(reason))
      PROVE  DataInv'
  BY <1>5, MessageFacts, AnswersData
<1>6. CASE NoAccountName \/ LoadAccountInfoFails \/ NotCorrect \/ LoadCharlistFails
  BY <1>5, <1>6, AnswerCases, ReasonsAreTexts, NameRight, LostRight, IncorrectRight,
     InternalRight
<1>7. CASE SendCharlist
  <2>1. PICK bytes : bytes = CharlistMessage(res.names)
    BY Zenon
  <2>2. Answers(bytes) /\ AnswersRight(bytes)
    BY <1>7, <2>1, AnswerCases, CharlistRight
  <2>3. res.names = CharlistOf(encode_u32_be(task.accid))
    BY <1>7 DEF SendCharlist, ControlInv, Progress
  <2>4. bytes \in Seq(Byte) /\ Fits(bytes)
    BY <2>1, <2>3, MessageFacts
  <2> QED  BY <2>2, <2>4, AnswersData
<1>8. CASE \/ db_load_account_info \/ db_load_account_charlist \/ LoseDatabase
           \/ PasswordMatches \/ UNCHANGED vars
  BY <1>8, QueryData
<1> QED  BY <1>1, <1>2, <1>3, <1>4, <1>6, <1>7, <1>8 DEF Next

\* The message a client reads is the one its request deserves: through the RSA
\* block, the ring, two queries with an id in network byte order, an outbuf other
\* messages have used, padding, cipher and checksum, for every database, every
\* request and every interleaving of the two threads with connections that end and
\* a database that is lost.  The texts and lists need to fit an outbuf.
THEOREM RepliesRight ==
    ASSUME MessagesFit
    PROVE  Spec => []ReplyMatchesRequest
<1>1. Init => DataInv
  <2>1. Len(<<>>) = 0
    OBVIOUS
  <2> QED  BY <2>1 DEF Init, DataInv
<1>2. ControlInv /\ BufTypes /\ DataInv /\ [Next]_vars => DataInv'
  BY NextKeepsData
<1>3. DataInv => ReplyMatchesRequest
  <2>1. SUFFICES ASSUME DataInv, NEW c \in Clients, got[c] # None, got[c].kind # "closed"
                 PROVE  Right(req[c], db, got[c])
    BY DEF ReplyMatchesRequest, Right
  <2>2. got[c] # Closed
    BY <2>1, KindFacts
  <2> QED  BY <2>1, <2>2 DEF DataInv
<1> QED  BY <1>1, <1>2, <1>3, ControlAlways, BufTypesAlways, PTL DEF Spec
==============================================================================
