------------------------------- MODULE Outbuf -------------------------------
(***************************************************************************)
(* The list of idle output buffers (outbuf.c), shared by the server thread *)
(* and the database thread.  What outbuf_acquire and outbuf_release do     *)
(* under the lock is one step; the malloc or free they do after it touches *)
(* a buffer no other thread knows, and is part of that step.  The list     *)
(* itself is memory: a head pointer and the next pointers of the buffers.  *)
(***************************************************************************)
EXTENDS Integers, FiniteSets

CONSTANTS
    MaxIdleOutbufs,  \* MAX_IDLE_OUTBUFS
    Bufs,            \* bound: the addresses malloc can return
    NULL

ASSUME IdleAssumption == MaxIdleOutbufs \in Nat
ASSUME BufsAssumption == IsFiniteSet(Bufs) /\ NULL \notin Bufs

VARIABLES
    outbuf_head, outbuf_list_size,
    next,            \* the next pointer of every buffer
    heap             \* buffers malloc returned and nobody freed

listVars == <<outbuf_head, outbuf_list_size, next, heap>>

ListTypeOK ==
    /\ outbuf_head \in Bufs \cup {NULL}
    /\ outbuf_list_size \in 0 .. MaxIdleOutbufs
    /\ next \in [Bufs -> Bufs \cup {NULL}]
    /\ heap \subseteq Bufs

ListInit ==
    /\ outbuf_head = NULL /\ outbuf_list_size = 0
    /\ next = [b \in Bufs |-> NULL]
    /\ heap = {}

\* The buffer that the walk from the head reaches after i links.
Link ==
    LET L[i \in 0 .. Cardinality(Bufs)] ==
          IF i = 0 THEN outbuf_head
          ELSE IF L[i - 1] = NULL THEN NULL ELSE next[L[i - 1]]
    IN  L

Idle == {Link[i] : i \in 0 .. Cardinality(Bufs)} \ {NULL}

\* outbuf_acquire returns b.
outbuf_acquire(b) ==
    \/ /\ outbuf_head # NULL /\ b = outbuf_head
       /\ outbuf_list_size' = outbuf_list_size - 1
       /\ outbuf_head' = next[b]
       /\ UNCHANGED <<next, heap>>
    \/ /\ outbuf_head = NULL /\ b \in Bufs \ heap
       /\ heap' = heap \cup {b}
       /\ UNCHANGED <<outbuf_head, outbuf_list_size, next>>

\* Mutant: the test for the limit is off by one.
ReleaseOneMore(b) ==
    \/ /\ outbuf_list_size <= MaxIdleOutbufs
       /\ outbuf_list_size' = outbuf_list_size + 1
       /\ next' = [next EXCEPT ![b] = outbuf_head]
       /\ outbuf_head' = b
       /\ UNCHANGED heap
    \/ /\ outbuf_list_size > MaxIdleOutbufs
       /\ heap' = heap \ {b}
       /\ UNCHANGED <<outbuf_head, outbuf_list_size, next>>

outbuf_release(b) ==
    \/ /\ outbuf_list_size < MaxIdleOutbufs
       /\ outbuf_list_size' = outbuf_list_size + 1
       /\ next' = [next EXCEPT ![b] = outbuf_head]
       /\ outbuf_head' = b
       /\ UNCHANGED heap
    \/ /\ outbuf_list_size >= MaxIdleOutbufs
       /\ heap' = heap \ {b}
       /\ UNCHANGED <<outbuf_head, outbuf_list_size, next>>

(***************************************************************************)
(* The list ends after exactly outbuf_list_size buffers, all different and *)
(* none of them freed.                                                     *)
(***************************************************************************)
ListSound ==
    /\ outbuf_list_size <= MaxIdleOutbufs
    /\ Link[outbuf_list_size] = NULL
    /\ Cardinality(Idle) = outbuf_list_size
    /\ Idle \subseteq heap
====
