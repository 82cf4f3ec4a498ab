---------------------------- MODULE ConnMgrProofs ----------------------------
(***************************************************************************)
(* For every size of the table, the connection manager of ConnMgr counts   *)
(* the operations it has started, finds every free slot again and, while   *)
(* the 16-bit counters of the uids do not wrap, gives every answer and     *)
(* every buffer to the connection it belongs to.                           *)
(***************************************************************************)
EXTENDS ConnMgr, FiniteSetTheorems, WellFoundedInduction, TLAPS

-----------------------------------------------------------------------------
(***************************************************************************)
(* The inductive invariant of the table, for any range of the counters.    *)
(***************************************************************************)

\* A slot counts the operations started for it, none when it is not in use.
Started(c) ==
    (IF c.rd = "none" THEN 0 ELSE 1) + (IF c.wr = "none" THEN 0 ELSE 1)

CountInv(c) ==
    /\ c.inuse => c.pending = Started(c)
    /\ ~c.inuse => c.rd = "none" /\ c.wr = "none"
    /\ c.wr = "posted" => c.outprog

TypePart ==
    /\ ctl \in [Slots -> Conn]
    /\ freelist \in 0 .. Nil
    /\ next_unused_slot \in 0 .. MaxConnections
    /\ outbufs \in Int /\ handles \in Int
    /\ dbq \subseteq Login /\ srvq \subseteq Login
    /\ conns \in 0 .. MaxConns
    /\ scan \in {NoScan} \cup Slots
    /\ crashed \in BOOLEAN

CountsExact == \A s \in Slots : CountInv(ctl[s])

\* The uid of a slot in use holds its position.
InPlace ==
    \A s \in Slots : ctl[s].inuse =>
        ctl[s].low = s /\ s < next_unused_slot /\ ctl[s].id \in 1 .. conns

Free == {s \in Slots : s < next_unused_slot /\ ~ctl[s].inuse}

\* A list of the n slots of F: it begins with head, the halves `low' of the uids
\* in tab link it, and Nil ends it.
List(n, order, F, head, tab) ==
    /\ order \in [1 .. n -> Slots]
    /\ \A i, j \in 1 .. n : order[i] = order[j] => i = j
    /\ F = {order[i] : i \in 1 .. n}
    /\ head = IF n = 0 THEN Nil ELSE order[1]
    /\ \A i \in 1 .. n : tab[order[i]].low = IF i = n THEN Nil ELSE order[i + 1]

\* The freelist is a list of the free slots.
Linked(F, head, tab) ==
    \E n \in 0 .. MaxConnections : \E order \in [1 .. n -> Slots] :
        List(n, order, F, head, tab)

FreeLinked == Linked(Free, freelist, ctl)

\* A login under way is that of a slot that has been in use.
LoginsPlaced == \A l \in dbq \cup srvq : l.slot < next_unused_slot

\* internal_alloc returns NULL only when there is no slot.
CrashedFull == crashed => \A s \in Slots : ctl[s].inuse

TableInv ==
    /\ TypePart
    /\ CountsExact
    /\ InPlace
    /\ FreeLinked
    /\ LoginsPlaced
    /\ CrashedFull

-----------------------------------------------------------------------------
(***************************************************************************)
(* The inductive invariant of what the connections own, while the counters *)
(* do not wrap.                                                            *)
(***************************************************************************)

\* What the udata of a connection in use may be, and what it is while the OS
\* sends from it.
OwnInv(c) ==
    c.inuse =>
      /\ c.udata = "outbuf" => c.proto = "login"
      /\ c.proto = "login" => c.udata \in {"null", "outbuf"}
      /\ c.wr = "posted" =>
           /\ c.proto # "none"
           /\ c.proto = "login" => c.udata = "outbuf"
           /\ c.proto = "echo" => ~c.ready

OwnsExact == \A s \in Slots : OwnInv(ctl[s])

OutbufSlots == {s \in Slots : ctl[s].inuse /\ ctl[s].udata = "outbuf"}
EchoSlots == {s \in Slots : ctl[s].inuse /\ ctl[s].proto = "echo"}

\* No counter of a slot has wrapped.
GensBounded == \A s \in Slots : ctl[s].gen <= conns

\* No two connections in use are the same one.
IdsDistinct ==
    \A s, t \in Slots :
        ctl[s].inuse /\ ctl[t].inuse /\ ctl[s].id = ctl[t].id => s = t

Logins == dbq \cup srvq

\* A login under way is that of the connection its uid names, which waits for
\* it, and of no other.
LoginsNamed ==
    \A l \in Logins :
      /\ l.gen <= ctl[l.slot].gen /\ l.id <= conns
      /\ ctl[l.slot].inuse /\ ctl[l.slot].gen = l.gen =>
           /\ ctl[l.slot].id = l.id
           /\ ctl[l.slot].proto = "login" /\ ctl[l.slot].udata = "null"
      /\ \A s \in Slots : ctl[s].inuse /\ ctl[s].id = l.id =>
           l.slot = s /\ l.gen = ctl[s].gen

LoginsDistinct ==
    /\ dbq \cap srvq = {}
    /\ \A l, k \in Logins : l.id = k.id => l = k

OwnersInv ==
    /\ OwnsExact
    /\ BuffersOwned
    /\ GensBounded
    /\ IdsDistinct
    /\ LoginsNamed
    /\ LoginsDistinct

-----------------------------------------------------------------------------
(***************************************************************************)
(* What the static functions do to the memory m that a handler works on.   *)
(***************************************************************************)

Mem == [c : Conn, freelist : 0 .. Nil, outbufs : Int, handles : Int]

HeldOutbufs(c) == IF c.inuse /\ c.udata = "outbuf" THEN 1 ELSE 0
HeldHandles(c) == IF c.inuse /\ c.proto = "echo" THEN 1 ELSE 0

\* From m to n the counts stay exact, and the slot s stays in use or becomes the
\* head of the freelist.
Handled(m, n, s) ==
    /\ n \in Mem /\ CountInv(n.c)
    /\ n.c.gen = m.c.gen /\ n.c.id = m.c.id
    /\ \/ n.c.inuse /\ n.freelist = m.freelist /\ n.c.low = m.c.low
       \/ ~n.c.inuse /\ n.freelist = s /\ n.c.low = m.freelist

\* From m to n the buffers stay owned, and a login that waits goes on waiting.
Owned(m, n) ==
    /\ OwnInv(n.c)
    /\ n.outbufs - HeldOutbufs(n.c) = m.outbufs - HeldOutbufs(m.c)
    /\ n.handles - HeldHandles(n.c) = m.handles - HeldHandles(m.c)
    /\ n.c.inuse /\ m.c.proto = "login" /\ m.c.udata = "null" =>
         n.c.proto = "login" /\ n.c.udata = "null"

\* Both, the second while the first holds.
Right(m, n, s) == Handled(m, n, s) /\ (OwnInv(m.c) => Owned(m, n))

\* One function after the other.
LEMMA RightTwice ==
    ASSUME NEW m \in Mem, NEW k \in Mem, NEW n \in Mem, NEW s,
           Right(m, k, s), k.c.inuse, Right(k, n, s)
    PROVE  Right(m, n, s)
  BY DEF Right, Handled, Owned, Mem

LEMMA MemFields ==
    ASSUME NEW m \in Mem
    PROVE  /\ m.c \in Conn /\ m.freelist \in 0 .. Nil
           /\ m.outbufs \in Int /\ m.handles \in Int
  BY DEF Mem

\* The globals are as they were, and so is who the connection is.
Alike(m, n) ==
    /\ n \in Mem /\ n.freelist = m.freelist
    /\ n.outbufs = m.outbufs /\ n.handles = m.handles
    /\ n.c.gen = m.c.gen /\ n.c.id = m.c.id /\ n.c.low = m.c.low
    /\ n.c.inuse = m.c.inuse

\* So is what the connection owns.
SameOwner(m, n) ==
    n.c.proto = m.c.proto /\ n.c.udata = m.c.udata /\ n.c.ready = m.c.ready

\* The counts are kept by whatever leaves the operations alone.
SameWork(m, n) ==
    /\ n.c.rd = m.c.rd /\ n.c.wr = m.c.wr /\ n.c.pending = m.c.pending
    /\ n.c.outprog = m.c.outprog

LEMMA AlikeRight ==
    ASSUME NEW m \in Mem, NEW n \in Mem, NEW s, m.c.inuse, Alike(m, n),
           SameOwner(m, n), CountInv(n.c), n.c.wr = "posted" => m.c.wr = "posted"
    PROVE  Right(m, n, s)
<1>1. Handled(m, n, s)
  BY DEF Handled, Alike
<1>2. OwnInv(m.c) => Owned(m, n)
  BY DEF Owned, OwnInv, Alike, SameOwner, HeldOutbufs, HeldHandles
<1> QED  BY <1>1, <1>2 DEF Right

\* Doing nothing.
LEMMA SameRight ==
    ASSUME NEW m \in Mem, NEW s, m.c.inuse, CountInv(m.c)
    PROVE  Right(m, m, s)
  BY AlikeRight DEF Alike, SameOwner

\* A WSARecv.
LEMMA StartReadRight ==
    ASSUME NEW m \in Mem, CountInv(m.c), m.c.inuse, m.c.rd = "none",
           NEW what \in {"length", "body"}, NEW s,
           NEW n, n = internal_start_async_read(m, what)
    PROVE  Right(m, n, s) /\ n.c.inuse /\ n \in Mem
<1>1. m.c.pending \in 0 .. 1 /\ m.c \in Conn
  BY DEF CountInv, Started, Mem, Conn
<1>2. PICK p \in 0 .. 2 : p = m.c.pending + 1
  BY <1>1
<1>3. PICK e : e = [m.c EXCEPT !.rd = what, !.pending = p]
  OBVIOUS
<1>4. e \in Conn
  BY <1>1, <1>3, Zenon DEF Conn
<1>5. /\ n.c = e /\ n.freelist = m.freelist
      /\ n.outbufs = m.outbufs /\ n.handles = m.handles
  BY <1>2, <1>3 DEF internal_start_async_read, Mem
<1>6. n \in Mem
  BY <1>2, <1>3, <1>4, <1>5 DEF internal_start_async_read, Mem
<1>7. /\ e.rd = what /\ e.pending = p /\ e.wr = m.c.wr /\ e.outprog = m.c.outprog
      /\ e.inuse = m.c.inuse /\ e.gen = m.c.gen /\ e.id = m.c.id
      /\ e.low = m.c.low /\ e.proto = m.c.proto /\ e.udata = m.c.udata
      /\ e.ready = m.c.ready
  BY <1>1, <1>3 DEF Conn
<1>8. Alike(m, n) /\ SameOwner(m, n)
  BY <1>5, <1>6, <1>7 DEF Alike, SameOwner
<1>9. CountInv(n.c)
  BY <1>2, <1>5, <1>7 DEF CountInv, Started
<1> QED  BY <1>5, <1>6, <1>7, <1>8, <1>9, AlikeRight

\* A WSASend.
LEMMA StartWriteIs ==
    ASSUME NEW m \in Mem, CountInv(m.c), m.c.inuse, m.c.wr = "none",
           NEW n, n = internal_start_async_write(m)
    PROVE  /\ n \in Mem /\ Alike(m, n) /\ SameOwner(m, n) /\ CountInv(n.c)
           /\ n.c.wr = "posted" /\ n.c.rd = m.c.rd
<1>1. m.c.pending \in 0 .. 1 /\ m.c \in Conn
  BY DEF CountInv, Started, Mem, Conn
<1>2. PICK p \in 0 .. 2 : p = m.c.pending + 1
  BY <1>1
<1>3. PICK e : e = [m.c EXCEPT !.wr = "posted", !.outprog = TRUE, !.pending = p]
  OBVIOUS
<1>4. e \in Conn
  BY <1>1, <1>3, Zenon DEF Conn
<1>5. /\ n.c = e /\ n.freelist = m.freelist
      /\ n.outbufs = m.outbufs /\ n.handles = m.handles
  BY <1>2, <1>3 DEF internal_start_async_write, Mem
<1>6. n \in Mem
  BY <1>2, <1>3, <1>4, <1>5 DEF internal_start_async_write, Mem
<1>7. /\ e.rd = m.c.rd /\ e.pending = p /\ e.wr = "posted" /\ e.outprog
      /\ e.inuse = m.c.inuse /\ e.gen = m.c.gen /\ e.id = m.c.id
      /\ e.low = m.c.low /\ e.proto = m.c.proto /\ e.udata = m.c.udata
      /\ e.ready = m.c.ready
  BY <1>1, <1>3 DEF Conn
<1>8. Alike(m, n) /\ SameOwner(m, n)
  BY <1>5, <1>6, <1>7 DEF Alike, SameOwner
<1>9. CountInv(n.c)
  BY <1>2, <1>5, <1>7 DEF CountInv, Started
<1> QED  BY <1>5, <1>6, <1>7, <1>8, <1>9

\* What may be sent: something of a protocol, which stays its own until sent.
MaySend(c) ==
    /\ c.proto # "none"
    /\ c.proto = "login" => c.udata = "outbuf"
    /\ c.proto = "echo" => ~c.ready

LEMMA StartWriteRight ==
    ASSUME NEW m \in Mem, CountInv(m.c), m.c.inuse, m.c.wr = "none", NEW s,
           NEW n, n = internal_start_async_write(m)
    PROVE  /\ n \in Mem /\ n.c.inuse /\ n.c.rd = m.c.rd /\ SameOwner(m, n)
           /\ Handled(m, n, s)
           /\ OwnInv(m.c) /\ MaySend(m.c) => Owned(m, n)
<1>1. /\ n \in Mem /\ Alike(m, n) /\ SameOwner(m, n) /\ CountInv(n.c)
      /\ n.c.wr = "posted" /\ n.c.rd = m.c.rd
  BY StartWriteIs
<1>2. Handled(m, n, s) /\ n.c.inuse
  BY <1>1 DEF Handled, Alike
<1>3. OwnInv(m.c) /\ MaySend(m.c) => Owned(m, n)
  BY <1>1 DEF Owned, OwnInv, Alike, SameOwner, HeldOutbufs, HeldHandles, MaySend
<1> QED  BY <1>1, <1>2, <1>3

\* A connection_send.
LEMMA SendRight ==
    ASSUME NEW m \in Mem, CountInv(m.c), m.c.inuse, NEW sent \in BOOLEAN, NEW s,
           NEW n, n = connection_send(m, sent)
    PROVE  /\ n \in Mem /\ n.c.inuse /\ n.c.rd = m.c.rd /\ SameOwner(m, n)
           /\ Handled(m, n, s)
           /\ OwnInv(m.c) /\ MaySend(m.c) => Owned(m, n)
<1>1. CASE ~m.c.outprog /\ sent
  <2>1. m.c.wr = "none"
    BY <1>1 DEF CountInv, Mem, Conn
  <2> QED  BY <1>1, <2>1, StartWriteRight DEF connection_send
<1>2. CASE ~(~m.c.outprog /\ sent)
  <2>1. n = m
    BY <1>2 DEF connection_send
  <2> QED  BY <2>1, SameRight DEF Right, SameOwner
<1> QED  BY <1>1, <1>2

\* on_close and the end of the connection.
LEMMA CloseOperationRight ==
    ASSUME NEW m \in Mem, CountInv(m.c), m.c.inuse, m.c.pending = 0,
           NEW s \in Slots, NEW n, n = internal_close_operation(m, s)
    PROVE  Right(m, n, s) /\ n \in Mem
<1>1. m.c \in Conn /\ m.freelist \in 0 .. Nil /\ m.outbufs \in Int
      /\ m.handles \in Int /\ m.c.rd = "none" /\ m.c.wr = "none"
  BY DEF CountInv, Started, Mem, Conn
<1>2. PICK k : k = on_close(m)
  OBVIOUS
<1>3. /\ k \in Mem /\ k.freelist = m.freelist
      /\ k.c.gen = m.c.gen /\ k.c.id = m.c.id /\ k.c.inuse = m.c.inuse
      /\ k.c.rd = m.c.rd /\ k.c.wr = m.c.wr
      /\ OwnInv(m.c) => /\ k.outbufs = m.outbufs - HeldOutbufs(m.c)
                        /\ k.handles = m.handles - HeldHandles(m.c)
  <2>1. CASE m.c.proto = "echo"
    <3>1. k = [m EXCEPT !.handles = @ - 1]
      BY <1>2, <2>1 DEF on_close
    <3>2. /\ k \in Mem /\ k.c = m.c /\ k.freelist = m.freelist
          /\ k.outbufs = m.outbufs /\ k.handles = m.handles - 1
      BY <3>1 DEF Mem
    <3>3. OwnInv(m.c) => HeldOutbufs(m.c) = 0 /\ HeldHandles(m.c) = 1
      BY <2>1 DEF OwnInv, HeldOutbufs, HeldHandles
    <3>4. m.outbufs = m.outbufs - 0
      BY <1>1
    <3> QED  BY <3>2, <3>3, <3>4, Zenon
  <2>2. CASE m.c.proto = "login" /\ m.c.udata = "outbuf"
    <3>b. PICK b \in Int : b = m.outbufs - 1
      BY <1>1
    <3>1. k = [m EXCEPT !.outbufs = b, !.c.udata = "null"]
      BY <1>2, <2>2, <3>b DEF on_close
    <3>2. PICK e : e = [m.c EXCEPT !.udata = "null"]
      OBVIOUS
    <3>3. e \in Conn
      BY <1>1, <3>2, Zenon DEF Conn
    <3>4. /\ k.c = e /\ k.freelist = m.freelist
          /\ k.outbufs = b /\ k.handles = m.handles
      BY <3>1, <3>2 DEF Mem
    <3>5. k \in Mem
      BY <3>1, <3>2, <3>3, <3>4 DEF Mem
    <3>6. /\ e.gen = m.c.gen /\ e.id = m.c.id /\ e.inuse = m.c.inuse
          /\ e.rd = m.c.rd /\ e.wr = m.c.wr
      BY <1>1, <3>2 DEF Conn
    <3>7. HeldOutbufs(m.c) = 1 /\ HeldHandles(m.c) = 0
      BY <2>2 DEF HeldOutbufs, HeldHandles
    <3>8. m.handles = m.handles - 0
      BY <1>1
    <3> QED  BY <3>b, <3>4, <3>5, <3>6, <3>7, <3>8, Zenon
  <2>3. CASE ~(m.c.proto = "echo") /\ ~(m.c.proto = "login" /\ m.c.udata = "outbuf")
    <3>1. k = m
      BY <1>2, <2>3 DEF on_close
    <3>2. OwnInv(m.c) => HeldOutbufs(m.c) = 0 /\ HeldHandles(m.c) = 0
      BY <2>3 DEF OwnInv, HeldOutbufs, HeldHandles
    <3>3. m.outbufs = m.outbufs - 0 /\ m.handles = m.handles - 0
      BY <1>1
    <3> QED  BY <3>1, <3>2, <3>3, Zenon
  <2> QED  BY <2>1, <2>2, <2>3
<1>4. PICK e : e = [k.c EXCEPT !.proto = "none"]
  OBVIOUS
<1>5. k.c \in Conn /\ e \in Conn
  <2>1. k.c \in Conn
    BY <1>3 DEF Mem
  <2> QED  BY <1>4, <2>1, Zenon DEF Conn
<1>6. PICK d : d = internal_dispatch_on_close(m)
  OBVIOUS
<1>7. d = [k EXCEPT !.c.proto = "none"]
  BY <1>2, <1>6 DEF internal_dispatch_on_close
<1>8. /\ d.c = e /\ d.freelist = k.freelist
      /\ d.outbufs = k.outbufs /\ d.handles = k.handles
  BY <1>3, <1>4, <1>7 DEF Mem
<1>9. d \in Mem
  BY <1>3, <1>4, <1>5, <1>7, <1>8 DEF Mem
<1>10. /\ e.gen = k.c.gen /\ e.id = k.c.id /\ e.rd = k.c.rd /\ e.wr = k.c.wr
  BY <1>4, <1>5 DEF Conn
<1>11. PICK f : f = [e EXCEPT !.low = d.freelist, !.inuse = FALSE]
  OBVIOUS
<1>12. f \in Conn
  <2>1. d.freelist \in 0 .. Nil
    BY <1>9 DEF Mem
  <2> QED  BY <1>5, <1>11, <2>1, ZenonT(40) DEF Conn
<1>13. /\ f.gen = e.gen /\ f.id = e.id /\ f.rd = e.rd /\ f.wr = e.wr
       /\ f.low = d.freelist /\ ~f.inuse
  BY <1>5, <1>11 DEF Conn
<1>14. n = [d EXCEPT !.c.low = d.freelist, !.freelist = s, !.c.inuse = FALSE]
  BY <1>6 DEF internal_close_operation, internal_free
<1>15. /\ n.c = f /\ n.freelist = s
       /\ n.outbufs = d.outbufs /\ n.handles = d.handles
  BY <1>8, <1>9, <1>11, <1>14 DEF Mem
<1>16. s \in 0 .. Nil
  BY TableAssumption DEF Slots, Nil
<1>17. n \in Mem
  BY <1>8, <1>9, <1>11, <1>12, <1>14, <1>15, <1>16 DEF Mem
<1>18. Handled(m, n, s)
  BY <1>1, <1>3, <1>8, <1>10, <1>13, <1>15, <1>17 DEF Handled, CountInv
<1>19. OwnInv(m.c) => Owned(m, n)
  BY <1>1, <1>3, <1>8, <1>13, <1>15 DEF Owned, OwnInv, HeldOutbufs, HeldHandles
<1> QED  BY <1>17, <1>18, <1>19 DEF Right

\* internal_close and internal_abort.
LEMMA StartCloseRight ==
    ASSUME NEW m \in Mem, CountInv(m.c), m.c.inuse, NEW s \in Slots,
           NEW abort \in BOOLEAN,
           NEW n, n = internal_start_close_operation(m, s, abort)
    PROVE  Right(m, n, s) /\ n \in Mem
<1>1. CASE m.c.pending = 0
  BY <1>1, CloseOperationRight DEF internal_start_close_operation
<1>2. CASE m.c.pending # 0
  <2>1. m.c \in Conn
    BY DEF Mem
  <2>2. PICK x : x = m.c.cancel \cup (Outstanding(m.c) \cap
                        (IF abort THEN {"read", "write"} ELSE {"read"}))
    OBVIOUS
  <2>3. x \in SUBSET {"read", "write"}
    <3>1. m.c.cancel \in SUBSET {"read", "write"}
      BY <2>1, Zenon DEF Conn
    <3> QED  BY <2>2, <3>1
  <2>4. PICK e : e = [m.c EXCEPT !.closing = TRUE, !.cancel = x]
    OBVIOUS
  <2>5. e \in Conn
    BY <2>1, <2>3, <2>4, Zenon DEF Conn
  <2>6. n = [m EXCEPT !.c.closing = TRUE, !.c.cancel = x]
    BY <1>2, <2>2 DEF internal_start_close_operation
  <2>7. /\ n.c = e /\ n.freelist = m.freelist
        /\ n.outbufs = m.outbufs /\ n.handles = m.handles
    BY <2>4, <2>6 DEF Mem
  <2>8. n \in Mem
    BY <2>4, <2>5, <2>6, <2>7 DEF Mem
  <2>9. /\ e.rd = m.c.rd /\ e.pending = m.c.pending /\ e.wr = m.c.wr
        /\ e.outprog = m.c.outprog
        /\ e.inuse = m.c.inuse /\ e.gen = m.c.gen /\ e.id = m.c.id
        /\ e.low = m.c.low /\ e.proto = m.c.proto /\ e.udata = m.c.udata
        /\ e.ready = m.c.ready
    BY <2>1, <2>4 DEF Conn
  <2>10. Alike(m, n) /\ SameOwner(m, n) /\ CountInv(n.c) /\ n.c.wr = m.c.wr
    BY <2>7, <2>8, <2>9 DEF Alike, SameOwner, CountInv, Started
  <2> QED  BY <2>8, <2>10, AlikeRight
<1> QED  BY <1>1, <1>2

LEMMA AsyncReadRight ==
    ASSUME NEW m \in Mem, CountInv(m.c), m.c.inuse, m.c.rd = "none",
           NEW what \in {"length", "body"}, NEW s \in Slots,
           NEW started \in BOOLEAN,
           NEW n, n = internal_async_read(m, s, what, started)
    PROVE  Right(m, n, s) /\ n \in Mem
<1>1. CASE started
  BY <1>1, StartReadRight DEF internal_async_read
<1>2. CASE ~started
  BY <1>2, StartCloseRight DEF internal_async_read, internal_abort
<1> QED  BY <1>1, <1>2

-----------------------------------------------------------------------------
(***************************************************************************)
(* What a handler begins with.                                             *)
(***************************************************************************)

LEMMA AtIs ==
    ASSUME TypePart, NEW s \in Slots, NEW o, o = At(s)
    PROVE  /\ o \in Mem /\ o.c = ctl[s] /\ o.c \in Conn /\ o.freelist = freelist
           /\ o.outbufs = outbufs /\ o.handles = handles
<1>1. ctl[s] \in Conn
  BY DEF TypePart
<1> QED  BY <1>1 DEF At, Mem, TypePart

LEMMA ReadCompletedRight ==
    ASSUME TypePart, NEW s \in Slots, CountInv(ctl[s]), ctl[s].rd # "none",
           NEW o, o = At(s), NEW n, n = ReadCompleted(s)
    PROVE  /\ Right(o, n, s) /\ n \in Mem /\ n.c.inuse /\ n.c.rd = "none"
           /\ SameOwner(o, n) /\ CountInv(n.c) /\ n.c.wr = o.c.wr
<1>1. /\ o \in Mem /\ o.c = ctl[s] /\ o.c \in Conn
  BY AtIs
<1>2. o.c.inuse /\ o.c.pending \in 1 .. 2
  BY <1>1 DEF CountInv, Started, Conn
<1>3. PICK p \in 0 .. 2 : p = o.c.pending - 1
  BY <1>2
<1>4. PICK x \in SUBSET {"read", "write"} : x = o.c.cancel \ {"read"}
  <2>1. o.c.cancel \in SUBSET {"read", "write"}
    BY <1>1, Zenon DEF Conn
  <2> QED  BY <2>1
<1>5. PICK r \in BOOLEAN : r = (o.c.rdwr \/ ctl[s].rd = "body")
  OBVIOUS
<1>6. PICK e : e = [o.c EXCEPT !.rd = "none", !.cancel = x, !.pending = p, !.rdwr = r]
  OBVIOUS
<1>7. e \in Conn
  BY <1>1, <1>6, Zenon DEF Conn
<1>8. n = [o EXCEPT !.c.rd = "none", !.c.cancel = x, !.c.pending = p, !.c.rdwr = r]
  BY <1>1, <1>3, <1>4, <1>5 DEF ReadCompleted
<1>9. /\ n.c = e /\ n.freelist = o.freelist
      /\ n.outbufs = o.outbufs /\ n.handles = o.handles
  BY <1>1, <1>6, <1>8 DEF Mem
<1>10. n \in Mem
  BY <1>1, <1>6, <1>7, <1>8, <1>9 DEF Mem
<1>11. /\ e.rd = "none" /\ e.pending = p /\ e.wr = o.c.wr
       /\ e.outprog = o.c.outprog
       /\ e.inuse = o.c.inuse /\ e.gen = o.c.gen /\ e.id = o.c.id
       /\ e.low = o.c.low /\ e.proto = o.c.proto /\ e.udata = o.c.udata
       /\ e.ready = o.c.ready
  BY <1>1, <1>6 DEF Conn
<1>12. Alike(o, n) /\ SameOwner(o, n) /\ n.c.wr = o.c.wr /\ n.c.inuse
       /\ n.c.rd = "none"
  BY <1>2, <1>9, <1>10, <1>11 DEF Alike, SameOwner
<1>13. CountInv(n.c)
  BY <1>1, <1>2, <1>3, <1>9, <1>11 DEF CountInv, Started
<1> QED  BY <1>1, <1>2, <1>10, <1>12, <1>13, AlikeRight

LEMMA WriteCompletedRight ==
    ASSUME TypePart, NEW s \in Slots, CountInv(ctl[s]), ctl[s].wr = "posted",
           NEW o, o = At(s), NEW n, n = WriteCompleted(s)
    PROVE  /\ Right(o, n, s) /\ n \in Mem /\ n.c.inuse /\ n.c.wr = "none"
           /\ SameOwner(o, n) /\ CountInv(n.c)
           /\ OwnInv(ctl[s]) => MaySend(n.c)
<1>1. /\ o \in Mem /\ o.c = ctl[s] /\ o.c \in Conn
  BY AtIs
<1>2. o.c.inuse /\ o.c.pending \in 1 .. 2
  BY <1>1 DEF CountInv, Started, Conn
<1>3. PICK p \in 0 .. 2 : p = o.c.pending - 1
  BY <1>2
<1>4. PICK x \in SUBSET {"read", "write"} : x = o.c.cancel \ {"write"}
  <2>1. o.c.cancel \in SUBSET {"read", "write"}
    BY <1>1, Zenon DEF Conn
  <2> QED  BY <2>1
<1>6. PICK e : e = [o.c EXCEPT !.wr = "none", !.cancel = x, !.pending = p, !.rdwr = TRUE]
  OBVIOUS
<1>7. e \in Conn
  BY <1>1, <1>6, Zenon DEF Conn
<1>8. n = [o EXCEPT !.c.wr = "none", !.c.cancel = x, !.c.pending = p, !.c.rdwr = TRUE]
  BY <1>1, <1>3, <1>4 DEF WriteCompleted
<1>9. /\ n.c = e /\ n.freelist = o.freelist
      /\ n.outbufs = o.outbufs /\ n.handles = o.handles
  BY <1>1, <1>6, <1>8 DEF Mem
<1>10. n \in Mem
  BY <1>1, <1>6, <1>7, <1>8, <1>9 DEF Mem
<1>11. /\ e.rd = o.c.rd /\ e.pending = p /\ e.wr = "none"
       /\ e.outprog = o.c.outprog
       /\ e.inuse = o.c.inuse /\ e.gen = o.c.gen /\ e.id = o.c.id
       /\ e.low = o.c.low /\ e.proto = o.c.proto /\ e.udata = o.c.udata
       /\ e.ready = o.c.ready
  BY <1>1, <1>6 DEF Conn
<1>12. Alike(o, n) /\ SameOwner(o, n) /\ n.c.wr = "none" /\ n.c.inuse
  BY <1>2, <1>9, <1>10, <1>11 DEF Alike, SameOwner
<1>13. CountInv(n.c)
  BY <1>1, <1>2, <1>3, <1>9, <1>11 DEF CountInv, Started
<1>14. OwnInv(ctl[s]) => MaySend(n.c)
  BY <1>1, <1>2, <1>12 DEF OwnInv, MaySend, SameOwner
<1> QED  BY <1>1, <1>2, <1>10, <1>12, <1>13, <1>14, AlikeRight

\* A change of fields that no invariant looks at.
LEMMA FlagRight ==
    ASSUME NEW m \in Mem, CountInv(m.c), m.c.inuse, NEW s, NEW f \in BOOLEAN,
           NEW n, \/ n = [m EXCEPT !.c.first = f]
                  \/ n = [m EXCEPT !.c.rdwr = f]
    PROVE  /\ Right(m, n, s) /\ n \in Mem /\ Alike(m, n) /\ SameOwner(m, n)
           /\ SameWork(m, n) /\ CountInv(n.c)
<1>1. m.c \in Conn
  BY DEF Mem
<1>2. CASE n = [m EXCEPT !.c.first = f]
  <2>1. PICK e : e = [m.c EXCEPT !.first = f]
    OBVIOUS
  <2>2. e \in Conn
    BY <1>1, <2>1, Zenon DEF Conn
  <2>3. /\ n.c = e /\ n.freelist = m.freelist
        /\ n.outbufs = m.outbufs /\ n.handles = m.handles
    BY <1>2, <2>1 DEF Mem
  <2>4. n \in Mem
    BY <1>2, <2>1, <2>2, <2>3 DEF Mem
  <2>5. /\ e.rd = m.c.rd /\ e.pending = m.c.pending /\ e.wr = m.c.wr
        /\ e.outprog = m.c.outprog
        /\ e.inuse = m.c.inuse /\ e.gen = m.c.gen /\ e.id = m.c.id
        /\ e.low = m.c.low /\ e.proto = m.c.proto /\ e.udata = m.c.udata
        /\ e.ready = m.c.ready
    BY <1>1, <2>1 DEF Conn
  <2>6. Alike(m, n) /\ SameOwner(m, n) /\ CountInv(n.c) /\ SameWork(m, n)
    BY <2>3, <2>4, <2>5 DEF Alike, SameOwner, CountInv, Started, SameWork
  <2> QED  BY <2>4, <2>6, AlikeRight DEF SameWork
<1>3. CASE n = [m EXCEPT !.c.rdwr = f]
  <2>1. PICK e : e = [m.c EXCEPT !.rdwr = f]
    OBVIOUS
  <2>2. e \in Conn
    BY <1>1, <2>1, Zenon DEF Conn
  <2>3. /\ n.c = e /\ n.freelist = m.freelist
        /\ n.outbufs = m.outbufs /\ n.handles = m.handles
    BY <1>3, <2>1 DEF Mem
  <2>4. n \in Mem
    BY <1>3, <2>1, <2>2, <2>3 DEF Mem
  <2>5. /\ e.rd = m.c.rd /\ e.pending = m.c.pending /\ e.wr = m.c.wr
        /\ e.outprog = m.c.outprog
        /\ e.inuse = m.c.inuse /\ e.gen = m.c.gen /\ e.id = m.c.id
        /\ e.low = m.c.low /\ e.proto = m.c.proto /\ e.udata = m.c.udata
        /\ e.ready = m.c.ready
    BY <1>1, <2>1 DEF Conn
  <2>6. Alike(m, n) /\ SameOwner(m, n) /\ CountInv(n.c) /\ SameWork(m, n)
    BY <2>3, <2>4, <2>5 DEF Alike, SameOwner, CountInv, Started, SameWork
  <2> QED  BY <2>4, <2>6, AlikeRight DEF SameWork
<1> QED  BY <1>2, <1>3

\* The flag of the first message, which stays set.
LEMMA FirstRight ==
    ASSUME NEW m \in Mem, CountInv(m.c), m.c.inuse, NEW s,
           NEW n, n = [m EXCEPT !.c.first = TRUE]
    PROVE  Right(m, n, s) /\ n \in Mem /\ n.c.inuse /\ CountInv(n.c)
<1>1. Right(m, n, s) /\ n \in Mem /\ Alike(m, n) /\ CountInv(n.c)
  <2>1. TRUE \in BOOLEAN
    OBVIOUS
  <2> QED  BY <2>1, FlagRight, Zenon
<1> QED  BY <1>1, Zenon DEF Alike

-----------------------------------------------------------------------------
(***************************************************************************)
(* The callbacks of the protocols.                                         *)
(***************************************************************************)

LEMMA AssignRight ==
    ASSUME NEW m \in Mem, CountInv(m.c), m.c.inuse, m.c.proto = "none", NEW s,
           NEW p \in {"echo", "login", "game"},
           NEW n, n = on_assign_protocol(m, p)
    PROVE  /\ Right(m, n, s) /\ n \in Mem /\ n.c.inuse /\ SameWork(m, n)
           /\ CountInv(n.c) /\ n.c.proto = p /\ n.outbufs = m.outbufs
           /\ p # "echo" => n.c.udata = "null"
<1>1. m.c \in Conn /\ m.outbufs \in Int /\ m.handles \in Int
  BY DEF Mem
<1>2. CASE p = "echo"
  <2>1. PICK h \in Int : h = m.handles + 1
    BY <1>1
  <2>2. PICK e : e = [m.c EXCEPT !.proto = p, !.udata = "handle", !.ready = TRUE]
    OBVIOUS
  <2>3. e \in Conn
    BY <1>1, <1>2, <2>2, Zenon DEF Conn
  <2>4. n = [m EXCEPT !.c.proto = p, !.c.udata = "handle", !.c.ready = TRUE,
                      !.handles = h]
    BY <1>2, <2>1 DEF on_assign_protocol
  <2>5. /\ n.c = e /\ n.freelist = m.freelist
        /\ n.outbufs = m.outbufs /\ n.handles = h
    BY <2>2, <2>4 DEF Mem
  <2>6. n \in Mem
    BY <2>2, <2>3, <2>4, <2>5 DEF Mem
  <2>7. /\ e.rd = m.c.rd /\ e.pending = m.c.pending /\ e.wr = m.c.wr
        /\ e.outprog = m.c.outprog
        /\ e.inuse = m.c.inuse /\ e.gen = m.c.gen /\ e.id = m.c.id
        /\ e.low = m.c.low /\ e.proto = "echo" /\ e.udata = "handle"
    BY <1>1, <1>2, <2>2 DEF Conn
  <2>8. Handled(m, n, s) /\ n.c.inuse /\ SameWork(m, n)
    BY <2>5, <2>6, <2>7 DEF Handled, CountInv, Started, SameWork
  <2>9. OwnInv(m.c) => /\ HeldOutbufs(m.c) = 0 /\ HeldHandles(m.c) = 0
                       /\ HeldOutbufs(n.c) = 0 /\ HeldHandles(n.c) = 1
                       /\ OwnInv(n.c)
    BY <2>5, <2>7 DEF OwnInv, HeldOutbufs, HeldHandles
  <2>10. OwnInv(m.c) => Owned(m, n)
    BY <1>1, <2>1, <2>5, <2>9 DEF Owned
  <2> QED  BY <1>2, <2>5, <2>6, <2>7, <2>8, <2>10 DEF Right, Handled
<1>3. CASE p # "echo"
  <2>2. PICK e : e = [m.c EXCEPT !.proto = p, !.udata = "null"]
    OBVIOUS
  <2>3. e \in Conn
    BY <1>1, <2>2, Zenon DEF Conn
  <2>4. n = [m EXCEPT !.c.proto = p, !.c.udata = "null"]
    BY <1>3 DEF on_assign_protocol
  <2>5. /\ n.c = e /\ n.freelist = m.freelist
        /\ n.outbufs = m.outbufs /\ n.handles = m.handles
    BY <2>2, <2>4 DEF Mem
  <2>6. n \in Mem
    BY <2>2, <2>3, <2>4, <2>5 DEF Mem
  <2>7. /\ e.rd = m.c.rd /\ e.pending = m.c.pending /\ e.wr = m.c.wr
        /\ e.outprog = m.c.outprog
        /\ e.inuse = m.c.inuse /\ e.gen = m.c.gen /\ e.id = m.c.id
        /\ e.low = m.c.low /\ e.proto = p /\ e.udata = "null"
    BY <1>1, <2>2 DEF Conn
  <2>8. Handled(m, n, s) /\ n.c.inuse /\ SameWork(m, n)
    BY <2>5, <2>6, <2>7 DEF Handled, CountInv, Started, SameWork
  <2>9. OwnInv(m.c) => /\ HeldOutbufs(m.c) = 0 /\ HeldHandles(m.c) = 0
                       /\ HeldOutbufs(n.c) = 0 /\ HeldHandles(n.c) = 0
                       /\ OwnInv(n.c)
    BY <1>3, <2>5, <2>7 DEF OwnInv, HeldOutbufs, HeldHandles
  <2>10. OwnInv(m.c) => Owned(m, n)
    BY <1>1, <2>5, <2>9 DEF Owned
  <2> QED  BY <2>5, <2>6, <2>7, <2>8, <2>10 DEF Right, Handled
<1> QED  BY <1>2, <1>3

\* The first message selects a protocol.
LEMMA SelectedRight ==
    ASSUME NEW m \in Mem, CountInv(m.c), m.c.inuse, NEW s,
           NEW p \in {"echo", "login"}, m.c.proto \in {"none", p},
           NEW n, n = Selected(m, p)
    PROVE  /\ Right(m, n, s) /\ n \in Mem /\ n.c.inuse /\ SameWork(m, n)
           /\ CountInv(n.c) /\ n.c.proto = p
<1>1. CASE m.c.proto = "none"
  BY <1>1, AssignRight DEF Selected
<1>2. CASE m.c.proto # "none"
  BY <1>2, SameRight DEF Selected, SameWork
<1> QED  BY <1>1, <1>2

\* The answer of a login.
LEMMA ReplyIs ==
    ASSUME NEW m \in Mem, CountInv(m.c), m.c.inuse, NEW s, NEW sent \in BOOLEAN,
           NEW n, n = Reply(m, sent)
    PROVE  /\ Handled(m, n, s) /\ n \in Mem /\ n.c.inuse
           /\ OwnInv(m.c) /\ m.c.proto = "login" /\ m.c.udata = "null" =>
                /\ OwnInv(n.c) /\ n.c.proto = "login" /\ n.c.udata = "outbuf"
                /\ n.outbufs = m.outbufs /\ n.handles = m.handles
<1>1. m.c \in Conn
  BY DEF Mem
<1>2. PICK k : k = [m EXCEPT !.c.udata = "outbuf"]
  OBVIOUS
<1>3. PICK e : e = [m.c EXCEPT !.udata = "outbuf"]
  OBVIOUS
<1>4. e \in Conn
  BY <1>1, <1>3, Zenon DEF Conn
<1>5. /\ k.c = e /\ k.freelist = m.freelist
      /\ k.outbufs = m.outbufs /\ k.handles = m.handles
  BY <1>2, <1>3 DEF Mem
<1>6. k \in Mem
  BY <1>2, <1>3, <1>4, <1>5 DEF Mem
<1>7. /\ e.rd = m.c.rd /\ e.pending = m.c.pending /\ e.wr = m.c.wr
      /\ e.outprog = m.c.outprog
      /\ e.inuse = m.c.inuse /\ e.gen = m.c.gen /\ e.id = m.c.id
      /\ e.low = m.c.low /\ e.proto = m.c.proto /\ e.udata = "outbuf"
  BY <1>1, <1>3 DEF Conn
<1>8. CountInv(k.c) /\ k.c.inuse
  BY <1>5, <1>7 DEF CountInv, Started
<1>9. n = connection_send(k, sent)
  BY <1>2 DEF Reply
<1>10. /\ n \in Mem /\ n.c.inuse /\ SameOwner(k, n) /\ Handled(k, n, s)
       /\ OwnInv(k.c) /\ MaySend(k.c) => Owned(k, n)
  BY <1>6, <1>8, <1>9, SendRight
<1>11. Handled(m, n, s)
  BY <1>5, <1>7, <1>10 DEF Handled
<1>12. ASSUME OwnInv(m.c), m.c.proto = "login", m.c.udata = "null"
       PROVE  /\ OwnInv(n.c) /\ n.c.proto = "login" /\ n.c.udata = "outbuf"
              /\ n.outbufs = m.outbufs /\ n.handles = m.handles
  <2>1. OwnInv(k.c) /\ MaySend(k.c)
    BY <1>5, <1>7, <1>8, <1>12 DEF OwnInv, MaySend
  <2>2. n.c.proto = "login" /\ n.c.udata = "outbuf"
    BY <1>5, <1>7, <1>10, <1>12 DEF SameOwner
  <2>3. /\ HeldOutbufs(n.c) = 1 /\ HeldHandles(n.c) = 0
        /\ HeldOutbufs(k.c) = 1 /\ HeldHandles(k.c) = 0
    BY <1>5, <1>7, <1>8, <1>10, <1>12, <2>2 DEF HeldOutbufs, HeldHandles
  <2>4. /\ n.outbufs - 1 = k.outbufs - 1 /\ n.handles - 0 = k.handles - 0
        /\ OwnInv(n.c)
    BY <1>10, <2>1, <2>3 DEF Owned
  <2>5. /\ n.outbufs \in Int /\ n.handles \in Int
        /\ k.outbufs \in Int /\ k.handles \in Int
    BY <1>6, <1>10 DEF Mem
  <2> QED  BY <1>5, <2>2, <2>4, <2>5
<1> QED  BY <1>10, <1>11, <1>12

\* on_write, when the operation that has ended may have been started.
LEMMA OnWriteRight ==
    ASSUME NEW m \in Mem, CountInv(m.c), m.c.inuse, m.c.wr = "none",
           NEW s \in Slots, NEW n, n = on_write(m, s)
    PROVE  /\ Handled(m, n, s) /\ n \in Mem
           /\ OwnInv(m.c) /\ MaySend(m.c) => Owned(m, n)
<1>1. m.c \in Conn /\ m.outbufs \in Int
  BY DEF Mem
<1>2. CASE m.c.proto = "echo"
  <2>1. n = [m EXCEPT !.c.ready = TRUE]
    BY <1>2 DEF on_write
  <2>2. PICK e : e = [m.c EXCEPT !.ready = TRUE]
    OBVIOUS
  <2>3. e \in Conn
    BY <1>1, <2>2, Zenon DEF Conn
  <2>4. /\ n.c = e /\ n.freelist = m.freelist
        /\ n.outbufs = m.outbufs /\ n.handles = m.handles
    BY <2>1, <2>2 DEF Mem
  <2>5. n \in Mem
    BY <2>1, <2>2, <2>3, <2>4 DEF Mem
  <2>6. /\ e.rd = m.c.rd /\ e.pending = m.c.pending /\ e.wr = m.c.wr
        /\ e.outprog = m.c.outprog
        /\ e.inuse = m.c.inuse /\ e.gen = m.c.gen /\ e.id = m.c.id
        /\ e.low = m.c.low /\ e.proto = m.c.proto /\ e.udata = m.c.udata
    BY <1>1, <2>2 DEF Conn
  <2>7. Handled(m, n, s)
    BY <2>4, <2>5, <2>6 DEF Handled, CountInv, Started
  <2>8. OwnInv(m.c) => Owned(m, n)
    BY <2>4, <2>6 DEF Owned, OwnInv, HeldOutbufs, HeldHandles
  <2> QED  BY <2>5, <2>7, <2>8
<1>3. CASE m.c.proto = "login"
  <2>1. PICK b \in Int : b = m.outbufs - 1
    BY <1>1
  <2>2. PICK k : k = [m EXCEPT !.outbufs = b, !.c.udata = "null"]
    OBVIOUS
  <2>3. PICK e : e = [m.c EXCEPT !.udata = "null"]
    OBVIOUS
  <2>4. e \in Conn
    BY <1>1, <2>3, Zenon DEF Conn
  <2>5. /\ k.c = e /\ k.freelist = m.freelist
        /\ k.outbufs = b /\ k.handles = m.handles
    BY <2>2, <2>3 DEF Mem
  <2>6. k \in Mem
    BY <2>2, <2>3, <2>4, <2>5 DEF Mem
  <2>7. /\ e.rd = m.c.rd /\ e.pending = m.c.pending /\ e.wr = m.c.wr
        /\ e.outprog = m.c.outprog
        /\ e.inuse = m.c.inuse /\ e.gen = m.c.gen /\ e.id = m.c.id
        /\ e.low = m.c.low /\ e.proto = m.c.proto /\ e.udata = "null"
    BY <1>1, <2>3 DEF Conn
  <2>8. CountInv(k.c) /\ k.c.inuse
    BY <2>5, <2>7 DEF CountInv, Started
  <2>9. n = internal_start_close_operation(k, s, FALSE)
    BY <1>3, <2>1, <2>2 DEF on_write, internal_close
  <2>10. Right(k, n, s) /\ n \in Mem
    BY <2>6, <2>8, <2>9, StartCloseRight
  <2>11. Handled(m, n, s)
    BY <2>5, <2>7, <2>10 DEF Right, Handled
  <2>12. ASSUME OwnInv(m.c), MaySend(m.c) PROVE Owned(m, n)
    <3>1. /\ OwnInv(k.c)
          /\ HeldOutbufs(m.c) = 1 /\ HeldHandles(m.c) = 0
          /\ HeldOutbufs(k.c) = 0 /\ HeldHandles(k.c) = 0
      BY <1>3, <2>5, <2>7, <2>8, <2>12
         DEF OwnInv, MaySend, HeldOutbufs, HeldHandles
    <3>2. Owned(k, n) /\ m.c.udata # "null"
      BY <1>3, <2>10, <2>12, <3>1 DEF Right, MaySend
    <3>3. k.outbufs - 0 = m.outbufs - 1 /\ k.handles = m.handles
      BY <1>1, <2>1, <2>5
    <3> QED  BY <3>1, <3>2, <3>3 DEF Owned
  <2> QED  BY <2>10, <2>11, <2>12
<1>4. CASE m.c.proto # "echo" /\ m.c.proto # "login"
  <2>1. n = m
    BY <1>4 DEF on_write
  <2> QED  BY <2>1, SameRight DEF Right
<1> QED  BY <1>2, <1>3, <1>4

\* echo answers when its buffer is free.
LEMMA EchoRight ==
    ASSUME NEW m \in Mem, CountInv(m.c), m.c.inuse, m.c.proto = "echo",
           NEW s, NEW sent \in BOOLEAN, NEW k, k = connection_send(m, sent),
           NEW n, n = IF m.c.ready THEN [k EXCEPT !.c.ready = k.c.wr = m.c.wr]
                                   ELSE m
    PROVE  /\ Right(m, n, s) /\ n \in Mem /\ n.c.inuse /\ CountInv(n.c)
           /\ n.c.rd = m.c.rd
<1>1. CASE ~m.c.ready
  <2>1. n = m
    BY <1>1
  <2> QED  BY <2>1, SameRight
<1>2. CASE m.c.ready
  <2>1. /\ k \in Mem /\ k.c \in Conn /\ Handled(m, k, s) /\ SameOwner(m, k)
        /\ k.c.inuse /\ k.c.rd = m.c.rd /\ k.outbufs = m.outbufs
        /\ k.handles = m.handles
        /\ k.c.wr # "posted" \/ (m.c.wr # "posted" \/ k = m)
    <3>1. CASE ~m.c.outprog /\ sent
      <4>1. m.c.wr = "none"
        BY <3>1 DEF CountInv, Mem, Conn
      <4>2. k = internal_start_async_write(m)
        BY <3>1 DEF connection_send
      <4>3. /\ k \in Mem /\ Alike(m, k) /\ SameOwner(m, k) /\ k.c.rd = m.c.rd
        BY <4>1, <4>2, StartWriteIs
      <4>4. Handled(m, k, s)
        BY <4>1, <4>2, StartWriteRight
      <4> QED  BY <4>1, <4>3, <4>4 DEF Alike, Mem
    <3>2. CASE ~(~m.c.outprog /\ sent)
      <4>1. k = m
        BY <3>2 DEF connection_send
      <4> QED  BY <4>1, SameRight DEF Right, SameOwner, Mem
    <3> QED  BY <3>1, <3>2
  <2>2. PICK f \in BOOLEAN : f = (k.c.wr = m.c.wr)
    OBVIOUS
  <2>3. n = [k EXCEPT !.c.ready = f]
    BY <1>2, <2>2
  <2>4. PICK e : e = [k.c EXCEPT !.ready = f]
    OBVIOUS
  <2>5. e \in Conn
    BY <2>1, <2>4, Zenon DEF Conn
  <2>6. /\ n.c = e /\ n.freelist = k.freelist
        /\ n.outbufs = k.outbufs /\ n.handles = k.handles
    BY <2>1, <2>3, <2>4 DEF Mem
  <2>7. n \in Mem
    BY <2>1, <2>3, <2>4, <2>5, <2>6 DEF Mem
  <2>8. /\ e.rd = k.c.rd /\ e.pending = k.c.pending /\ e.wr = k.c.wr
        /\ e.outprog = k.c.outprog
        /\ e.inuse = k.c.inuse /\ e.gen = k.c.gen /\ e.id = k.c.id
        /\ e.low = k.c.low /\ e.proto = k.c.proto /\ e.udata = k.c.udata
        /\ e.ready = f
    BY <2>1, <2>4 DEF Conn
  <2>9. Handled(m, n, s) /\ n.c.inuse /\ CountInv(n.c) /\ n.c.rd = m.c.rd
    BY <2>1, <2>6, <2>7, <2>8 DEF Handled, CountInv, Started
  <2>10. ASSUME OwnInv(m.c) PROVE Owned(m, n)
    <3>1. m.c.wr # "posted" /\ m.c.udata # "outbuf"
      BY <1>2, <2>10 DEF OwnInv
    <3>2. OwnInv(n.c)
      BY <2>1, <2>2, <2>6, <2>8, <3>1 DEF OwnInv, SameOwner
    <3>3. /\ HeldOutbufs(n.c) = HeldOutbufs(m.c)
          /\ HeldHandles(n.c) = HeldHandles(m.c)
      BY <2>1, <2>6, <2>8 DEF HeldOutbufs, HeldHandles, SameOwner
    <3> QED  BY <2>1, <2>6, <3>2, <3>3 DEF Owned
  <2> QED  BY <2>7, <2>9, <2>10 DEF Right
<1> QED  BY <1>1, <1>2

-----------------------------------------------------------------------------
(***************************************************************************)
(* The handlers of completions.                                            *)
(***************************************************************************)

\* A handler does right by the connection in s.
Works(s) == \E n \in Mem : Commit(s, n) /\ Right(At(s), n, s)

LEMMA ReadWorks ==
    ASSUME TypePart, NEW s \in Slots, CountInv(ctl[s]),
           ReadStep(s), ~LoginQueued(s)
    PROVE  Works(s) /\ UNCHANGED Rest /\ ctl[s].inuse
<1>1. /\ ctl[s].rd # "none" /\ UNCHANGED Rest
  BY DEF ReadStep, ReadWhileClosing, ReadFailed, ReadRejected, ReadLength,
         UnknownMessage, EchoMessage, GameMessage, LoginMalformed, LoginRefused,
         Reading, BodyFor
<1>2. PICK o : o = At(s)
  OBVIOUS
<1>3. /\ o \in Mem /\ o.c = ctl[s] /\ o.c \in Conn
  BY <1>2, AtIs
<1>4. PICK m : m = ReadCompleted(s)
  OBVIOUS
<1>5. /\ Right(o, m, s) /\ m \in Mem /\ m.c.inuse /\ m.c.rd = "none"
      /\ SameOwner(o, m) /\ CountInv(m.c)
  BY <1>1, <1>2, <1>4, ReadCompletedRight
<1>6. o.c.inuse /\ ctl[s].rd \in {"length", "body"}
  BY <1>1, <1>3 DEF CountInv, Conn
<1>7. ASSUME NEW n \in Mem, Right(m, n, s), Commit(s, n) PROVE Works(s)
  BY <1>2, <1>3, <1>5, <1>7, RightTwice DEF Works
<1>8. CASE ReadWhileClosing(s)
  <2>1. PICK n : n = ClosingStep(m, s)
    OBVIOUS
  <2>2. Right(m, n, s) /\ n \in Mem
    BY <1>5, <2>1, CloseOperationRight, SameRight DEF ClosingStep
  <2> QED  BY <1>1, <1>3, <1>4, <1>6, <1>7, <1>8, <2>1, <2>2 DEF ReadWhileClosing
<1>9. CASE ReadFailed(s)
  <2>1. PICK started \in BOOLEAN :
          Commit(s, internal_async_read(m, s, ctl[s].rd, started))
    BY <1>4, <1>9 DEF ReadFailed
  <2>2. PICK n : n = internal_async_read(m, s, ctl[s].rd, started)
    OBVIOUS
  <2>3. Right(m, n, s) /\ n \in Mem
    BY <1>5, <1>6, <2>2, AsyncReadRight
  <2> QED  BY <1>1, <1>3, <1>6, <1>7, <2>1, <2>2, <2>3
<1>10. CASE ReadRejected(s) \/ UnknownMessage(s)
  <2>1. Commit(s, internal_abort(m, s))
    BY <1>4, <1>10 DEF ReadRejected, UnknownMessage
  <2>2. PICK n : n = internal_start_close_operation(m, s, TRUE)
    OBVIOUS
  <2>3. Right(m, n, s) /\ n \in Mem
    BY <1>5, <2>2, StartCloseRight
  <2> QED  BY <1>1, <1>3, <1>6, <1>7, <2>1, <2>2, <2>3 DEF internal_abort
<1>11. CASE ReadLength(s)
  <2>1. PICK started \in BOOLEAN :
          Commit(s, internal_async_read(m, s, "body", started))
    BY <1>4, <1>11 DEF ReadLength
  <2>2. PICK n : n = internal_async_read(m, s, "body", started)
    OBVIOUS
  <2>3. Right(m, n, s) /\ n \in Mem
    BY <1>5, <2>2, AsyncReadRight
  <2> QED  BY <1>1, <1>3, <1>6, <1>7, <2>1, <2>2, <2>3
<1>12. CASE EchoMessage(s)
  <2>1. PICK q : q = Selected(m, "echo")
    OBVIOUS
  <2>2. ctl[s].proto \in {"none", "echo"} /\ m.c.proto = ctl[s].proto
    BY <1>3, <1>5, <1>12 DEF EchoMessage, BodyFor, SameOwner
  <2>3. /\ Right(m, q, s) /\ q \in Mem /\ q.c.inuse /\ SameWork(m, q)
        /\ CountInv(q.c) /\ q.c.proto = "echo"
    BY <1>5, <2>1, <2>2, SelectedRight
  <2>4. PICK sent \in BOOLEAN, started \in BOOLEAN :
          LET k == connection_send(q, sent)
              e == IF q.c.ready THEN [k EXCEPT !.c.ready = k.c.wr = q.c.wr] ELSE q
              f == [e EXCEPT !.c.first = TRUE]
          IN  Commit(s, internal_async_read(f, s, "length", started))
    BY <1>4, <1>12, <2>1, Zenon DEF EchoMessage
  <2>5. PICK k : k = connection_send(q, sent)
    OBVIOUS
  <2>6. PICK e : e = IF q.c.ready THEN [k EXCEPT !.c.ready = k.c.wr = q.c.wr] ELSE q
    OBVIOUS
  <2>7. /\ Right(q, e, s) /\ e \in Mem /\ e.c.inuse /\ CountInv(e.c)
        /\ e.c.rd = "none"
    BY <1>5, <2>3, <2>5, <2>6, EchoRight DEF SameWork
  <2>8. PICK f : f = [e EXCEPT !.c.first = TRUE]
    OBVIOUS
  <2>9. /\ Right(e, f, s) /\ f \in Mem /\ f.c.inuse /\ CountInv(f.c)
        /\ f.c.rd = "none"
    <3>1. /\ Right(e, f, s) /\ f \in Mem /\ Alike(e, f) /\ SameWork(e, f)
          /\ CountInv(f.c)
      BY <2>7, <2>8, FlagRight
    <3> QED  BY <2>7, <3>1 DEF SameWork, Alike
  <2>10. PICK n : n = internal_async_read(f, s, "length", started)
    OBVIOUS
  <2>11. Right(f, n, s) /\ n \in Mem
    BY <2>9, <2>10, AsyncReadRight
  <2>12. Commit(s, n)
    BY <2>4, <2>5, <2>6, <2>8, <2>10, Zenon
  <2>13. Right(e, n, s)
    BY <2>7, <2>9, <2>11, RightTwice
  <2>14. Right(q, n, s)
    BY <2>3, <2>7, <2>11, <2>13, RightTwice
  <2>15. Right(m, n, s)
    BY <1>5, <2>3, <2>11, <2>14, RightTwice
  <2> QED  BY <1>1, <1>3, <1>6, <1>7, <2>11, <2>12, <2>15
<1>13. CASE GameMessage(s)
  <2>1. PICK f : f = [m EXCEPT !.c.first = TRUE]
    OBVIOUS
  <2>2. Right(m, f, s) /\ f \in Mem /\ f.c.inuse /\ CountInv(f.c)
    BY <1>5, <2>1, FirstRight, Zenon
  <2>3. PICK n : n = internal_start_close_operation(f, s, FALSE)
    OBVIOUS
  <2>4. Right(f, n, s) /\ n \in Mem
    BY <2>2, <2>3, StartCloseRight
  <2>5. Commit(s, n)
    BY <1>4, <1>13, <2>1, <2>3 DEF GameMessage, internal_close
  <2>6. Right(m, n, s)
    BY <1>5, <2>2, <2>4, RightTwice
  <2> QED  BY <1>1, <1>3, <1>6, <1>7, <2>4, <2>5, <2>6
<1>14. CASE LoginMalformed(s)
  <2>1. PICK q : q = Selected(m, "login")
    OBVIOUS
  <2>2. m.c.proto = "none"
    BY <1>3, <1>5, <1>14 DEF LoginMalformed, BodyFor, SameOwner
  <2>3. Right(m, q, s) /\ q \in Mem /\ q.c.inuse /\ CountInv(q.c)
    BY <1>5, <2>1, <2>2, SelectedRight
  <2>4. PICK f : f = [q EXCEPT !.c.first = TRUE]
    OBVIOUS
  <2>5. Right(q, f, s) /\ f \in Mem /\ f.c.inuse /\ CountInv(f.c)
    BY <2>3, <2>4, FirstRight, Zenon
  <2>6. PICK n : n = internal_start_close_operation(f, s, FALSE)
    OBVIOUS
  <2>7. Right(f, n, s) /\ n \in Mem
    BY <2>5, <2>6, StartCloseRight
  <2>8. Commit(s, n)
    BY <1>4, <1>14, <2>1, <2>4, <2>6 DEF LoginMalformed, internal_close
  <2>9. Right(q, n, s)
    BY <2>3, <2>5, <2>7, RightTwice
  <2>10. Right(m, n, s)
    BY <1>5, <2>3, <2>7, <2>9, RightTwice
  <2> QED  BY <1>1, <1>3, <1>6, <1>7, <2>7, <2>8, <2>10
<1>15. CASE LoginRefused(s)
  <2>1. PICK q : q = Selected(m, "login")
    OBVIOUS
  <2>2. m.c.proto = "none"
    BY <1>3, <1>5, <1>15 DEF LoginRefused, BodyFor, SameOwner
  <2>3. /\ Right(m, q, s) /\ q \in Mem /\ q.c.inuse /\ CountInv(q.c)
        /\ q.c.proto = "login" /\ q.c.udata = "null" /\ q.outbufs = m.outbufs
    BY <1>5, <2>1, <2>2, AssignRight DEF Selected
  <2>4. PICK f : f = [q EXCEPT !.c.first = TRUE]
    OBVIOUS
  <2>5. /\ Right(q, f, s) /\ f \in Mem /\ f.c.inuse /\ CountInv(f.c)
        /\ Alike(q, f) /\ SameOwner(q, f)
    <3>1. /\ Right(q, f, s) /\ f \in Mem /\ Alike(q, f) /\ SameOwner(q, f)
          /\ CountInv(f.c)
      BY <2>3, <2>4, FlagRight
    <3> QED  BY <2>3, <3>1 DEF Alike
  <2>6. PICK b \in Int : b = f.outbufs + 1
    BY <2>5 DEF Mem
  <2>7. PICK g : g = [f EXCEPT !.outbufs = b]
    OBVIOUS
  <2>8. /\ g \in Mem /\ g.c = f.c /\ g.freelist = f.freelist
        /\ g.outbufs = b /\ g.handles = f.handles
    BY <2>5, <2>7 DEF Mem
  <2>9. g = [q EXCEPT !.c.first = TRUE, !.outbufs = @ + 1]
    <3>1. f.outbufs = q.outbufs
      BY <2>5 DEF Alike
    <3> QED  BY <2>3, <2>4, <2>6, <2>7, <3>1 DEF Mem
  <2>10. PICK sent \in BOOLEAN : Commit(s, internal_close(Reply(g, sent), s))
    BY <1>4, <1>15, <2>1, <2>9, Zenon DEF LoginRefused
  <2>11. PICK r : r = Reply(g, sent)
    OBVIOUS
  <2>12. /\ Handled(g, r, s) /\ r \in Mem /\ r.c.inuse
         /\ OwnInv(g.c) =>
              /\ OwnInv(r.c) /\ r.c.proto = "login" /\ r.c.udata = "outbuf"
              /\ r.outbufs = g.outbufs /\ r.handles = g.handles
    <3>1. CountInv(g.c) /\ g.c.inuse /\ g.c.proto = "login" /\ g.c.udata = "null"
      BY <2>3, <2>5, <2>8 DEF SameOwner
    <3> QED  BY <2>8, <2>11, <3>1, ReplyIs
  <2>13. Right(m, f, s)
    BY <1>5, <2>3, <2>5, RightTwice
  <2>14. Handled(m, r, s) /\ CountInv(r.c)
    BY <2>5, <2>8, <2>12, <2>13 DEF Right, Handled
  <2>15. ASSUME OwnInv(m.c) PROVE Owned(m, r)
    <3>1. Owned(m, f) /\ OwnInv(g.c)
      BY <2>8, <2>13, <2>15 DEF Right, Owned
    <3>2. /\ HeldOutbufs(f.c) = 0 /\ HeldHandles(f.c) = 0
          /\ HeldOutbufs(r.c) = 1 /\ HeldHandles(r.c) = 0
      BY <2>3, <2>5, <2>12, <3>1 DEF HeldOutbufs, HeldHandles, SameOwner
    <3>3. r.outbufs - 1 = f.outbufs - 0 /\ r.handles = f.handles
      <4>1. f.outbufs \in Int
        BY <2>5 DEF Mem
      <4> QED  BY <2>6, <2>8, <2>12, <3>1, <4>1
    <3> QED  BY <2>2, <2>12, <3>1, <3>2, <3>3 DEF Owned
  <2>16. Right(m, r, s)
    BY <2>14, <2>15 DEF Right
  <2>17. PICK n : n = internal_start_close_operation(r, s, FALSE)
    OBVIOUS
  <2>18. Right(r, n, s) /\ n \in Mem
    BY <2>12, <2>14, <2>17, StartCloseRight
  <2>19. Right(m, n, s)
    BY <1>5, <2>12, <2>16, <2>18, RightTwice
  <2>20. Commit(s, n)
    BY <2>10, <2>11, <2>17 DEF internal_close
  <2> QED  BY <1>1, <1>3, <1>6, <1>7, <2>18, <2>19, <2>20
<1> QED
  BY <1>8, <1>9, <1>10, <1>11, <1>12, <1>13, <1>14, <1>15 DEF ReadStep

LEMMA LoginQueuedWorks ==
    ASSUME TypePart, NEW s \in Slots, CountInv(ctl[s]), LoginQueued(s)
    PROVE  /\ ctl[s].inuse /\ ctl[s].proto = "none"
           /\ \E n \in Mem : /\ Commit(s, n) /\ Right(At(s), n, s) /\ n.c.inuse
                             /\ n.c.proto = "login" /\ n.c.udata = "null"
<1>1. /\ ctl[s].rd # "none" /\ ctl[s].proto = "none"
  BY DEF LoginQueued, Reading, BodyFor
<1>2. PICK o : o = At(s)
  OBVIOUS
<1>3. /\ o \in Mem /\ o.c = ctl[s] /\ o.c \in Conn
  BY <1>2, AtIs
<1>4. PICK m : m = ReadCompleted(s)
  OBVIOUS
<1>5. /\ Right(o, m, s) /\ m \in Mem /\ m.c.inuse /\ m.c.proto = "none"
      /\ CountInv(m.c)
  BY <1>1, <1>2, <1>3, <1>4, ReadCompletedRight DEF SameOwner
<1>6. PICK q : q = Selected(m, "login")
  OBVIOUS
<1>7. /\ Right(m, q, s) /\ q \in Mem /\ q.c.inuse /\ CountInv(q.c)
      /\ q.c.proto = "login" /\ q.c.udata = "null"
  BY <1>5, <1>6, AssignRight DEF Selected
<1>8. PICK n : n = [q EXCEPT !.c.first = TRUE]
  OBVIOUS
<1>9. /\ Right(q, n, s) /\ n \in Mem /\ Alike(q, n) /\ SameOwner(q, n)
  BY <1>7, <1>8, FlagRight
<1>10. n.c.inuse /\ n.c.proto = "login" /\ n.c.udata = "null"
  BY <1>7, <1>9 DEF Alike, SameOwner
<1>11. Commit(s, n)
  BY <1>4, <1>6, <1>8 DEF LoginQueued
<1>12. Right(m, n, s)
  BY <1>5, <1>7, <1>9, RightTwice
<1>13. Right(o, n, s)
  BY <1>3, <1>5, <1>9, <1>12, RightTwice
<1>14. ctl[s].inuse
  BY <1>1 DEF CountInv
<1> QED  BY <1>1, <1>2, <1>9, <1>10, <1>11, <1>13, <1>14

LEMMA WriteWorks ==
    ASSUME TypePart, NEW s \in Slots, CountInv(ctl[s]), WriteStep(s)
    PROVE  Works(s) /\ UNCHANGED Rest /\ ctl[s].inuse
<1>1. ctl[s].wr = "posted" /\ UNCHANGED Rest
  BY DEF WriteStep, WriteWhileClosing, WriteFailed, WriteRejected, WriteDone,
         Writing
<1>2. PICK o : o = At(s)
  OBVIOUS
<1>3. /\ o \in Mem /\ o.c = ctl[s] /\ o.c \in Conn
  BY <1>2, AtIs
<1>4. PICK m : m = WriteCompleted(s)
  OBVIOUS
<1>5. /\ Right(o, m, s) /\ m \in Mem /\ m.c.inuse /\ m.c.wr = "none"
      /\ SameOwner(o, m) /\ CountInv(m.c)
      /\ OwnInv(o.c) => MaySend(m.c)
  BY <1>1, <1>2, <1>3, <1>4, WriteCompletedRight
<1>6. ctl[s].inuse
  BY <1>1 DEF CountInv
<1>7. ASSUME NEW n \in Mem, Handled(m, n, s), Commit(s, n),
             OwnInv(m.c) /\ MaySend(m.c) => Owned(m, n)
      PROVE  Works(s)
  <2>1. Handled(o, n, s)
    BY <1>5, <1>7 DEF Right, Handled
  <2>2. ASSUME OwnInv(o.c) PROVE Owned(o, n)
    <3>1. Owned(o, m) /\ MaySend(m.c)
      BY <1>5, <2>2 DEF Right
    <3>2. Owned(m, n)
      BY <1>7, <3>1 DEF Owned
    <3>3. /\ o.outbufs \in Int /\ m.outbufs \in Int /\ n.outbufs \in Int
          /\ o.handles \in Int /\ m.handles \in Int /\ n.handles \in Int
      BY <1>3, <1>5, <1>7 DEF Mem
    <3> QED  BY <1>5, <3>1, <3>2, <3>3 DEF Owned
  <2> QED  BY <1>2, <1>7, <2>1, <2>2 DEF Works, Right
<1>8. CASE WriteWhileClosing(s)
  <2>1. PICK n : n = ClosingStep(m, s)
    OBVIOUS
  <2>2. Right(m, n, s) /\ n \in Mem
    BY <1>5, <2>1, CloseOperationRight, SameRight DEF ClosingStep
  <2> QED  BY <1>1, <1>4, <1>6, <1>7, <1>8, <2>1, <2>2 DEF WriteWhileClosing, Right
<1>9. CASE WriteFailed(s)
  <2>1. PICK started \in BOOLEAN : Commit(s, internal_async_write(m, s, started))
    BY <1>4, <1>9 DEF WriteFailed
  <2>2. PICK n : n = internal_async_write(m, s, started)
    OBVIOUS
  <2>3. CASE started
    <3>1. n = internal_start_async_write(m)
      BY <2>2, <2>3 DEF internal_async_write
    <3>2. /\ n \in Mem /\ Handled(m, n, s)
          /\ OwnInv(m.c) /\ MaySend(m.c) => Owned(m, n)
      BY <1>5, <3>1, StartWriteRight
    <3> QED  BY <1>1, <1>6, <1>7, <2>1, <2>2, <3>2
  <2>4. CASE ~started
    <3>1. n = internal_start_close_operation(m, s, TRUE)
      BY <2>2, <2>4 DEF internal_async_write, internal_abort
    <3>2. Right(m, n, s) /\ n \in Mem
      BY <1>5, <3>1, StartCloseRight
    <3> QED  BY <1>1, <1>6, <1>7, <2>1, <2>2, <3>2 DEF Right
  <2> QED  BY <2>3, <2>4
<1>10. CASE WriteRejected(s)
  <2>1. Commit(s, internal_abort(m, s))
    BY <1>4, <1>10 DEF WriteRejected
  <2>2. PICK n : n = internal_start_close_operation(m, s, TRUE)
    OBVIOUS
  <2>3. Right(m, n, s) /\ n \in Mem
    BY <1>5, <2>2, StartCloseRight
  <2> QED  BY <1>1, <1>6, <1>7, <2>1, <2>2, <2>3 DEF internal_abort, Right
<1>11. CASE WriteDone(s)
  <2>1. PICK k : k = [m EXCEPT !.c.outprog = FALSE]
    OBVIOUS
  <2>2. PICK e : e = [m.c EXCEPT !.outprog = FALSE]
    OBVIOUS
  <2>3. m.c \in Conn
    BY <1>5 DEF Mem
  <2>4. e \in Conn
    BY <2>2, <2>3, Zenon DEF Conn
  <2>5. /\ k.c = e /\ k.freelist = m.freelist
        /\ k.outbufs = m.outbufs /\ k.handles = m.handles
    BY <1>5, <2>1, <2>2 DEF Mem
  <2>6. k \in Mem
    BY <1>5, <2>1, <2>2, <2>4, <2>5 DEF Mem
  <2>7. /\ e.rd = m.c.rd /\ e.pending = m.c.pending /\ e.wr = m.c.wr
        /\ e.inuse = m.c.inuse /\ e.gen = m.c.gen /\ e.id = m.c.id
        /\ e.low = m.c.low /\ e.proto = m.c.proto /\ e.udata = m.c.udata
        /\ e.ready = m.c.ready
    BY <2>2, <2>3 DEF Conn
  <2>8. Alike(m, k) /\ SameOwner(m, k) /\ CountInv(k.c) /\ k.c.wr = "none"
        /\ k.c.inuse
    BY <1>5, <2>5, <2>6, <2>7 DEF Alike, SameOwner, CountInv, Started
  <2>9. Right(m, k, s)
    BY <1>5, <2>6, <2>8, AlikeRight
  <2>10. PICK n : n = on_write(k, s)
    OBVIOUS
  <2>11. /\ Handled(k, n, s) /\ n \in Mem
         /\ OwnInv(k.c) /\ MaySend(k.c) => Owned(k, n)
    BY <2>6, <2>8, <2>10, OnWriteRight
  <2>12. Handled(m, n, s)
    BY <2>8, <2>11 DEF Handled, Alike
  <2>13. ASSUME OwnInv(m.c), MaySend(m.c) PROVE Owned(m, n)
    <3>1. OwnInv(k.c) /\ MaySend(k.c)
      BY <2>8, <2>9, <2>13 DEF Right, Owned, MaySend, SameOwner
    <3>2. /\ HeldOutbufs(k.c) = HeldOutbufs(m.c)
          /\ HeldHandles(k.c) = HeldHandles(m.c)
      BY <2>8 DEF Alike, SameOwner, HeldOutbufs, HeldHandles
    <3> QED  BY <2>5, <2>8, <2>11, <3>1, <3>2 DEF Owned, SameOwner
  <2>14. Commit(s, n)
    BY <1>4, <1>11, <2>1, <2>10 DEF WriteDone
  <2> QED  BY <1>1, <1>6, <1>7, <2>11, <2>12, <2>13, <2>14
<1> QED  BY <1>8, <1>9, <1>10, <1>11 DEF WriteStep

LEMMA CloseWorks ==
    ASSUME TypePart, NEW s \in Slots, CountInv(ctl[s]), NEW abort \in BOOLEAN,
           connection_close(s, abort)
    PROVE  Works(s) /\ UNCHANGED Rest /\ ctl[s].inuse
<1>1. PICK o : o = At(s)
  OBVIOUS
<1>2. /\ o \in Mem /\ o.c = ctl[s] /\ ctl[s].inuse /\ UNCHANGED Rest
  BY <1>1, AtIs DEF connection_close
<1>3. PICK n : n = internal_start_close_operation(o, s, abort)
  OBVIOUS
<1>4. Right(o, n, s) /\ n \in Mem
  BY <1>2, <1>3, StartCloseRight
<1>5. Commit(s, n)
  BY <1>1, <1>3 DEF connection_close
<1> QED  BY <1>1, <1>2, <1>4, <1>5 DEF Works

\* A turn of connmgr_timeout_check.
LEMMA TimeoutWorks ==
    ASSUME TypePart, NEW s \in Slots, CountInv(ctl[s]), TimeoutTurn(s),
           ctl[s].inuse
    PROVE  Works(s)
<1>1. PICK o : o = At(s)
  OBVIOUS
<1>2. /\ o \in Mem /\ o.c = ctl[s]
  BY <1>1, AtIs
<1>3. CASE ctl[s].rdwr
  <2>1. PICK n : n = [o EXCEPT !.c.rdwr = FALSE]
    OBVIOUS
  <2>2. Right(o, n, s) /\ n \in Mem
    BY <1>2, <2>1, FlagRight
  <2>3. Commit(s, n)
    BY <1>1, <1>3, <2>1 DEF TimeoutTurn
  <2> QED  BY <1>1, <2>2, <2>3 DEF Works
<1>4. CASE ~ctl[s].rdwr
  <2>1. PICK n : n = internal_start_close_operation(o, s, TRUE)
    OBVIOUS
  <2>2. Right(o, n, s) /\ n \in Mem
    BY <1>2, <2>1, StartCloseRight
  <2>3. Commit(s, n)
    BY <1>1, <1>4, <2>1 DEF TimeoutTurn, internal_abort
  <2> QED  BY <1>1, <2>2, <2>3 DEF Works
<1> QED  BY <1>3, <1>4

-----------------------------------------------------------------------------
(***************************************************************************)
(* The freelist.                                                           *)
(***************************************************************************)

LEMMA TableSize ==
    /\ MaxConnections \in Nat \ {0} /\ Nil \notin Slots
    /\ IsFiniteSet(Slots) /\ Cardinality(Slots) = MaxConnections
<1>1. MaxConnections \in Nat \ {0}
  BY TableAssumption
<1>2. Nil \notin Slots
  BY <1>1 DEF Nil, Slots
<1>3. /\ IsFiniteSet(0 .. MaxConnections - 1)
      /\ Cardinality(0 .. MaxConnections - 1)
           = IF 0 > MaxConnections - 1 THEN 0 ELSE (MaxConnections - 1) - 0 + 1
  BY <1>1, FS_Interval
<1> QED  BY <1>1, <1>2, <1>3 DEF Slots

\* A list has as many links as its set has elements.
LEMMA ListLength ==
    ASSUME NEW n \in Nat, NEW order, NEW F, NEW head, NEW tab,
           List(n, order, F, head, tab)
    PROVE  /\ IsFiniteSet(F) /\ Cardinality(F) = n /\ n <= MaxConnections
           /\ F \subseteq Slots
<1>1. F \subseteq Slots
  BY DEF List
<1>2. IsFiniteSet(F) /\ Cardinality(F) <= MaxConnections
  BY <1>1, TableSize, FS_Subset
<1>3. order \in Bijection(1 .. n, F)
  BY DEF List, Bijection, Injection, Surjection, IsInjective
<1>4. IsFiniteSet(1 .. n) /\ Cardinality(1 .. n) = n
  <2>1. /\ IsFiniteSet(1 .. n)
        /\ Cardinality(1 .. n) = IF 1 > n THEN 0 ELSE n - 1 + 1
    BY FS_Interval
  <2> QED  BY <2>1
<1>5. Cardinality(F) = n
  <2>1. ExistsBijection(1 .. n, F)
    BY <1>3 DEF ExistsBijection
  <2>2. Cardinality(F) = Cardinality(1 .. n)
    BY <1>4, <2>1, FS_Bijection
  <2> QED  BY <1>4, <2>2
<1> QED  BY <1>1, <1>2, <1>5

\* internal_free puts a slot before the list.
LEMMA ListPush ==
    ASSUME NEW n \in Nat, NEW order, NEW F, NEW head, NEW tab,
           List(n, order, F, head, tab),
           NEW s \in Slots, s \notin F, NEW new,
           new[s].low = head, \A x \in F : new[x].low = tab[x].low
    PROVE  \E o \in [1 .. n + 1 -> Slots] : List(n + 1, o, F \cup {s}, s, new)
<1> DEFINE o == [i \in 1 .. n + 1 |-> IF i = 1 THEN s ELSE order[i - 1]]
<1>1. /\ order \in [1 .. n -> Slots]
      /\ \A i, j \in 1 .. n : order[i] = order[j] => i = j
      /\ F = {order[i] : i \in 1 .. n}
      /\ head = IF n = 0 THEN Nil ELSE order[1]
      /\ \A i \in 1 .. n : tab[order[i]].low = IF i = n THEN Nil ELSE order[i + 1]
  BY DEF List
<1>2. \A i \in 1 .. n + 1 : i # 1 => i - 1 \in 1 .. n
  OBVIOUS
<1>3. o \in [1 .. n + 1 -> Slots]
  BY <1>1, <1>2
<1>4. /\ o[1] = s
      /\ \A i \in 1 .. n + 1 : i # 1 => o[i] = order[i - 1] /\ o[i] \in F
  BY <1>1, <1>2
<1>5. \A i \in 1 .. n : i + 1 \in 1 .. n + 1 /\ i + 1 # 1 /\ o[i + 1] = order[i]
  OBVIOUS
<1> HIDE DEF o
<1>6. ASSUME NEW i \in 1 .. n + 1, NEW j \in 1 .. n + 1, o[i] = o[j] PROVE i = j
  <2>1. CASE i = 1 \/ j = 1
    BY <1>4, <1>6, <2>1
  <2>2. CASE i # 1 /\ j # 1
    <3>1. i - 1 \in 1 .. n /\ j - 1 \in 1 .. n /\ order[i - 1] = order[j - 1]
      BY <1>2, <1>4, <1>6, <2>2
    <3>2. i - 1 = j - 1
      BY <1>1, <3>1
    <3> QED  BY <3>2
  <2> QED  BY <2>1, <2>2
<1>7. F \cup {s} = {o[i] : i \in 1 .. n + 1}
  <2>1. 1 \in 1 .. n + 1
    OBVIOUS
  <2>2. ASSUME NEW x \in F \cup {s} PROVE \E i \in 1 .. n + 1 : o[i] = x
    BY <1>1, <1>4, <1>5, <2>1
  <2>3. ASSUME NEW i \in 1 .. n + 1 PROVE o[i] \in F \cup {s}
    BY <1>4
  <2> QED  BY <2>2, <2>3, Zenon
<1>8. ASSUME NEW i \in 1 .. n + 1
      PROVE  new[o[i]].low = IF i = n + 1 THEN Nil ELSE o[i + 1]
  <2>1. CASE i = 1
    <3>1. CASE n = 0
      BY <1>1, <1>4, <2>1, <3>1
    <3>2. CASE n # 0
      <4>1. 1 \in 1 .. n /\ i # n + 1
        BY <2>1, <3>2
      <4> QED  BY <1>1, <1>4, <1>5, <2>1, <3>2, <4>1
    <3> QED  BY <3>1, <3>2
  <2>2. CASE i # 1
    <3>1. i - 1 \in 1 .. n /\ o[i] = order[i - 1] /\ o[i] \in F
      BY <1>2, <1>4, <2>2
    <3>2. new[o[i]].low = IF i - 1 = n THEN Nil ELSE order[(i - 1) + 1]
      BY <1>1, <3>1
    <3>3. i - 1 = n <=> i = n + 1
      OBVIOUS
    <3>4. i # n + 1 => i \in 1 .. n /\ (i - 1) + 1 = i
      OBVIOUS
    <3>5. i # n + 1 => o[i + 1] = order[(i - 1) + 1]
      BY <1>5, <3>4
    <3> QED  BY <3>2, <3>3, <3>5
  <2> QED  BY <2>1, <2>2
<1>9. n + 1 # 0
  OBVIOUS
<1> QED  BY <1>3, <1>4, <1>6, <1>7, <1>8, <1>9 DEF List

\* internal_alloc takes the first slot of the list.
LEMMA ListPop ==
    ASSUME NEW n \in Nat, NEW order, NEW F, NEW head, NEW tab,
           List(n, order, F, head, tab), head # Nil
    PROVE  /\ head \in F /\ n - 1 \in Nat
           /\ \E o \in [1 .. n - 1 -> Slots] :
                List(n - 1, o, F \ {head}, tab[head].low, tab)
<1> DEFINE o == [i \in 1 .. n - 1 |-> order[i + 1]]
<1>1. /\ order \in [1 .. n -> Slots]
      /\ \A i, j \in 1 .. n : order[i] = order[j] => i = j
      /\ F = {order[i] : i \in 1 .. n}
      /\ head = IF n = 0 THEN Nil ELSE order[1]
      /\ \A i \in 1 .. n : tab[order[i]].low = IF i = n THEN Nil ELSE order[i + 1]
  BY DEF List
<1>2. n # 0 /\ head = order[1] /\ 1 \in 1 .. n /\ n - 1 \in Nat
  BY <1>1
<1>3. \A i \in 1 .. n - 1 : /\ i + 1 \in 1 .. n /\ i + 1 # 1 /\ i \in 1 .. n
                           /\ (i + 1 = n <=> i = n - 1)
  BY <1>2
<1>4. o \in [1 .. n - 1 -> Slots] /\ \A i \in 1 .. n - 1 : o[i] = order[i + 1]
  BY <1>1, <1>3
<1> HIDE DEF o
<1>5. ASSUME NEW i \in 1 .. n - 1, NEW j \in 1 .. n - 1, o[i] = o[j] PROVE i = j
  <2>1. i + 1 = j + 1
    BY <1>1, <1>3, <1>4, <1>5
  <2> QED  BY <2>1
<1>6. F \ {head} = {o[i] : i \in 1 .. n - 1}
  <2>1. ASSUME NEW x \in F \ {head} PROVE \E i \in 1 .. n - 1 : o[i] = x
    <3>1. PICK j \in 1 .. n : order[j] = x
      BY <1>1
    <3>2. j # 1
      BY <1>2, <3>1
    <3>3. j - 1 \in 1 .. n - 1 /\ (j - 1) + 1 = j
      BY <1>2, <3>2
    <3> QED  BY <1>4, <3>1, <3>3
  <2>2. ASSUME NEW i \in 1 .. n - 1 PROVE o[i] \in F \ {head}
    <3>1. i + 1 \in 1 .. n /\ i + 1 # 1
      BY <1>3
    <3>2. order[i + 1] \in F /\ order[i + 1] # order[1]
      BY <1>1, <1>2, <3>1
    <3> QED  BY <1>2, <1>4, <3>2
  <2> QED  BY <2>1, <2>2, Zenon
<1>7. tab[head].low = IF n - 1 = 0 THEN Nil ELSE o[1]
  <2>1. tab[head].low = IF 1 = n THEN Nil ELSE order[1 + 1]
    BY <1>1, <1>2
  <2>2. 1 = n <=> n - 1 = 0
    BY <1>2
  <2>3. n - 1 # 0 => o[1] = order[1 + 1]
    <3>1. n - 1 # 0 => 1 \in 1 .. n - 1
      BY <1>2
    <3> QED  BY <1>4, <3>1
  <2> QED  BY <2>1, <2>2, <2>3
<1>8. ASSUME NEW i \in 1 .. n - 1
      PROVE  tab[o[i]].low = IF i = n - 1 THEN Nil ELSE o[i + 1]
  <2>1. tab[o[i]].low = IF i + 1 = n THEN Nil ELSE order[(i + 1) + 1]
    BY <1>1, <1>3, <1>4
  <2>2. i # n - 1 => i + 1 \in 1 .. n - 1
    BY <1>2
  <2> QED  BY <1>3, <1>4, <2>1, <2>2
<1>9. head \in F
  BY <1>1, <1>2
<1> QED  BY <1>2, <1>4, <1>5, <1>6, <1>7, <1>8, <1>9 DEF List

\* Whatever happens to other slots.
LEMMA ListSame ==
    ASSUME NEW n \in Nat, NEW order, NEW F, NEW head, NEW tab,
           List(n, order, F, head, tab), NEW new,
           \A x \in F : new[x].low = tab[x].low
    PROVE  List(n, order, F, head, new)
<1>1. \A i \in 1 .. n : order[i] \in F
  BY DEF List
<1> QED  BY <1>1 DEF List

\* The same three facts, for lists of any length.
LEMMA LinkedList ==
    ASSUME NEW F, NEW head, NEW tab
    PROVE  /\ Linked(F, head, tab) =>
                \E n \in Nat : \E order : List(n, order, F, head, tab)
           /\ \A n \in Nat : \A order : List(n, order, F, head, tab) => Linked(F, head, tab)
<1>1. ASSUME NEW n \in Nat, NEW order, List(n, order, F, head, tab)
      PROVE  Linked(F, head, tab)
  <2>1. n <= MaxConnections
    BY <1>1, ListLength
  <2>2. n \in 0 .. MaxConnections
    BY <2>1, TableSize
  <2>3. order \in [1 .. n -> Slots]
    BY <1>1 DEF List
  <2> QED  BY <1>1, <2>2, <2>3 DEF Linked
<1>2. \A n \in 0 .. MaxConnections : n \in Nat
  BY TableSize
<1> QED  BY <1>1, <1>2 DEF Linked

LEMMA LinkedPush ==
    ASSUME NEW F, NEW head, NEW tab, Linked(F, head, tab),
           NEW s \in Slots, s \notin F, NEW new,
           new[s].low = head, \A x \in F : new[x].low = tab[x].low
    PROVE  Linked(F \cup {s}, s, new)
<1>1. PICK n \in Nat : \E order : List(n, order, F, head, tab)
  BY LinkedList
<1>2. PICK order : List(n, order, F, head, tab)
  BY <1>1
<1>3. PICK o : List(n + 1, o, F \cup {s}, s, new)
  BY <1>2, ListPush
<1> QED  BY <1>3, LinkedList

LEMMA LinkedPop ==
    ASSUME NEW F, NEW head, NEW tab, Linked(F, head, tab), head # Nil
    PROVE  head \in F /\ Linked(F \ {head}, tab[head].low, tab)
<1>1. PICK n \in Nat : \E order : List(n, order, F, head, tab)
  BY LinkedList
<1>2. PICK order : List(n, order, F, head, tab)
  BY <1>1
<1>3. head \in F /\ n - 1 \in Nat
      /\ \E o : List(n - 1, o, F \ {head}, tab[head].low, tab)
  BY <1>2, ListPop
<1> QED  BY <1>3, LinkedList

LEMMA LinkedSame ==
    ASSUME NEW F, NEW head, NEW tab, Linked(F, head, tab), NEW new,
           \A x \in F : new[x].low = tab[x].low
    PROVE  Linked(F, head, new)
<1>1. PICK n \in Nat : \E order : List(n, order, F, head, tab)
  BY LinkedList
<1>2. PICK order : List(n, order, F, head, tab)
  BY <1>1
<1> QED  BY <1>2, ListSame, LinkedList

\* Only the list of no slot begins with Nil.
LEMMA LinkedNil ==
    ASSUME NEW F, NEW tab, Linked(F, Nil, tab)
    PROVE  F = {}
<1>1. PICK n \in Nat : \E order : List(n, order, F, Nil, tab)
  BY LinkedList
<1>2. PICK order : List(n, order, F, Nil, tab)
  BY <1>1
<1>3. n = 0
  <2> SUFFICES ASSUME n # 0 PROVE FALSE
    OBVIOUS
  <2>1. 1 \in 1 .. n /\ order \in [1 .. n -> Slots] /\ Nil = order[1]
    BY <1>2 DEF List
  <2> QED  BY <2>1, TableSize
<1> QED  BY <1>2, <1>3 DEF List

\* A free slot does not link to itself.
LEMMA LinkedOther ==
    ASSUME NEW F, NEW head, NEW tab, Linked(F, head, tab), NEW x \in F
    PROVE  x \in Slots /\ tab[x].low # x
<1>1. PICK n \in Nat : \E order : List(n, order, F, head, tab)
  BY LinkedList
<1>2. PICK order : List(n, order, F, head, tab)
  BY <1>1
<1>3. /\ order \in [1 .. n -> Slots]
      /\ \A i, j \in 1 .. n : order[i] = order[j] => i = j
      /\ F = {order[i] : i \in 1 .. n}
      /\ \A i \in 1 .. n : tab[order[i]].low = IF i = n THEN Nil ELSE order[i + 1]
  BY <1>2 DEF List
<1>4. PICK i \in 1 .. n : x = order[i]
  BY <1>3
<1>5. CASE i = n
  BY <1>3, <1>4, <1>5, TableSize
<1>6. CASE i # n
  <2>1. i + 1 \in 1 .. n /\ i + 1 # i
    BY <1>6
  <2> QED  BY <1>3, <1>4, <1>6, <2>1
<1> QED  BY <1>3, <1>4, <1>5, <1>6

-----------------------------------------------------------------------------
(***************************************************************************)
(* The invariant of the table is inductive.                                *)
(***************************************************************************)

\* A handler has changed slot s: it is in use, or has been put before the list
\* of the other free slots.
LEMMA SlotTableInv ==
    ASSUME TypePart, CountsExact, InPlace, NEW s \in Slots, NEW n \in Mem,
           Commit(s, n), CountInv(n.c),
           NEW F, NEW head, Linked(F, head, ctl), s \notin F,
           next_unused_slot' \in 0 .. MaxConnections,
           next_unused_slot <= next_unused_slot', s < next_unused_slot',
           F = {x \in Slots : x # s /\ x < next_unused_slot' /\ ~ctl[x].inuse},
           conns' \in 0 .. MaxConns, conns <= conns',
           \/ n.c.inuse /\ n.freelist = head /\ n.c.low = s /\ n.c.id \in 1 .. conns'
           \/ ~n.c.inuse /\ n.freelist = s /\ n.c.low = head,
           dbq' \subseteq Login, srvq' \subseteq Login, LoginsPlaced',
           scan' \in {NoScan} \cup Slots, crashed' = FALSE
    PROVE  TableInv'
<1>1. /\ ctl \in [Slots -> Conn] /\ n.c \in Conn /\ n.freelist \in 0 .. Nil
      /\ n.outbufs \in Int /\ n.handles \in Int
  BY DEF TypePart, Mem
<1>2. /\ ctl' = [ctl EXCEPT ![s] = n.c] /\ freelist' = n.freelist
      /\ outbufs' = n.outbufs /\ handles' = n.handles
  BY DEF Commit
<1>3. /\ ctl' \in [Slots -> Conn] /\ ctl'[s] = n.c
      /\ \A x \in Slots : x # s => ctl'[x] = ctl[x]
  BY <1>1, <1>2
<1>4. TypePart'
  BY <1>1, <1>2, <1>3 DEF TypePart
<1>5. CountsExact'
  BY <1>3 DEF CountsExact
<1>6. InPlace'
  <2> SUFFICES ASSUME NEW x \in Slots, ctl'[x].inuse
               PROVE  /\ ctl'[x].low = x /\ x < next_unused_slot'
                      /\ ctl'[x].id \in 1 .. conns'
    BY DEF InPlace
  <2>1. CASE x = s
    BY <1>3, <2>1
  <2>2. CASE x # s
    <3>1. ctl[x].low = x /\ x < next_unused_slot /\ ctl[x].id \in 1 .. conns
          /\ ctl'[x] = ctl[x]
      BY <1>3, <2>2 DEF InPlace
    <3>2. x < next_unused_slot'
      BY <3>1 DEF Slots, TypePart
    <3>3. ctl[x].id \in 1 .. conns'
      BY <3>1 DEF TypePart
    <3> QED  BY <3>1, <3>2, <3>3
  <2> QED  BY <2>1, <2>2
<1>7. \A x \in F : x \in Slots /\ x # s /\ ctl'[x].low = ctl[x].low
  BY <1>3
<1>8. FreeLinked'
  <2>1. CASE n.c.inuse /\ n.freelist = head
    <3>1. Free' = F /\ freelist' = head
      BY <1>2, <1>3, <2>1 DEF Free
    <3>2. Linked(F, head, ctl')
      BY <1>7, LinkedSame
    <3> QED  BY <3>1, <3>2 DEF FreeLinked
  <2>2. CASE ~n.c.inuse /\ n.freelist = s /\ n.c.low = head
    <3>1. Free' = F \cup {s} /\ freelist' = s
      BY <1>2, <1>3, <2>2 DEF Free
    <3>2. ctl'[s].low = head
      BY <1>3, <2>2
    <3>3. Linked(F \cup {s}, s, ctl')
      BY <1>7, <3>2, LinkedPush
    <3> QED  BY <3>1, <3>3 DEF FreeLinked
  <2> QED  BY <2>1, <2>2
<1>9. CrashedFull'
  BY DEF CrashedFull
<1> QED  BY <1>4, <1>5, <1>6, <1>8, <1>9 DEF TableInv

\* A handler of a connection.
LEMMA HandlerTableInv ==
    ASSUME TableInv, NEW s \in Slots, ctl[s].inuse, NEW n \in Mem,
           Commit(s, n), Handled(At(s), n, s), ~crashed,
           UNCHANGED <<next_unused_slot, conns, crashed>>,
           dbq' \subseteq Login, srvq' \subseteq Login, LoginsPlaced',
           scan' \in {NoScan} \cup Slots
    PROVE  TableInv'
<1>1. PICK o : o = At(s)
  OBVIOUS
<1>2. /\ TypePart /\ CountsExact /\ InPlace /\ FreeLinked
  BY DEF TableInv
<1>3. o.c = ctl[s] /\ o.freelist = freelist
  BY <1>1, <1>2, AtIs
<1>4. /\ CountInv(n.c) /\ n.c.id = ctl[s].id
      /\ \/ n.c.inuse /\ n.freelist = freelist /\ n.c.low = ctl[s].low
         \/ ~n.c.inuse /\ n.freelist = s /\ n.c.low = freelist
  BY <1>1, <1>3 DEF Handled
<1>5. ctl[s].low = s /\ s < next_unused_slot /\ ctl[s].id \in 1 .. conns
  BY <1>2 DEF InPlace
<1>7. Linked(Free, freelist, ctl)
  BY <1>2 DEF FreeLinked
<1>8. /\ s \notin Free
      /\ Free = {x \in Slots : x # s /\ x < next_unused_slot' /\ ~ctl[x].inuse}
  BY DEF Free
<1>10. /\ next_unused_slot' \in 0 .. MaxConnections
       /\ next_unused_slot <= next_unused_slot' /\ s < next_unused_slot'
       /\ conns' \in 0 .. MaxConns /\ conns <= conns' /\ n.c.id \in 1 .. conns'
  BY <1>2, <1>4, <1>5, TableSize, BoundAssumption DEF TypePart
<1>11. crashed' = FALSE
  BY <1>2 DEF TypePart
<1> QED  BY <1>2, <1>4, <1>5, <1>7, <1>8, <1>10, <1>11, SlotTableInv

-----------------------------------------------------------------------------
\* A connection that has been accepted in slot s, and what is left of the list.
Fresh(s, link, n) ==
    /\ n.c.gen = (ctl[s].gen + 1) % GenMod /\ n.c.id = conns + 1
    /\ CountInv(n.c) /\ OwnInv(n.c)
    /\ n.outbufs - HeldOutbufs(n.c) = outbufs
    /\ n.handles - HeldHandles(n.c) = handles
    /\ \/ n.c.inuse /\ n.freelist = link /\ n.c.low = s
       \/ ~n.c.inuse /\ n.freelist = s /\ n.c.low = link

\* What Connect works on.
Accepted(s, link) == [At(s) EXCEPT !.c = Allocated(s), !.freelist = link]

LEMMA AllocatedIs ==
    ASSUME TypePart, NEW s \in Slots, CountInv(ctl[s]), ~ctl[s].inuse,
           NEW link \in 0 .. Nil, conns < MaxConns,
           NEW m, m = Accepted(s, link)
    PROVE  /\ m \in Mem /\ Fresh(s, link, m) /\ m.c.inuse /\ m.c.proto = "none"
           /\ m.c.rd = "none" /\ m.c.wr = "none" /\ m.c.low = s
           /\ m.c.udata = "svc" /\ m.outbufs = outbufs /\ m.handles = handles
<1>1. /\ ctl[s] \in Conn /\ ctl[s].gen \in 0 .. GenMod - 1
      /\ ctl[s].rd = "none" /\ ctl[s].wr = "none"
  BY DEF TypePart, CountInv, Conn
<1>2. PICK g : g = (ctl[s].gen + 1) % GenMod
  OBVIOUS
<1>3. g \in 0 .. GenMod - 1
  <2>1. GenMod \in Nat \ {0}
    BY TableAssumption
  <2> QED  BY <1>1, <1>2, <2>1
<1>4. PICK i \in 0 .. MaxConns : i = conns + 1
  BY BoundAssumption DEF TypePart
<1>5. s \in 0 .. Nil
  BY TableSize DEF Slots, Nil
<1>6. PICK e : e = [ctl[s] EXCEPT !.gen = g, !.low = s, !.inuse = TRUE,
                   !.closing = FALSE, !.first = FALSE, !.outprog = FALSE,
                   !.rdwr = TRUE, !.pending = 0, !.proto = "none",
                   !.udata = "svc", !.id = i]
  OBVIOUS
<1>7. 0 \in 0 .. 2
  OBVIOUS
<1>8. e \in Conn
  BY <1>1, <1>3, <1>4, <1>5, <1>6, <1>7, Zenon DEF Conn
<1>9. /\ e.gen = g /\ e.low = s /\ e.inuse /\ e.outprog = FALSE /\ e.pending = 0
      /\ e.proto = "none" /\ e.udata = "svc" /\ e.id = i
      /\ e.rd = "none" /\ e.wr = "none"
  BY <1>1, <1>6 DEF Conn
<1>10. Allocated(s) = e
  BY <1>2, <1>4, <1>6 DEF Allocated
<1>11. PICK o : o = At(s)
  OBVIOUS
<1>12. /\ o \in Mem /\ o.outbufs = outbufs /\ o.handles = handles
       /\ outbufs \in Int /\ handles \in Int
  BY <1>11, AtIs DEF TypePart
<1>13. m = [o EXCEPT !.c = e, !.freelist = link]
  BY <1>10, <1>11 DEF Accepted
<1>14. /\ m.c = e /\ m.freelist = link
       /\ m.outbufs = outbufs /\ m.handles = handles
  BY <1>12, <1>13 DEF Mem
<1>15. m \in Mem
  BY <1>8, <1>12, <1>13, <1>14 DEF Mem
<1>16. HeldOutbufs(e) = 0 /\ HeldHandles(e) = 0
  BY <1>9 DEF HeldOutbufs, HeldHandles
<1>17. CountInv(e) /\ OwnInv(e)
  BY <1>9 DEF CountInv, Started, OwnInv
<1>18. Fresh(s, link, m)
  <2>1. outbufs - 0 = outbufs /\ handles - 0 = handles
    BY <1>12
  <2> QED  BY <1>2, <1>4, <1>9, <1>14, <1>16, <1>17, <2>1, Zenon DEF Fresh
<1> QED  BY <1>9, <1>14, <1>15, <1>18, Zenon

\* What is done to a fresh connection leaves it one.
LEMMA FreshRight ==
    ASSUME NEW s, NEW link, NEW m \in Mem, NEW n \in Mem, Fresh(s, link, m),
           m.c.inuse, Handled(m, n, s), Owned(m, n),
           outbufs \in Int, handles \in Int
    PROVE  Fresh(s, link, n)
<1>1. /\ n.outbufs - HeldOutbufs(n.c) = outbufs
      /\ n.handles - HeldHandles(n.c) = handles
  BY DEF Fresh, Owned
<1> QED  BY <1>1, Zenon DEF Fresh, Handled, Owned

Connects(s, link) == \E n \in Mem : Commit(s, n) /\ Fresh(s, link, n)

\* connmgr_start_connection, in the slot that it has found.
LEMMA ConnectWorks ==
    ASSUME TypePart, NEW s \in Slots, CountInv(ctl[s]), ~ctl[s].inuse,
           NEW link \in 0 .. Nil, conns < MaxConns, NEW sends_first \in BOOLEAN,
           Connect(s, link, sends_first)
    PROVE  Connects(s, link)
<1>1. PICK m : m = Accepted(s, link)
  OBVIOUS
<1>2. /\ m \in Mem /\ Fresh(s, link, m) /\ m.c.inuse /\ m.c.proto = "none"
      /\ m.c.rd = "none" /\ CountInv(m.c) /\ OwnInv(m.c)
  <2>1. /\ m \in Mem /\ Fresh(s, link, m) /\ m.c.inuse /\ m.c.proto = "none"
        /\ m.c.rd = "none"
    BY <1>1, AllocatedIs
  <2> QED  BY <2>1 DEF Fresh
<1>3. outbufs \in Int /\ handles \in Int
  BY DEF TypePart
<1>4. PICK sent \in BOOLEAN, started \in BOOLEAN :
        Commit(s, internal_async_read(
                    internal_dispatch_on_connect(m, sends_first, sent),
                    s, "length", started))
  BY <1>1 DEF Connect, Accepted
<1>5. PICK k : k = internal_dispatch_on_connect(m, sends_first, sent)
  OBVIOUS
<1>6. /\ k \in Mem /\ k.c.inuse /\ k.c.rd = "none" /\ Fresh(s, link, k)
  <2>1. CASE sends_first
    <3>1. PICK a : a = on_assign_protocol(m, "game")
      OBVIOUS
    <3>2. /\ Right(m, a, s) /\ a \in Mem /\ a.c.inuse /\ SameWork(m, a)
          /\ CountInv(a.c) /\ a.c.proto = "game"
      BY <1>2, <3>1, AssignRight
    <3>3. Fresh(s, link, a) /\ OwnInv(a.c)
      BY <1>2, <1>3, <3>2, FreshRight DEF Right, Owned
    <3>4. k = connection_send(a, sent)
      BY <1>5, <2>1, <3>1 DEF internal_dispatch_on_connect, on_connect
    <3>5. MaySend(a.c)
      BY <3>2 DEF MaySend
    <3>6. /\ k \in Mem /\ k.c.inuse /\ k.c.rd = a.c.rd
          /\ Handled(a, k, s) /\ Owned(a, k)
      BY <3>2, <3>3, <3>4, <3>5, SendRight
    <3>7. Fresh(s, link, k)
      BY <1>3, <3>2, <3>3, <3>6, FreshRight
    <3> QED  BY <1>2, <3>2, <3>6, <3>7 DEF SameWork
  <2>2. CASE ~sends_first
    <3>1. k = m
      BY <1>5, <2>2 DEF internal_dispatch_on_connect
    <3> QED  BY <1>2, <3>1
  <2> QED  BY <2>1, <2>2
<1>7. CountInv(k.c) /\ OwnInv(k.c)
  BY <1>6 DEF Fresh
<1>8. PICK n : n = internal_async_read(k, s, "length", started)
  OBVIOUS
<1>9. Right(k, n, s) /\ n \in Mem
  BY <1>6, <1>7, <1>8, AsyncReadRight
<1>10. Fresh(s, link, n)
  BY <1>3, <1>6, <1>7, <1>9, FreshRight DEF Right
<1>11. Commit(s, n)
  BY <1>4, <1>5, <1>8
<1> QED  BY <1>9, <1>10, <1>11 DEF Connects

\* The slot that has been found, and the slots still free once it is taken.
LEMMA StartTableInv ==
    ASSUME TableInv, NEW sends_first \in BOOLEAN,
           connmgr_start_connection(sends_first)
    PROVE  TableInv'
<1>1. /\ TypePart /\ CountsExact /\ InPlace /\ FreeLinked /\ CrashedFull
      /\ LoginsPlaced
  BY DEF TableInv
<1>2. /\ crashed = FALSE /\ conns < MaxConns /\ conns' = conns + 1
      /\ UNCHANGED <<dbq, srvq, scan>>
  BY <1>1 DEF connmgr_start_connection, Idle, TypePart
<1>3. /\ conns' \in 0 .. MaxConns /\ conns <= conns' /\ conns + 1 \in 1 .. conns'
  BY <1>1, <1>2, BoundAssumption DEF TypePart
<1>4. /\ dbq' \subseteq Login /\ srvq' \subseteq Login
      /\ scan' \in {NoScan} \cup Slots
  BY <1>1, <1>2 DEF TypePart
<1>5. Linked(Free, freelist, ctl)
  BY <1>1 DEF FreeLinked
<1>6. CASE /\ freelist # Nil
           /\ Connect(freelist, ctl[freelist].low, sends_first)
           /\ UNCHANGED <<next_unused_slot, crashed>>
  <2>1. PICK s : s = freelist
    OBVIOUS
  <2>2. PICK link : link = ctl[s].low
    OBVIOUS
  <2>3. s \in Free /\ Linked(Free \ {s}, link, ctl)
    BY <1>5, <1>6, <2>1, <2>2, LinkedPop
  <2>4. s \in Slots /\ s < next_unused_slot /\ ~ctl[s].inuse
    BY <2>3 DEF Free
  <2>5. link \in 0 .. Nil
    BY <1>1, <2>2, <2>4 DEF TypePart, Conn
  <2>6. CountInv(ctl[s]) /\ Connect(s, link, sends_first)
    BY <1>1, <1>6, <2>1, <2>2, <2>4 DEF CountsExact
  <2>7. Connects(s, link)
    BY <1>1, <1>2, <2>4, <2>5, <2>6, ConnectWorks
  <2>8. PICK n \in Mem : Commit(s, n) /\ Fresh(s, link, n)
    BY <2>7 DEF Connects
  <2>9. /\ CountInv(n.c)
        /\ \/ n.c.inuse /\ n.freelist = link /\ n.c.low = s /\ n.c.id \in 1 .. conns'
           \/ ~n.c.inuse /\ n.freelist = s /\ n.c.low = link
    BY <1>3, <2>8 DEF Fresh
  <2>10. /\ next_unused_slot' \in 0 .. MaxConnections
         /\ next_unused_slot <= next_unused_slot' /\ s < next_unused_slot'
         /\ crashed' = FALSE
    BY <1>1, <1>2, <1>6, <2>4, TableSize DEF TypePart
  <2>11. /\ s \notin Free \ {s}
         /\ Free \ {s} = {x \in Slots : x # s /\ x < next_unused_slot' /\ ~ctl[x].inuse}
    BY <1>6 DEF Free
  <2>12. LoginsPlaced'
    BY <1>1, <1>2, <1>6 DEF LoginsPlaced
  <2> QED  BY <1>1, <1>3, <1>4, <2>3, <2>4, <2>8, <2>9, <2>10, <2>11, <2>12,
              SlotTableInv
<1>7. CASE /\ freelist = Nil /\ next_unused_slot < MaxConnections
           /\ Connect(next_unused_slot, Nil, sends_first)
           /\ next_unused_slot' = next_unused_slot + 1
           /\ UNCHANGED crashed
  <2>1. PICK s : s = next_unused_slot
    OBVIOUS
  <2>2. s \in Slots /\ Nil \in 0 .. Nil
    BY <1>1, <1>7, <2>1, TableSize DEF TypePart, Slots, Nil
  <2>3. ~ctl[s].inuse
    BY <1>1, <2>1, <2>2 DEF InPlace, Slots
  <2>4. CountInv(ctl[s]) /\ Connect(s, Nil, sends_first)
    BY <1>1, <1>7, <2>1, <2>2 DEF CountsExact
  <2>5. Connects(s, Nil)
    BY <1>1, <1>2, <2>2, <2>3, <2>4, ConnectWorks
  <2>6. PICK n \in Mem : Commit(s, n) /\ Fresh(s, Nil, n)
    BY <2>5 DEF Connects
  <2>7. /\ CountInv(n.c)
        /\ \/ n.c.inuse /\ n.freelist = Nil /\ n.c.low = s /\ n.c.id \in 1 .. conns'
           \/ ~n.c.inuse /\ n.freelist = s /\ n.c.low = Nil
    BY <1>3, <2>6 DEF Fresh
  <2>8. /\ next_unused_slot' \in 0 .. MaxConnections
        /\ next_unused_slot <= next_unused_slot' /\ s < next_unused_slot'
        /\ crashed' = FALSE /\ next_unused_slot \in Int
    BY <1>1, <1>2, <1>7, <2>1, TableSize DEF TypePart
  <2>9. \A x \in Slots : x # s /\ x < next_unused_slot' <=> x < next_unused_slot
    BY <1>7, <2>1, <2>8 DEF Slots
  <2>10. /\ s \notin Free
         /\ Free = {x \in Slots : x # s /\ x < next_unused_slot' /\ ~ctl[x].inuse}
    <3>1. s \notin Free
      BY <2>1, <2>8 DEF Free
    <3> QED  BY <2>9, <3>1 DEF Free
  <2>11. LoginsPlaced'
    <3>1. \A l \in dbq \cup srvq : l.slot \in Slots
      BY <1>1 DEF TypePart, Login
    <3> QED  BY <1>1, <1>2, <1>7, <2>8, <3>1 DEF LoginsPlaced, Slots
  <2>12. Linked(Free, Nil, ctl)
    BY <1>5, <1>7
  <2> QED  BY <1>1, <1>3, <1>4, <2>2, <2>6, <2>7, <2>8, <2>10, <2>11, <2>12,
              SlotTableInv
<1>8. CASE /\ freelist = Nil /\ next_unused_slot >= MaxConnections
           /\ crashed' = TRUE
           /\ UNCHANGED <<ctl, freelist, next_unused_slot, outbufs, handles>>
  <2>1. Free = {}
    BY <1>5, <1>8, LinkedNil
  <2>2. \A x \in Slots : x < next_unused_slot
    BY <1>1, <1>8, TableSize DEF TypePart, Slots
  <2>3. CrashedFull'
    BY <1>8, <2>1, <2>2 DEF CrashedFull, Free
  <2>4. TypePart'
    BY <1>1, <1>2, <1>3, <1>8 DEF TypePart
  <2>5. CountsExact' /\ FreeLinked' /\ LoginsPlaced'
    BY <1>1, <1>2, <1>8 DEF CountsExact, FreeLinked, Free, LoginsPlaced
  <2>6. InPlace'
    <3>1. \A i \in 1 .. conns : i \in 1 .. conns'
      BY <1>1, <1>3 DEF TypePart
    <3> QED  BY <1>1, <1>8, <3>1 DEF InPlace
  <2> QED  BY <2>3, <2>4, <2>5, <2>6 DEF TableInv
<1> QED  BY <1>6, <1>7, <1>8 DEF connmgr_start_connection

LEMMA InitTableInv == Init => TableInv
<1> SUFFICES ASSUME Init PROVE TableInv
  OBVIOUS
<1>1. GenMod \in Nat \ {0} /\ MaxConns \in Nat /\ MaxConnections \in Nat \ {0}
  BY TableAssumption, BoundAssumption
<1>2. /\ 0 \in 0 .. GenMod - 1 /\ 0 \in 0 .. Nil /\ 0 \in 0 .. 2 /\ 0 \in 0 .. MaxConns
      /\ Nil \in 0 .. Nil /\ 0 \in 0 .. MaxConnections
  BY <1>1 DEF Nil
<1>3. Unused \in Conn
  BY <1>2, Zenon DEF Unused, Conn
<1>4. \A s \in Slots : ctl[s] = Unused
  BY DEF Init
<1>5. TypePart
  <2>1. ctl \in [Slots -> Conn]
    BY <1>3 DEF Init
  <2>2. /\ freelist \in 0 .. Nil /\ next_unused_slot \in 0 .. MaxConnections
        /\ conns \in 0 .. MaxConns
    BY <1>2, Zenon DEF Init
  <2>3. outbufs \in Int /\ handles \in Int
    BY DEF Init
  <2>4. /\ dbq \subseteq Login /\ srvq \subseteq Login
        /\ scan \in {NoScan} \cup Slots /\ crashed \in BOOLEAN
    BY Zenon DEF Init
  <2> QED  BY <2>1, <2>2, <2>3, <2>4, Zenon DEF TypePart
<1>6. CountsExact
  BY <1>4 DEF CountsExact, CountInv, Started, Unused
<1>7. InPlace /\ LoginsPlaced /\ CrashedFull
  BY <1>4 DEF Init, InPlace, Unused, LoginsPlaced, CrashedFull
<1>8. FreeLinked
  <2>1. Free = {}
    BY DEF Init, Free, Slots
  <2>2. PICK order : order = [i \in 1 .. 0 |-> 0]
    OBVIOUS
  <2>3. List(0, order, {}, Nil, ctl)
    BY <2>2 DEF List
  <2> QED  BY <2>1, <2>3, LinkedList DEF Init, FreeLinked
<1> QED  BY <1>5, <1>6, <1>7, <1>8 DEF TableInv

\* A login whose uid matches is that of a slot in use.
LEMMA MatchesInUse ==
    ASSUME TableInv, NEW l \in dbq \cup srvq, UidMatches(l)
    PROVE  l.slot \in Slots /\ ctl[l.slot].inuse
<1>1. l.slot \in Slots /\ l.slot < next_unused_slot
  BY DEF TableInv, TypePart, Login, LoginsPlaced
<1>2. Linked(Free, freelist, ctl)
  BY DEF TableInv, FreeLinked
<1>3. ASSUME ~ctl[l.slot].inuse PROVE FALSE
  <2>1. l.slot \in Free
    BY <1>1, <1>3 DEF Free
  <2>2. ctl[l.slot].low # l.slot
    BY <1>2, <2>1, LinkedOther
  <2> QED  BY <2>2 DEF UidMatches
<1> QED  BY <1>1, <1>3

LEMMA NextTableInv == TableInv /\ [Next]_vars => TableInv'
<1> SUFFICES ASSUME TableInv, [Next]_vars PROVE TableInv'
  OBVIOUS
<1>1. /\ TypePart /\ CountsExact /\ InPlace /\ FreeLinked /\ CrashedFull
      /\ LoginsPlaced
  BY DEF TableInv
<1>2. /\ dbq \subseteq Login /\ srvq \subseteq Login
      /\ scan \in {NoScan} \cup Slots
  BY <1>1 DEF TypePart
<1>3. ASSUME NEW s \in Slots, Works(s), UNCHANGED Rest, ctl[s].inuse, Idle
      PROVE  TableInv'
  <2>1. PICK n \in Mem : Commit(s, n) /\ Right(At(s), n, s)
    BY <1>3 DEF Works
  <2>2. /\ Handled(At(s), n, s) /\ ~crashed
        /\ UNCHANGED <<next_unused_slot, conns, crashed>>
        /\ dbq' \subseteq Login /\ srvq' \subseteq Login
        /\ scan' \in {NoScan} \cup Slots /\ LoginsPlaced'
    BY <1>1, <1>2, <1>3, <2>1 DEF Right, Rest, Idle, LoginsPlaced
  <2> QED  BY <1>3, <2>1, <2>2, HandlerTableInv
<1>4. ASSUME NEW sends_first \in BOOLEAN, connmgr_start_connection(sends_first)
      PROVE  TableInv'
  BY <1>4, StartTableInv
<1>5. ASSUME NEW s \in Slots, ReadStep(s) PROVE TableInv'
  <2>1. CountInv(ctl[s])
    BY <1>1 DEF CountsExact
  <2>2. Idle
    BY <1>5 DEF ReadStep, ReadWhileClosing, ReadFailed, ReadRejected, ReadLength,
           UnknownMessage, EchoMessage, GameMessage, LoginMalformed, LoginRefused,
           LoginQueued, Reading, BodyFor
  <2>3. CASE ~LoginQueued(s)
    <3>1. Works(s) /\ UNCHANGED Rest /\ ctl[s].inuse
      BY <1>1, <1>5, <2>1, <2>3, ReadWorks
    <3> QED  BY <1>3, <2>2, <3>1
  <2>4. CASE LoginQueued(s)
    <3>1. ctl[s].inuse
      BY <1>1, <2>1, <2>4, LoginQueuedWorks
    <3>2. PICK n \in Mem : Commit(s, n) /\ Right(At(s), n, s)
      BY <1>1, <2>1, <2>4, LoginQueuedWorks
    <3>3. PICK l : l = [slot |-> s, gen |-> ctl[s].gen, id |-> ctl[s].id]
      OBVIOUS
    <3>4. /\ dbq' = dbq \cup {l}
          /\ UNCHANGED <<next_unused_slot, srvq, conns, scan, crashed>>
      BY <2>4, <3>3 DEF LoginQueued
    <3>5. l \in Login /\ l.slot < next_unused_slot
      <4>1. /\ ctl[s].gen \in 0 .. GenMod - 1 /\ ctl[s].id \in 1 .. conns
            /\ s < next_unused_slot
        BY <1>1, <3>1 DEF TypePart, Conn, InPlace
      <4>2. ctl[s].id \in 1 .. MaxConns
        BY <1>1, <4>1, BoundAssumption DEF TypePart
      <4> QED  BY <3>3, <4>1, <4>2 DEF Login
    <3>6. LoginsPlaced'
      BY <1>1, <3>4, <3>5 DEF LoginsPlaced
    <3>7. Handled(At(s), n, s) /\ ~crashed
      BY <2>2, <3>2 DEF Right, Idle
    <3> QED  BY <1>2, <3>1, <3>2, <3>4, <3>5, <3>6, <3>7, HandlerTableInv
  <2> QED  BY <2>3, <2>4
<1>6. ASSUME NEW s \in Slots, WriteStep(s) PROVE TableInv'
  <2>1. CountInv(ctl[s])
    BY <1>1 DEF CountsExact
  <2>2. Idle
    BY <1>6 DEF WriteStep, WriteWhileClosing, WriteFailed, WriteRejected,
           WriteDone, Writing
  <2>3. Works(s) /\ UNCHANGED Rest /\ ctl[s].inuse
    BY <1>1, <1>6, <2>1, WriteWorks
  <2> QED  BY <1>3, <2>2, <2>3
<1>7. ASSUME NEW s \in Slots, NEW abort \in BOOLEAN, connection_close(s, abort)
      PROVE  TableInv'
  <2>1. CountInv(ctl[s]) /\ Idle
    BY <1>1, <1>7 DEF CountsExact, connection_close
  <2>2. Works(s) /\ UNCHANGED Rest /\ ctl[s].inuse
    BY <1>1, <1>7, <2>1, CloseWorks
  <2> QED  BY <1>3, <2>1, <2>2
<1>8. ASSUME connmgr_timeout_check PROVE TableInv'
  <2>1. PICK s : s = IF scan = NoScan THEN 0 ELSE scan
    OBVIOUS
  <2>2. s \in Slots
    <3>1. 0 \in Slots
      BY TableSize DEF Slots
    <3> QED  BY <1>2, <2>1, <3>1
  <2>3. TimeoutTurn(s)
    BY <1>8, <2>1 DEF connmgr_timeout_check
  <2>4. /\ ~crashed /\ s < next_unused_slot
        /\ scan' = IF s + 1 < next_unused_slot THEN s + 1 ELSE NoScan
        /\ UNCHANGED <<next_unused_slot, dbq, srvq, conns, crashed>>
    BY <2>3 DEF TimeoutTurn
  <2>5. scan' \in {NoScan} \cup Slots
    BY <1>1, <2>2, <2>4, TableSize DEF TypePart, Slots
  <2>6. LoginsPlaced'
    BY <1>1, <2>4 DEF LoginsPlaced
  <2>7. CASE ctl[s].inuse
    <3>1. CountInv(ctl[s])
      BY <1>1, <2>2 DEF CountsExact
    <3>2. Works(s)
      BY <1>1, <2>2, <2>3, <2>7, <3>1, TimeoutWorks
    <3>3. PICK n \in Mem : Commit(s, n) /\ Right(At(s), n, s)
      BY <3>2 DEF Works
    <3>4. Handled(At(s), n, s)
      BY <3>3 DEF Right
    <3> QED  BY <1>2, <2>2, <2>4, <2>5, <2>6, <2>7, <3>3, <3>4, HandlerTableInv
  <2>8. CASE ~ctl[s].inuse
    <3>1. Commit(s, At(s))
      BY <2>3, <2>8 DEF TimeoutTurn
    <3>2. UNCHANGED <<ctl, freelist, outbufs, handles>>
      BY <1>1, <2>2, <3>1 DEF Commit, At, TypePart
    <3>3. TypePart'
      BY <1>1, <2>4, <2>5, <3>2 DEF TypePart
    <3>4. CountsExact' /\ InPlace' /\ FreeLinked' /\ CrashedFull'
      BY <1>1, <2>4, <3>2 DEF CountsExact, InPlace, FreeLinked, Free, CrashedFull
    <3> QED  BY <2>6, <3>3, <3>4 DEF TableInv
  <2> QED  BY <2>7, <2>8
<1>9. ASSUME NEW l \in dbq, database_resolve_login(l) PROVE TableInv'
  <2>1. /\ dbq' = dbq \ {l} /\ srvq' = srvq \cup {l} /\ outbufs' = outbufs + 1
        /\ UNCHANGED <<ctl, freelist, next_unused_slot, handles, conns, scan, crashed>>
    BY <1>9 DEF database_resolve_login
  <2>2. TypePart' /\ LoginsPlaced'
    BY <1>1, <2>1 DEF TypePart, LoginsPlaced
  <2>3. CountsExact' /\ InPlace' /\ FreeLinked' /\ CrashedFull'
    BY <1>1, <2>1 DEF CountsExact, InPlace, FreeLinked, Free, CrashedFull
  <2> QED  BY <2>2, <2>3 DEF TableInv
<1>10. ASSUME NEW l \in srvq, internal_resolve_login(l) PROVE TableInv'
  <2>1. /\ srvq' = srvq \ {l} /\ ~crashed
        /\ UNCHANGED <<next_unused_slot, dbq, conns, scan, crashed>>
    BY <1>10 DEF internal_resolve_login, Idle
  <2>2. LoginsPlaced'
    BY <1>1, <2>1 DEF LoginsPlaced
  <2>3. CASE UidMatches(l)
    <3>1. PICK sent \in BOOLEAN : Commit(l.slot, Reply(At(l.slot), sent))
      BY <1>10, <2>3 DEF internal_resolve_login
    <3>2. PICK s : s = l.slot
      OBVIOUS
    <3>3. s \in Slots /\ ctl[s].inuse
      BY <2>3, <3>2, MatchesInUse
    <3>4. PICK o : o = At(s)
      OBVIOUS
    <3>5. o \in Mem /\ o.c = ctl[s] /\ CountInv(o.c)
      BY <1>1, <3>3, <3>4, AtIs DEF CountsExact
    <3>6. PICK n : n = Reply(o, sent)
      OBVIOUS
    <3>7. Handled(o, n, s) /\ n \in Mem
      BY <3>3, <3>5, <3>6, ReplyIs
    <3>8. Commit(s, n)
      BY <3>1, <3>2, <3>4, <3>6
    <3> QED  BY <1>2, <2>1, <2>2, <3>3, <3>4, <3>7, <3>8, HandlerTableInv
  <2>4. CASE ~UidMatches(l)
    <3>1. outbufs' = outbufs - 1 /\ UNCHANGED <<ctl, freelist, handles>>
      BY <1>10, <2>4 DEF internal_resolve_login
    <3>2. TypePart'
      BY <1>1, <2>1, <3>1 DEF TypePart
    <3>3. CountsExact' /\ InPlace' /\ FreeLinked' /\ CrashedFull'
      BY <1>1, <2>1, <3>1 DEF CountsExact, InPlace, FreeLinked, Free, CrashedFull
    <3> QED  BY <2>2, <3>2, <3>3 DEF TableInv
  <2> QED  BY <2>3, <2>4
<1>11. ASSUME UNCHANGED vars PROVE TableInv'
  <2>1. UNCHANGED vars
    BY <1>11
  <2> QED  BY <1>1, <2>1 DEF vars, TableInv, TypePart, CountsExact, InPlace,
                FreeLinked, Free, LoginsPlaced, CrashedFull
<1> QED  BY <1>4, <1>5, <1>6, <1>7, <1>8, <1>9, <1>10, <1>11 DEF Next

-----------------------------------------------------------------------------
\* The chain is the function that its recursive definition describes.
ChainOf(f) ==
    f = [n \in 0 .. MaxConnections |->
           IF n = 0 THEN freelist
           ELSE IF f[n - 1] = Nil THEN Nil ELSE ctl[f[n - 1]].low]

LEMMA FreeChainIs == FreeChain = CHOOSE f : ChainOf(f)
  BY DEF FreeChain, ChainOf

\* Every non-empty set of numbers has a least one.
LEMMA LeastExists ==
    ASSUME NEW S \in SUBSET Nat, S # {}
    PROVE  \E n \in S : \A o \in S : n <= o
<1>1. PICK R : R = OpToRel(<, Nat)
  BY Zenon
<1>2. IsWellFoundedOn(R, Nat)
  BY <1>1, NatLessThanWellFounded, Zenon
<1>3. \E n \in S : \A o \in S : ~(<<o, n>> \in R)
  BY <1>2, WFMin
<1>4. PICK n \in S : \A o \in S : ~(<<o, n>> \in R)
  BY <1>3
<1>5. ASSUME NEW o \in S PROVE n <= o
  <2>1. ~(<<o, n>> \in OpToRel(<, Nat))
    BY <1>1, <1>4, Zenon
  <2>2. ~(o < n)
    BY <2>1 DEF OpToRel
  <2> QED  BY <2>2
<1> QED  BY <1>5

\* Following the freelist visits the list of the free slots.
LEMMA ChainFollowsList ==
    ASSUME NEW n \in 0 .. MaxConnections, NEW order, NEW F,
           List(n, order, F, freelist, ctl)
    PROVE  \A i \in 0 .. MaxConnections :
             FreeChain[i] = IF i < n THEN order[i + 1] ELSE Nil
<1>0. MaxConnections \in Nat
  BY TableSize
<1> DEFINE g == [i \in 0 .. MaxConnections |-> IF i < n THEN order[i + 1] ELSE Nil]
<1>1. /\ order \in [1 .. n -> Slots]
      /\ freelist = IF n = 0 THEN Nil ELSE order[1]
      /\ \A i \in 1 .. n : ctl[order[i]].low = IF i = n THEN Nil ELSE order[i + 1]
  BY DEF List
<1>2. \A i \in 0 .. MaxConnections : g[i] = IF i < n THEN order[i + 1] ELSE Nil
  OBVIOUS
<1>3. ASSUME NEW i \in 0 .. MaxConnections
      PROVE  g[i] = IF i = 0 THEN freelist
                    ELSE IF g[i - 1] = Nil THEN Nil ELSE ctl[g[i - 1]].low
  <2>1. CASE i = 0
    <3>1. 0 < n <=> n # 0
      OBVIOUS
    <3>2. g[0] = IF 0 < n THEN order[0 + 1] ELSE Nil
      BY <1>2, <2>1
    <3> QED  BY <1>1, <2>1, <3>1, <3>2
  <2>2. CASE i # 0 /\ i - 1 < n
    <3>1. /\ i - 1 \in 0 .. MaxConnections /\ i \in 1 .. n /\ (i - 1) + 1 = i
          /\ (i < n <=> i # n)
      BY <1>0, <2>2
    <3>2. g[i - 1] = order[i] /\ order[i] # Nil
      <4>1. g[i - 1] = IF i - 1 < n THEN order[(i - 1) + 1] ELSE Nil
        BY <1>2, <3>1
      <4>2. order[i] \in Slots
        BY <1>1, <3>1
      <4> QED  BY <2>2, <3>1, <4>1, <4>2, TableSize
    <3>3. ctl[order[i]].low = IF i = n THEN Nil ELSE order[i + 1]
      BY <1>1, <3>1
    <3> QED  BY <1>2, <2>2, <3>1, <3>2, <3>3
  <2>3. CASE i # 0 /\ ~(i - 1 < n)
    <3>1. i - 1 \in 0 .. MaxConnections /\ ~(i < n)
      BY <1>0, <2>3
    <3>2. g[i - 1] = Nil /\ g[i] = Nil
      BY <1>2, <2>3, <3>1
    <3> QED  BY <2>3, <3>2
  <2> QED  BY <2>1, <2>2, <2>3
<1>4. ChainOf(g)
  BY <1>3 DEF ChainOf
<1> HIDE DEF g
<1>5. ChainOf(FreeChain)
  BY <1>4, FreeChainIs
<1>6. \A i \in 0 .. MaxConnections : FreeChain[i] = g[i]
  <2> DEFINE Wrong == {i \in 0 .. MaxConnections : FreeChain[i] # g[i]}
  <2> SUFFICES ASSUME Wrong # {} PROVE FALSE
    OBVIOUS
  <2>0. Wrong \in SUBSET Nat
    BY <1>0
  <2>1. PICK i \in Wrong : \A j \in Wrong : i <= j
    <3> HIDE DEF Wrong
    <3> QED  BY <2>0, LeastExists
  <2>2. FreeChain[i] = IF i = 0 THEN freelist
                       ELSE IF FreeChain[i - 1] = Nil THEN Nil
                                                      ELSE ctl[FreeChain[i - 1]].low
    BY <1>5 DEF ChainOf
  <2>3. g[i] = IF i = 0 THEN freelist
               ELSE IF g[i - 1] = Nil THEN Nil ELSE ctl[g[i - 1]].low
    BY <1>3
  <2>4. i # 0 => FreeChain[i - 1] = g[i - 1]
    <3>1. i # 0 => i - 1 \in 0 .. MaxConnections /\ ~(i <= i - 1)
      BY <1>0
    <3> QED  BY <2>1, <3>1
  <2>5. FreeChain[i] = g[i]
    BY <2>2, <2>3, <2>4
  <2> QED  BY <2>5
<1> QED  BY <1>2, <1>6

LEMMA TableFreelistSound ==
    ASSUME TableInv PROVE FreelistSound
<1>1. Linked(Free, freelist, ctl) /\ InPlace /\ CrashedFull
  BY DEF TableInv, FreeLinked
<1>2. PICK n \in 0 .. MaxConnections : \E order \in [1 .. n -> Slots] :
        List(n, order, Free, freelist, ctl)
  BY <1>1 DEF Linked
<1>3. PICK order : List(n, order, Free, freelist, ctl)
  BY <1>2
<1>4. n \in Nat /\ MaxConnections \in Nat
  BY TableSize
<1>5. Cardinality(Free) = n
  BY <1>3, <1>4, ListLength
<1>6. \A i \in 0 .. MaxConnections :
        FreeChain[i] = IF i < n THEN order[i + 1] ELSE Nil
  BY <1>3, ChainFollowsList
<1>7. FreeChain[n] = Nil
  BY <1>4, <1>6
<1>8. {FreeChain[i] : i \in 0 .. n - 1} = Free
  <2>1. Free = {order[i] : i \in 1 .. n}
    BY <1>3 DEF List
  <2>2. ASSUME NEW i \in 0 .. n - 1 PROVE FreeChain[i] \in Free
    <3>1. i \in 0 .. MaxConnections /\ i < n /\ i + 1 \in 1 .. n
      BY <1>4
    <3>2. FreeChain[i] = order[i + 1]
      BY <1>6, <3>1
    <3> QED  BY <2>1, <3>1, <3>2
  <2>3. ASSUME NEW x \in Free PROVE \E i \in 0 .. n - 1 : FreeChain[i] = x
    <3>1. PICK j \in 1 .. n : x = order[j]
      BY <2>1
    <3>2. /\ j - 1 \in 0 .. n - 1 /\ j - 1 \in 0 .. MaxConnections
          /\ j - 1 < n /\ (j - 1) + 1 = j
      BY <1>4
    <3>3. FreeChain[j - 1] = order[(j - 1) + 1]
      BY <1>6, <3>2
    <3> QED  BY <3>1, <3>2, <3>3
  <2> QED  BY <2>2, <2>3, Zenon
<1>9. Free = {s \in Slots : s < next_unused_slot /\ ~ctl[s].inuse}
  BY DEF Free
<1>10. \A s \in Slots : ctl[s].inuse => ctl[s].low = s /\ s < next_unused_slot
  BY <1>1 DEF InPlace
<1> QED  BY <1>1, <1>5, <1>7, <1>8, <1>9, <1>10, Zenon DEF FreelistSound, CrashedFull

\* The operations that the OS works on are as many as started.
LEMMA OutstandingCount ==
    ASSUME NEW c \in Conn
    PROVE  /\ Cardinality(Outstanding(c)) = Started(c)
           /\ c.rd = "none" /\ c.wr = "none" => Outstanding(c) = {}
<1>1. /\ Cardinality({}) = 0 /\ Cardinality({"read"}) = 1
      /\ Cardinality({"write"}) = 1
  BY FS_EmptySet, FS_Singleton
<1>2. Cardinality({"read", "write"}) = 2
  <2>1. IsFiniteSet({"read"}) /\ "write" \notin {"read"}
    BY FS_Singleton
  <2>2. Cardinality({"read"} \cup {"write"}) = Cardinality({"read"}) + 1
    BY <2>1, FS_AddElement
  <2>3. {"read"} \cup {"write"} = {"read", "write"}
    OBVIOUS
  <2> QED  BY <1>1, <2>2, <2>3
<1>3. CASE c.rd = "none" /\ c.wr = "none"
  <2>1. Outstanding(c) = {} /\ Started(c) = 0
    BY <1>3 DEF Outstanding, Started
  <2> QED  BY <1>1, <2>1
<1>4. CASE c.rd # "none" /\ c.wr = "none"
  <2>1. Outstanding(c) = {"read"} /\ Started(c) = 1
    BY <1>4 DEF Outstanding, Started
  <2> QED  BY <1>1, <1>4, <2>1
<1>5. CASE c.rd = "none" /\ c.wr # "none"
  <2>1. Outstanding(c) = {"write"} /\ Started(c) = 1
    BY <1>5 DEF Outstanding, Started
  <2> QED  BY <1>1, <1>5, <2>1
<1>6. CASE c.rd # "none" /\ c.wr # "none"
  <2>1. Outstanding(c) = {"read", "write"} /\ Started(c) = 2
    BY <1>6 DEF Outstanding, Started
  <2> QED  BY <1>2, <1>6, <2>1
<1> QED  BY <1>3, <1>4, <1>5, <1>6

LEMMA TablePendingWork ==
    ASSUME TableInv PROVE PendingWorkExact
<1> SUFFICES ASSUME NEW s \in Slots
             PROVE  /\ ctl[s].inuse => ctl[s].pending = Cardinality(Outstanding(ctl[s]))
                    /\ ~ctl[s].inuse => Outstanding(ctl[s]) = {}
  BY DEF PendingWorkExact
<1>1. ctl[s] \in Conn /\ CountInv(ctl[s])
  BY DEF TableInv, TypePart, CountsExact
<1>2. /\ Cardinality(Outstanding(ctl[s])) = Started(ctl[s])
      /\ ctl[s].rd = "none" /\ ctl[s].wr = "none" => Outstanding(ctl[s]) = {}
  BY <1>1, OutstandingCount
<1> QED  BY <1>1, <1>2 DEF CountInv

LEMMA TableInvariant == Spec => []TableInv
<1>1. Init => TableInv
  BY InitTableInv
<1>2. TableInv /\ [Next]_vars => TableInv'
  BY NextTableInv
<1> QED  BY <1>1, <1>2, PTL DEF Spec

\* Whatever the order of completions, closes, timeouts and failed starts,
\* pending_work is the number of operations that the OS holds for a connection,
\* for a table of any size and counters of any range.
THEOREM PendingWorkCounted == Spec => []PendingWorkExact
<1>1. TableInv => PendingWorkExact
  BY TablePendingWork
<1> QED  BY <1>1, TableInvariant, PTL

\* For a table of any size the freelist holds every released slot once, and
\* internal_alloc returns NULL only if all slots are in use.
THEOREM FreelistHolds == Spec => []FreelistSound
<1>1. TableInv => FreelistSound
  BY TableFreelistSound
<1> QED  BY <1>1, TableInvariant, PTL

-----------------------------------------------------------------------------
(***************************************************************************)
(* The invariant of what the connections own is inductive.                 *)
(***************************************************************************)

\* Two sets of slots that differ in s at most.
LEMMA SwapCount ==
    ASSUME NEW X \in SUBSET Slots, NEW Y \in SUBSET Slots, NEW s,
           X \ {s} = Y \ {s}
    PROVE  /\ Cardinality(X) \in Nat /\ Cardinality(Y) \in Nat
           /\ Cardinality(Y) - (IF s \in Y THEN 1 ELSE 0)
                = Cardinality(X) - (IF s \in X THEN 1 ELSE 0)
<1>1. IsFiniteSet(X) /\ IsFiniteSet(Y)
  BY TableSize, FS_Subset
<1>2. Cardinality(X) \in Nat /\ Cardinality(Y) \in Nat
  BY <1>1, FS_CardinalityType
<1>3. Cardinality(X \ {s}) = IF s \in X THEN Cardinality(X) - 1 ELSE Cardinality(X)
  BY <1>1, FS_RemoveElement
<1>4. Cardinality(Y \ {s}) = IF s \in Y THEN Cardinality(Y) - 1 ELSE Cardinality(Y)
  BY <1>1, FS_RemoveElement
<1>5. PICK k : k = Cardinality(X \ {s}) /\ k = Cardinality(Y \ {s})
  OBVIOUS
<1>6. PICK a \in Nat, b \in Nat : a = Cardinality(X) /\ b = Cardinality(Y)
  BY <1>2
<1>7. /\ k = IF s \in X THEN a - 1 ELSE a
      /\ k = IF s \in Y THEN b - 1 ELSE b
  BY <1>3, <1>4, <1>5, <1>6, Zenon
<1>8. b - (IF s \in Y THEN 1 ELSE 0) = a - (IF s \in X THEN 1 ELSE 0)
  BY <1>7
<1> QED  BY <1>2, <1>6, <1>8

LEMMA CommitIs ==
    ASSUME TypePart, NEW s \in Slots, NEW n \in Mem, Commit(s, n)
    PROVE  /\ ctl'[s] = n.c /\ \A x \in Slots : x # s => ctl'[x] = ctl[x]
           /\ outbufs' = n.outbufs /\ handles' = n.handles
  BY DEF TypePart, Commit

\* What the slots hold changes by what slot s holds.
LEMMA HeldCount ==
    ASSUME TypePart, NEW s \in Slots, NEW n \in Mem, Commit(s, n)
    PROVE  /\ Cardinality(OutbufSlots) \in Nat /\ Cardinality(OutbufSlots') \in Nat
           /\ Cardinality(EchoSlots) \in Nat /\ Cardinality(EchoSlots') \in Nat
           /\ Cardinality(OutbufSlots') - HeldOutbufs(n.c)
                = Cardinality(OutbufSlots) - HeldOutbufs(ctl[s])
           /\ Cardinality(EchoSlots') - HeldHandles(n.c)
                = Cardinality(EchoSlots) - HeldHandles(ctl[s])
<1>1. ctl'[s] = n.c /\ \A x \in Slots : x # s => ctl'[x] = ctl[x]
  BY CommitIs
<1>2. PICK X : X = OutbufSlots
  OBVIOUS
<1>3. PICK Y : Y = OutbufSlots'
  OBVIOUS
<1>4. X \in SUBSET Slots /\ Y \in SUBSET Slots /\ X \ {s} = Y \ {s}
  BY <1>1, <1>2, <1>3 DEF OutbufSlots
<1>5. /\ (IF s \in X THEN 1 ELSE 0) = HeldOutbufs(ctl[s])
      /\ (IF s \in Y THEN 1 ELSE 0) = HeldOutbufs(n.c)
  BY <1>1, <1>2, <1>3 DEF OutbufSlots, HeldOutbufs
<1>6. /\ Cardinality(X) \in Nat /\ Cardinality(Y) \in Nat
      /\ Cardinality(Y) - HeldOutbufs(n.c) = Cardinality(X) - HeldOutbufs(ctl[s])
  BY <1>4, <1>5, SwapCount
<1>7. PICK E : E = EchoSlots
  OBVIOUS
<1>8. PICK G : G = EchoSlots'
  OBVIOUS
<1>9. E \in SUBSET Slots /\ G \in SUBSET Slots /\ E \ {s} = G \ {s}
  BY <1>1, <1>7, <1>8 DEF EchoSlots
<1>10. /\ (IF s \in E THEN 1 ELSE 0) = HeldHandles(ctl[s])
       /\ (IF s \in G THEN 1 ELSE 0) = HeldHandles(n.c)
  BY <1>1, <1>7, <1>8 DEF EchoSlots, HeldHandles
<1>11. /\ Cardinality(E) \in Nat /\ Cardinality(G) \in Nat
       /\ Cardinality(G) - HeldHandles(n.c) = Cardinality(E) - HeldHandles(ctl[s])
  BY <1>9, <1>10, SwapCount
<1> QED  BY <1>2, <1>3, <1>6, <1>7, <1>8, <1>11

\* The ids of logins, and of connections, tell them apart: there are at most
\* MaxConns.
LEMMA AtMostConns ==
    ASSUME NEW S, NEW f \in [S -> 1 .. MaxConns],
           \A x, y \in S : f[x] = f[y] => x = y
    PROVE  IsFiniteSet(S) /\ Cardinality(S) \in 0 .. MaxConns
<1>1. MaxConns \in Nat
  BY BoundAssumption
<1>2. IsFiniteSet(1 .. MaxConns) /\ Cardinality(1 .. MaxConns) = MaxConns
  <2>1. /\ IsFiniteSet(1 .. MaxConns)
        /\ Cardinality(1 .. MaxConns) = IF 1 > MaxConns THEN 0 ELSE MaxConns - 1 + 1
    BY <1>1, FS_Interval
  <2> QED  BY <1>1, <2>1
<1>3. f \in Injection(S, 1 .. MaxConns)
  BY DEF Injection, IsInjective
<1>4. IsFiniteSet(S) /\ Cardinality(S) <= Cardinality(1 .. MaxConns)
  BY <1>2, <1>3, FS_Injection
<1>5. Cardinality(S) \in Nat
  BY <1>4, FS_CardinalityType
<1> QED  BY <1>1, <1>2, <1>4, <1>5

LEMMA LoginsCount ==
    ASSUME TypePart, LoginsDistinct
    PROVE  IsFiniteSet(srvq) /\ Cardinality(srvq) \in 0 .. MaxConns
<1>1. \A l \in srvq : l.id \in 1 .. MaxConns
  BY DEF TypePart, Login
<1>2. \A l, k \in srvq : l.id = k.id => l = k
  BY DEF LoginsDistinct, Logins
<1>3. PICK f : f = [l \in srvq |-> l.id]
  OBVIOUS
<1>4. f \in [srvq -> 1 .. MaxConns] /\ \A x, y \in srvq : f[x] = f[y] => x = y
  BY <1>1, <1>2, <1>3
<1> QED  BY <1>4, AtMostConns

LEMMA SlotsCount ==
    ASSUME TypePart, InPlace, IdsDistinct, NEW S,
           S \subseteq {s \in Slots : ctl[s].inuse}
    PROVE  Cardinality(S) \in 0 .. MaxConns
<1>1. \A s \in S : ctl[s].id \in 1 .. MaxConns
  BY BoundAssumption DEF InPlace, TypePart
<1>2. \A s, t \in S : ctl[s].id = ctl[t].id => s = t
  BY DEF IdsDistinct
<1>3. PICK f : f = [s \in S |-> ctl[s].id]
  OBVIOUS
<1>4. f \in [S -> 1 .. MaxConns] /\ \A x, y \in S : f[x] = f[y] => x = y
  BY <1>1, <1>2, <1>3
<1> QED  BY <1>4, AtMostConns

\* BuffersOwned in these words.
LEMMA BuffersOwnedIs ==
    BuffersOwned <=> /\ outbufs = Cardinality(srvq) + Cardinality(OutbufSlots)
                     /\ handles = Cardinality(EchoSlots)
  BY DEF BuffersOwned, OutbufSlots, EchoSlots

\* The connections are those there were, less one perhaps.
LEMMA SameIds ==
    ASSUME TableInv, OwnersInv, NEW s \in Slots, ctl[s].inuse, NEW n \in Mem,
           Commit(s, n), n.c.gen = ctl[s].gen, n.c.id = ctl[s].id,
           OwnInv(n.c), conns' = conns
    PROVE  /\ OwnsExact' /\ GensBounded' /\ IdsDistinct'
           /\ \A x \in Slots : /\ ctl'[x].gen = ctl[x].gen /\ ctl'[x].id = ctl[x].id
                               /\ ctl'[x].inuse => ctl[x].inuse
                               /\ x # s => ctl'[x] = ctl[x]
<1>1. TypePart
  BY DEF TableInv
<1>2. ctl'[s] = n.c /\ \A x \in Slots : x # s => ctl'[x] = ctl[x]
  BY <1>1, CommitIs
<1>3. \A x \in Slots : /\ ctl'[x].gen = ctl[x].gen /\ ctl'[x].id = ctl[x].id
                       /\ ctl'[x].inuse => ctl[x].inuse
  BY <1>2
<1>4. OwnsExact'
  BY <1>2 DEF OwnersInv, OwnsExact
<1>5. GensBounded' /\ IdsDistinct'
  BY <1>3 DEF OwnersInv, GensBounded, IdsDistinct
<1> QED  BY <1>2, <1>3, <1>4, <1>5

\* A login that waited in slot s goes on waiting, or the slot is released.
LEMMA LoginsKept ==
    ASSUME TableInv, OwnersInv, NEW s \in Slots, NEW n \in Mem,
           Commit(s, n), OwnInv(ctl[s]) => Owned(At(s), n), conns' = conns,
           \A x \in Slots : /\ ctl'[x].gen = ctl[x].gen /\ ctl'[x].id = ctl[x].id
                            /\ ctl'[x].inuse => ctl[x].inuse
                            /\ x # s => ctl'[x] = ctl[x],
           NEW l \in Logins
    PROVE  /\ l.gen <= ctl'[l.slot].gen /\ l.id <= conns'
           /\ ctl'[l.slot].inuse /\ ctl'[l.slot].gen = l.gen =>
                /\ ctl'[l.slot].id = l.id
                /\ ctl'[l.slot].proto = "login" /\ ctl'[l.slot].udata = "null"
           /\ \A x \in Slots : ctl'[x].inuse /\ ctl'[x].id = l.id =>
                l.slot = x /\ l.gen = ctl'[x].gen
<1>1. TypePart /\ l.slot \in Slots
  BY DEF TableInv, TypePart, Logins, Login
<1>2. /\ l.gen <= ctl[l.slot].gen /\ l.id <= conns
      /\ ctl[l.slot].inuse /\ ctl[l.slot].gen = l.gen =>
           /\ ctl[l.slot].id = l.id
           /\ ctl[l.slot].proto = "login" /\ ctl[l.slot].udata = "null"
      /\ \A x \in Slots : ctl[x].inuse /\ ctl[x].id = l.id =>
           l.slot = x /\ l.gen = ctl[x].gen
  BY DEF OwnersInv, LoginsNamed
<1>3. ASSUME ctl'[l.slot].inuse, ctl'[l.slot].gen = l.gen
      PROVE  ctl'[l.slot].proto = "login" /\ ctl'[l.slot].udata = "null"
  <2>1. ctl[l.slot].proto = "login" /\ ctl[l.slot].udata = "null"
    BY <1>1, <1>2, <1>3
  <2>2. CASE l.slot # s
    BY <1>1, <2>1, <2>2
  <2>3. CASE l.slot = s
    <3>1. PICK o : o = At(s)
      OBVIOUS
    <3>2. o.c = ctl[s] /\ ctl'[s] = n.c
      BY <1>1, <3>1, AtIs, CommitIs
    <3>3. Owned(o, n)
      BY <3>1 DEF OwnersInv, OwnsExact
    <3> QED  BY <1>3, <2>1, <2>3, <3>2, <3>3 DEF Owned
  <2> QED  BY <2>2, <2>3
<1> QED  BY <1>1, <1>2, <1>3

\* r things and the k ones of the slots make o, and slot s now holds h1 instead
\* of h.
LEMMA Balance ==
    ASSUME NEW r \in Int, NEW k \in Int, NEW k1 \in Int, NEW h \in Int,
           NEW h1 \in Int, NEW o1 \in Int, NEW o, o = r + k,
           o1 - h1 = o - h, k1 - h1 = k - h
    PROVE  o1 = r + k1
  OBVIOUS

\* The buffers stay owned when slot s holds what has been allocated for it.
LEMMA BuffersKept ==
    ASSUME TypePart, LoginsDistinct, BuffersOwned, NEW s \in Slots,
           NEW n \in Mem, Commit(s, n), srvq' = srvq,
           n.outbufs - HeldOutbufs(n.c) = outbufs - HeldOutbufs(ctl[s]),
           n.handles - HeldHandles(n.c) = handles - HeldHandles(ctl[s])
    PROVE  BuffersOwned'
<1>1. /\ outbufs = Cardinality(srvq) + Cardinality(OutbufSlots)
      /\ handles = Cardinality(EchoSlots)
  BY BuffersOwnedIs
<1>2. outbufs' = n.outbufs /\ handles' = n.handles
  BY CommitIs
<1>3. /\ Cardinality(OutbufSlots) \in Nat /\ Cardinality(OutbufSlots') \in Nat
      /\ Cardinality(EchoSlots) \in Nat /\ Cardinality(EchoSlots') \in Nat
      /\ Cardinality(OutbufSlots') - HeldOutbufs(n.c)
           = Cardinality(OutbufSlots) - HeldOutbufs(ctl[s])
      /\ Cardinality(EchoSlots') - HeldHandles(n.c)
           = Cardinality(EchoSlots) - HeldHandles(ctl[s])
  BY HeldCount
<1>4. Cardinality(srvq) \in Nat
  BY LoginsCount, BoundAssumption
<1>5. outbufs' \in Int /\ handles' \in Int
  BY <1>2 DEF Mem
<1>6. /\ HeldOutbufs(n.c) \in Int /\ HeldOutbufs(ctl[s]) \in Int
      /\ HeldHandles(n.c) \in Int /\ HeldHandles(ctl[s]) \in Int
  BY DEF HeldOutbufs, HeldHandles
<1>7. outbufs' = Cardinality(srvq) + Cardinality(OutbufSlots')
  BY <1>1, <1>2, <1>3, <1>4, <1>5, <1>6, Balance
<1>8. handles = 0 + Cardinality(EchoSlots)
  BY <1>1, <1>3
<1>9. handles' = 0 + Cardinality(EchoSlots')
  <2>1. handles' - HeldHandles(n.c) = handles - HeldHandles(ctl[s])
    BY <1>2
  <2> QED  BY <1>3, <1>5, <1>6, <1>8, <2>1, Balance
<1>10. handles' = Cardinality(EchoSlots')
  BY <1>3, <1>9
<1> QED  BY <1>7, <1>10 DEF BuffersOwned, OutbufSlots, EchoSlots

\* A handler of a connection that adds no login.
LEMMA HandlerOwnersInv ==
    ASSUME TableInv, OwnersInv, NEW s \in Slots, ctl[s].inuse, NEW n \in Mem,
           Commit(s, n), Right(At(s), n, s),
           UNCHANGED <<conns, dbq, srvq>>
    PROVE  OwnersInv'
<1>1. TypePart
  BY DEF TableInv
<1>2. PICK o : o = At(s)
  OBVIOUS
<1>3. o.c = ctl[s] /\ o.outbufs = outbufs /\ o.handles = handles
  BY <1>1, <1>2, AtIs
<1>4. Owned(o, n) /\ Handled(o, n, s)
  BY <1>2, <1>3 DEF OwnersInv, OwnsExact, Right
<1>5. OwnInv(n.c) /\ n.c.gen = ctl[s].gen /\ n.c.id = ctl[s].id
  BY <1>3, <1>4 DEF Owned, Handled
<1>6. /\ OwnsExact' /\ GensBounded' /\ IdsDistinct'
      /\ \A x \in Slots : /\ ctl'[x].gen = ctl[x].gen /\ ctl'[x].id = ctl[x].id
                          /\ ctl'[x].inuse => ctl[x].inuse
                          /\ x # s => ctl'[x] = ctl[x]
  BY <1>5, SameIds
<1>7. LoginsNamed'
  <2>1. OwnInv(ctl[s]) => Owned(At(s), n)
    BY <1>2, <1>4
  <2>2. ASSUME NEW l \in Logins
        PROVE  /\ l.gen <= ctl'[l.slot].gen /\ l.id <= conns'
               /\ ctl'[l.slot].inuse /\ ctl'[l.slot].gen = l.gen =>
                    /\ ctl'[l.slot].id = l.id
                    /\ ctl'[l.slot].proto = "login" /\ ctl'[l.slot].udata = "null"
               /\ \A x \in Slots : ctl'[x].inuse /\ ctl'[x].id = l.id =>
                    l.slot = x /\ l.gen = ctl'[x].gen
    BY <1>6, <2>1, LoginsKept
  <2> QED  BY <2>2 DEF LoginsNamed, Logins
<1>8. LoginsDistinct'
  BY DEF OwnersInv, LoginsDistinct, Logins
<1>9. BuffersOwned'
  <2>1. /\ n.outbufs - HeldOutbufs(n.c) = outbufs - HeldOutbufs(ctl[s])
        /\ n.handles - HeldHandles(n.c) = handles - HeldHandles(ctl[s])
    BY <1>3, <1>4 DEF Owned
  <2> QED  BY <1>1, <2>1, BuffersKept DEF OwnersInv
<1> QED  BY <1>6, <1>7, <1>8, <1>9 DEF OwnersInv

\* A first message that asks for a login.
LEMMA QueuedOwnersInv ==
    ASSUME TableInv, OwnersInv, NEW s \in Slots, LoginQueued(s)
    PROVE  OwnersInv'
<1>1. TypePart /\ CountInv(ctl[s]) /\ InPlace
  BY DEF TableInv, CountsExact
<1>2. ctl[s].inuse /\ ctl[s].proto = "none"
  BY <1>1, LoginQueuedWorks
<1>3. PICK n \in Mem : /\ Commit(s, n) /\ Right(At(s), n, s) /\ n.c.inuse
                       /\ n.c.proto = "login" /\ n.c.udata = "null"
  BY <1>1, LoginQueuedWorks
<1>4. PICK q : q = [slot |-> s, gen |-> ctl[s].gen, id |-> ctl[s].id]
  OBVIOUS
<1>5. q.slot = s /\ q.gen = ctl[s].gen /\ q.id = ctl[s].id
  BY <1>4
<1>6. dbq' = dbq \cup {q} /\ srvq' = srvq /\ conns' = conns
  BY <1>4 DEF LoginQueued
<1>7. PICK o : o = At(s)
  OBVIOUS
<1>8. o.c = ctl[s] /\ o.outbufs = outbufs /\ o.handles = handles
  BY <1>1, <1>7, AtIs
<1>9. Owned(o, n) /\ Handled(o, n, s)
  BY <1>3, <1>7, <1>8 DEF OwnersInv, OwnsExact, Right
<1>10. OwnInv(n.c) /\ n.c.gen = ctl[s].gen /\ n.c.id = ctl[s].id
  BY <1>8, <1>9 DEF Owned, Handled
<1>11. /\ OwnsExact' /\ GensBounded' /\ IdsDistinct'
       /\ \A x \in Slots : /\ ctl'[x].gen = ctl[x].gen /\ ctl'[x].id = ctl[x].id
                           /\ ctl'[x].inuse => ctl[x].inuse
                           /\ x # s => ctl'[x] = ctl[x]
  BY <1>2, <1>3, <1>6, <1>10, SameIds
<1>12. BuffersOwned'
  <2>1. /\ n.outbufs - HeldOutbufs(n.c) = outbufs - HeldOutbufs(ctl[s])
        /\ n.handles - HeldHandles(n.c) = handles - HeldHandles(ctl[s])
    BY <1>8, <1>9 DEF Owned
  <2> QED  BY <1>1, <1>3, <1>6, <2>1, BuffersKept DEF OwnersInv
<1>13. Logins' = Logins \cup {q}
  BY <1>6 DEF Logins
<1>14. ctl'[s] = n.c
  BY <1>1, <1>3, CommitIs
\* No login of this connection is under way yet.
<1>15. \A l \in Logins : l.id # q.id
  <2> SUFFICES ASSUME NEW l \in Logins, l.id = q.id PROVE FALSE
    OBVIOUS
  <2>1. l.slot = s /\ l.gen = ctl[s].gen
    BY <1>2, <1>5 DEF OwnersInv, LoginsNamed
  <2>2. ctl[s].proto = "login"
    BY <1>2, <2>1 DEF OwnersInv, LoginsNamed
  <2> QED  BY <1>2, <2>2
<1>16. LoginsNamed'
  <2>1. OwnInv(ctl[s]) => Owned(At(s), n)
    BY <1>7, <1>9
  <2>2. ASSUME NEW l \in Logins
        PROVE  /\ l.gen <= ctl'[l.slot].gen /\ l.id <= conns'
               /\ ctl'[l.slot].inuse /\ ctl'[l.slot].gen = l.gen =>
                    /\ ctl'[l.slot].id = l.id
                    /\ ctl'[l.slot].proto = "login" /\ ctl'[l.slot].udata = "null"
               /\ \A x \in Slots : ctl'[x].inuse /\ ctl'[x].id = l.id =>
                    l.slot = x /\ l.gen = ctl'[x].gen
    BY <1>3, <1>6, <1>11, <2>1, LoginsKept
  <2>3. /\ q.gen <= ctl'[q.slot].gen /\ q.id <= conns'
        /\ ctl'[q.slot].id = q.id
        /\ ctl'[q.slot].proto = "login" /\ ctl'[q.slot].udata = "null"
    <3>1. ctl[s].gen <= ctl[s].gen /\ ctl[s].id <= conns
      BY <1>1, <1>2 DEF TypePart, InPlace, Conn
    <3> QED  BY <1>3, <1>5, <1>6, <1>11, <1>14, <3>1
  <2>4. \A x \in Slots : ctl'[x].inuse /\ ctl'[x].id = q.id =>
          q.slot = x /\ q.gen = ctl'[x].gen
    BY <1>2, <1>5, <1>11 DEF OwnersInv, IdsDistinct
  <2> QED  BY <1>13, <2>2, <2>3, <2>4 DEF LoginsNamed
<1>17. LoginsDistinct'
  <2>1. q \notin Logins
    BY <1>15
  <2>2. \A l, k \in Logins' : l.id = k.id => l = k
    BY <1>13, <1>15 DEF OwnersInv, LoginsDistinct
  <2> QED  BY <1>6, <2>1, <2>2 DEF OwnersInv, LoginsDistinct, Logins
<1> QED  BY <1>11, <1>12, <1>16, <1>17 DEF OwnersInv

\* A connection is accepted in slot s, while the counters do not wrap.
LEMMA ConnectOwnersInv ==
    ASSUME MaxConns < GenMod, TableInv, OwnersInv, NEW s \in Slots,
           ~ctl[s].inuse, NEW link, NEW n \in Mem, Commit(s, n),
           Fresh(s, link, n), conns < MaxConns, conns' = conns + 1,
           UNCHANGED <<dbq, srvq>>
    PROVE  OwnersInv'
<1>1. TypePart /\ InPlace
  BY DEF TableInv
<1>2. ctl'[s] = n.c /\ \A x \in Slots : x # s => ctl'[x] = ctl[x]
  BY <1>1, CommitIs
<1>3. /\ OwnInv(n.c) /\ n.c.id = conns + 1
      /\ n.outbufs - HeldOutbufs(n.c) = outbufs
      /\ n.handles - HeldHandles(n.c) = handles
  BY DEF Fresh
<1>4. /\ conns \in Nat /\ MaxConns \in Nat /\ GenMod \in Nat
      /\ \A x \in Slots : ctl[x].gen \in Nat /\ ctl[x].gen <= conns
  BY <1>1, BoundAssumption, TableAssumption
     DEF TypePart, Conn, OwnersInv, GensBounded
<1>5. n.c.gen = ctl[s].gen + 1
  <2>1. PICK g \in Nat : g = ctl[s].gen
    BY <1>4
  <2>2. g + 1 \in 0 .. GenMod - 1
    BY <1>4, <2>1
  <2>3. (g + 1) % GenMod = g + 1
    BY <1>4, <2>1, <2>2
  <2> QED  BY <2>1, <2>3 DEF Fresh
<1>6. GensBounded'
  <2> SUFFICES ASSUME NEW x \in Slots PROVE ctl'[x].gen <= conns'
    BY DEF GensBounded
  <2>1. CASE x = s
    BY <1>2, <1>4, <1>5, <2>1
  <2>2. CASE x # s
    BY <1>2, <1>4, <2>2
  <2> QED  BY <2>1, <2>2
<1>7. \A x \in Slots : ctl[x].inuse => ctl[x].id # conns + 1
  BY <1>1, <1>4 DEF InPlace
<1>8. IdsDistinct'
  BY <1>2, <1>3, <1>7 DEF OwnersInv, IdsDistinct
<1>9. OwnsExact'
  BY <1>2, <1>3 DEF OwnersInv, OwnsExact
<1>10. BuffersOwned'
  <2>1. HeldOutbufs(ctl[s]) = 0 /\ HeldHandles(ctl[s]) = 0
    BY DEF HeldOutbufs, HeldHandles
  <2>2. outbufs - 0 = outbufs /\ handles - 0 = handles
    BY <1>1 DEF TypePart
  <2>3. /\ n.outbufs - HeldOutbufs(n.c) = outbufs - HeldOutbufs(ctl[s])
        /\ n.handles - HeldHandles(n.c) = handles - HeldHandles(ctl[s])
    BY <1>3, <2>1, <2>2, Zenon
  <2> QED  BY <1>1, <2>3, BuffersKept DEF OwnersInv
<1>11. LoginsDistinct'
  BY DEF OwnersInv, LoginsDistinct, Logins
<1>12. LoginsNamed'
  <2> SUFFICES ASSUME NEW l \in Logins
               PROVE  /\ l.gen <= ctl'[l.slot].gen /\ l.id <= conns'
                      /\ ctl'[l.slot].inuse /\ ctl'[l.slot].gen = l.gen =>
                           /\ ctl'[l.slot].id = l.id
                           /\ ctl'[l.slot].proto = "login"
                           /\ ctl'[l.slot].udata = "null"
                      /\ \A x \in Slots : ctl'[x].inuse /\ ctl'[x].id = l.id =>
                           l.slot = x /\ l.gen = ctl'[x].gen
    BY DEF LoginsNamed, Logins
  <2>1. l.slot \in Slots /\ l.gen \in Nat /\ l.id \in Nat
    BY <1>1, <1>4 DEF TypePart, Logins, Login
  <2>2. /\ l.gen <= ctl[l.slot].gen /\ l.id <= conns
        /\ ctl[l.slot].inuse /\ ctl[l.slot].gen = l.gen =>
             /\ ctl[l.slot].id = l.id
             /\ ctl[l.slot].proto = "login" /\ ctl[l.slot].udata = "null"
        /\ \A x \in Slots : ctl[x].inuse /\ ctl[x].id = l.id =>
             l.slot = x /\ l.gen = ctl[x].gen
    BY DEF OwnersInv, LoginsNamed
  <2>3. l.id # conns + 1 /\ l.id <= conns'
    BY <1>4, <2>1, <2>2
  <2>4. \A x \in Slots : ctl'[x].inuse /\ ctl'[x].id = l.id =>
          l.slot = x /\ l.gen = ctl'[x].gen
    BY <1>2, <1>3, <2>2, <2>3
  <2>5. CASE l.slot = s
    <3>1. l.gen <= ctl'[s].gen /\ ctl'[s].gen # l.gen
      BY <1>2, <1>4, <1>5, <2>1, <2>2, <2>5
    <3> QED  BY <2>3, <2>4, <2>5, <3>1
  <2>6. CASE l.slot # s
    BY <1>2, <2>1, <2>2, <2>3, <2>4, <2>6
  <2> QED  BY <2>5, <2>6
<1> QED  BY <1>6, <1>8, <1>9, <1>10, <1>11, <1>12 DEF OwnersInv

\* The answer of the database, given to the connection that waits for it.
LEMMA ReplyOwnersInv ==
    ASSUME TableInv, OwnersInv, NEW l \in srvq, UidMatches(l),
           internal_resolve_login(l)
    PROVE  OwnersInv'
<1>1. TypePart
  BY DEF TableInv
<1>2. PICK sent \in BOOLEAN : Commit(l.slot, Reply(At(l.slot), sent))
  BY DEF internal_resolve_login
<1>3. srvq' = srvq \ {l} /\ dbq' = dbq /\ conns' = conns
  BY DEF internal_resolve_login
<1>4. PICK s : s = l.slot
  OBVIOUS
<1>5. s \in Slots /\ ctl[s].inuse /\ l \in Logins
  BY <1>4, MatchesInUse DEF Logins
<1>6. /\ ctl[s].gen = l.gen /\ ctl[s].id = l.id
      /\ ctl[s].proto = "login" /\ ctl[s].udata = "null"
  BY <1>4, <1>5 DEF OwnersInv, LoginsNamed, UidMatches
<1>7. PICK o : o = At(s)
  OBVIOUS
<1>8. /\ o \in Mem /\ o.c = ctl[s] /\ CountInv(o.c) /\ OwnInv(o.c)
      /\ o.outbufs = outbufs /\ o.handles = handles
  BY <1>1, <1>5, <1>7, AtIs DEF TableInv, CountsExact, OwnersInv, OwnsExact
<1>9. PICK n : n = Reply(o, sent)
  OBVIOUS
<1>10. /\ Handled(o, n, s) /\ n \in Mem /\ n.c.inuse /\ OwnInv(n.c)
       /\ n.c.proto = "login" /\ n.c.udata = "outbuf"
       /\ n.outbufs = outbufs /\ n.handles = handles
  BY <1>5, <1>6, <1>8, <1>9, ReplyIs
<1>11. Commit(s, n)
  BY <1>2, <1>4, <1>7, <1>9
<1>12. n.c.gen = ctl[s].gen /\ n.c.id = ctl[s].id
  BY <1>8, <1>10 DEF Handled
<1>13. /\ OwnsExact' /\ GensBounded' /\ IdsDistinct'
       /\ \A x \in Slots : /\ ctl'[x].gen = ctl[x].gen /\ ctl'[x].id = ctl[x].id
                           /\ ctl'[x].inuse => ctl[x].inuse
                           /\ x # s => ctl'[x] = ctl[x]
  BY <1>3, <1>5, <1>10, <1>11, <1>12, SameIds
<1>14. LoginsDistinct'
  BY <1>3 DEF OwnersInv, LoginsDistinct, Logins
<1>15. Logins' \subseteq Logins \ {l}
  BY <1>3 DEF OwnersInv, LoginsDistinct, Logins
<1>16. LoginsNamed'
  <2> SUFFICES ASSUME NEW k \in Logins'
               PROVE  /\ k.gen <= ctl'[k.slot].gen /\ k.id <= conns'
                      /\ ctl'[k.slot].inuse /\ ctl'[k.slot].gen = k.gen =>
                           /\ ctl'[k.slot].id = k.id
                           /\ ctl'[k.slot].proto = "login"
                           /\ ctl'[k.slot].udata = "null"
                      /\ \A x \in Slots : ctl'[x].inuse /\ ctl'[x].id = k.id =>
                           k.slot = x /\ k.gen = ctl'[x].gen
    BY DEF LoginsNamed
  <2>1. k \in Logins /\ k # l /\ k.slot \in Slots
    BY <1>1, <1>15 DEF TypePart, Logins, Login
  <2>2. /\ k.gen <= ctl[k.slot].gen /\ k.id <= conns
        /\ ctl[k.slot].inuse /\ ctl[k.slot].gen = k.gen =>
             /\ ctl[k.slot].id = k.id
             /\ ctl[k.slot].proto = "login" /\ ctl[k.slot].udata = "null"
        /\ \A x \in Slots : ctl[x].inuse /\ ctl[x].id = k.id =>
             k.slot = x /\ k.gen = ctl[x].gen
    BY <2>1 DEF OwnersInv, LoginsNamed
  \* It is not that of the connection that has been answered.
  <2>3. ~(k.slot = s /\ ctl[s].gen = k.gen)
    <3> SUFFICES ASSUME k.slot = s, ctl[s].gen = k.gen PROVE FALSE
      OBVIOUS
    <3>1. k.id = l.id
      BY <1>5, <1>6, <2>2
    <3> QED  BY <1>5, <2>1, <3>1 DEF OwnersInv, LoginsDistinct
  <2> QED  BY <1>3, <1>13, <2>1, <2>2, <2>3
<1>17. BuffersOwned'
  <2>1. /\ outbufs = Cardinality(srvq) + Cardinality(OutbufSlots)
        /\ handles = Cardinality(EchoSlots)
    BY BuffersOwnedIs DEF OwnersInv
  <2>2. outbufs' = outbufs /\ handles' = handles
    BY <1>1, <1>5, <1>10, <1>11, CommitIs
  <2>3. /\ Cardinality(OutbufSlots) \in Nat /\ Cardinality(OutbufSlots') \in Nat
        /\ Cardinality(EchoSlots) \in Nat /\ Cardinality(EchoSlots') \in Nat
        /\ Cardinality(OutbufSlots') - HeldOutbufs(n.c)
             = Cardinality(OutbufSlots) - HeldOutbufs(ctl[s])
        /\ Cardinality(EchoSlots') - HeldHandles(n.c)
             = Cardinality(EchoSlots) - HeldHandles(ctl[s])
    BY <1>1, <1>5, <1>10, <1>11, HeldCount
  <2>4. /\ HeldOutbufs(n.c) = 1 /\ HeldOutbufs(ctl[s]) = 0
        /\ HeldHandles(n.c) = 0 /\ HeldHandles(ctl[s]) = 0
    BY <1>6, <1>10 DEF HeldOutbufs, HeldHandles
  <2>5. IsFiniteSet(srvq) /\ Cardinality(srvq) \in Nat
    BY <1>1, LoginsCount, BoundAssumption DEF OwnersInv
  <2>6. Cardinality(srvq') = Cardinality(srvq) - 1
    BY <1>3, <2>5, FS_RemoveElement
  <2>7. /\ Cardinality(OutbufSlots') = Cardinality(OutbufSlots) + 1
        /\ Cardinality(EchoSlots') = Cardinality(EchoSlots)
    BY <2>3, <2>4
  <2>8. /\ outbufs' = Cardinality(srvq') + Cardinality(OutbufSlots')
        /\ handles' = Cardinality(EchoSlots')
    BY <2>1, <2>2, <2>3, <2>5, <2>6, <2>7
  <2> QED  BY <2>8 DEF BuffersOwned, OutbufSlots, EchoSlots
<1> QED  BY <1>13, <1>14, <1>16, <1>17 DEF OwnersInv

\* A login moves on, or is dropped, with its outbuf.
LEMMA LoginOwnersInv ==
    ASSUME TableInv, OwnersInv, UNCHANGED <<ctl, handles, conns>>,
           NEW l,
           \/ l \in dbq /\ database_resolve_login(l)
           \/ l \in srvq /\ ~UidMatches(l) /\ internal_resolve_login(l)
    PROVE  OwnersInv'
<1>1. TypePart
  BY DEF TableInv
<1>2. dbq \cap srvq = {} /\ \A k, j \in Logins : k.id = j.id => k = j
  BY DEF OwnersInv, LoginsDistinct
<1>3. /\ outbufs = Cardinality(srvq) + Cardinality(OutbufSlots)
      /\ handles = Cardinality(EchoSlots)
  BY BuffersOwnedIs DEF OwnersInv
<1>4. IsFiniteSet(srvq) /\ Cardinality(srvq) \in Nat
  BY <1>1, LoginsCount, BoundAssumption DEF OwnersInv
<1>5. OutbufSlots' = OutbufSlots /\ EchoSlots' = EchoSlots
  BY DEF OutbufSlots, EchoSlots
<1>6. Cardinality(OutbufSlots) \in Nat
  <2>1. OutbufSlots \in SUBSET Slots
    BY DEF OutbufSlots
  <2> QED  BY <2>1, SwapCount
<1>7. /\ Logins' \subseteq Logins /\ dbq' \cap srvq' = {}
      /\ outbufs' = Cardinality(srvq') + Cardinality(OutbufSlots)
  <2>1. CASE l \in dbq /\ database_resolve_login(l)
    <3>1. dbq' = dbq \ {l} /\ srvq' = srvq \cup {l} /\ outbufs' = outbufs + 1
      BY <2>1 DEF database_resolve_login
    <3>2. l \notin srvq
      BY <1>2, <2>1
    <3>3. Cardinality(srvq') = Cardinality(srvq) + 1
      BY <1>4, <3>1, <3>2, FS_AddElement
    <3>4. Logins' \subseteq Logins /\ dbq' \cap srvq' = {}
      BY <1>2, <2>1, <3>1 DEF Logins
    <3> QED  BY <1>3, <1>4, <1>6, <3>1, <3>3, <3>4
  <2>2. CASE l \in srvq /\ ~UidMatches(l) /\ internal_resolve_login(l)
    <3>1. dbq' = dbq /\ srvq' = srvq \ {l} /\ outbufs' = outbufs - 1
      BY <2>2 DEF internal_resolve_login
    <3>2. Cardinality(srvq') = Cardinality(srvq) - 1
      BY <1>4, <2>2, <3>1, FS_RemoveElement
    <3>3. Logins' \subseteq Logins /\ dbq' \cap srvq' = {}
      BY <1>2, <3>1 DEF Logins
    <3> QED  BY <1>3, <1>4, <1>6, <3>1, <3>2, <3>3
  <2> QED  BY <2>1, <2>2
<1>8. BuffersOwned'
  BY <1>3, <1>5, <1>7 DEF BuffersOwned, OutbufSlots, EchoSlots
<1>9. LoginsDistinct'
  BY <1>2, <1>7 DEF LoginsDistinct
<1>10. LoginsNamed'
  BY <1>7 DEF OwnersInv, LoginsNamed
<1>11. OwnsExact' /\ GensBounded' /\ IdsDistinct'
  BY DEF OwnersInv, OwnsExact, GensBounded, IdsDistinct
<1> QED  BY <1>8, <1>9, <1>10, <1>11 DEF OwnersInv

LEMMA InitOwnersInv == Init => OwnersInv
<1> SUFFICES ASSUME Init PROVE OwnersInv
  OBVIOUS
<1>1. \A s \in Slots : /\ ctl[s].inuse = FALSE /\ ctl[s].gen = 0
  BY DEF Init, Unused
<1>2. OutbufSlots = {} /\ EchoSlots = {} /\ srvq = {} /\ dbq = {}
  BY <1>1 DEF Init, OutbufSlots, EchoSlots
<1>3. BuffersOwned
  <2>1. outbufs = 0 /\ handles = 0 /\ 0 = 0 + 0
    BY DEF Init
  <2>2. Cardinality({}) = 0
    BY FS_EmptySet
  <2> QED  BY <1>2, <2>1, <2>2, BuffersOwnedIs, Zenon
<1>4. GensBounded
  <2>1. conns = 0 /\ 0 <= 0
    BY DEF Init
  <2> QED  BY <1>1, <2>1 DEF GensBounded
<1>5. OwnsExact /\ IdsDistinct
  BY <1>1, Zenon DEF OwnsExact, OwnInv, IdsDistinct
<1>6. LoginsNamed /\ LoginsDistinct
  BY <1>2 DEF LoginsNamed, LoginsDistinct, Logins
<1> QED  BY <1>3, <1>4, <1>5, <1>6 DEF OwnersInv

LEMMA StartOwnersInv ==
    ASSUME MaxConns < GenMod, TableInv, OwnersInv, NEW sends_first \in BOOLEAN,
           connmgr_start_connection(sends_first)
    PROVE  OwnersInv'
<1>1. TypePart /\ CountsExact /\ InPlace /\ Linked(Free, freelist, ctl)
  BY DEF TableInv, FreeLinked
<1>2. conns < MaxConns /\ conns' = conns + 1 /\ UNCHANGED <<dbq, srvq>>
  BY DEF connmgr_start_connection
<1>3. ASSUME NEW s \in Slots, ~ctl[s].inuse, NEW link \in 0 .. Nil,
             Connect(s, link, sends_first)
      PROVE  OwnersInv'
  <2>1. Connects(s, link)
    BY <1>1, <1>2, <1>3, ConnectWorks DEF CountsExact
  <2>2. PICK n \in Mem : Commit(s, n) /\ Fresh(s, link, n)
    BY <2>1 DEF Connects
  <2> QED  BY <1>2, <1>3, <2>2, ConnectOwnersInv
<1>4. CASE freelist # Nil /\ Connect(freelist, ctl[freelist].low, sends_first)
  <2>1. freelist \in Free
    BY <1>1, <1>4, LinkedPop
  <2>2. freelist \in Slots /\ ~ctl[freelist].inuse
    BY <2>1 DEF Free
  <2>3. ctl[freelist].low \in 0 .. Nil
    BY <1>1, <2>2 DEF TypePart, Conn
  <2> QED  BY <1>3, <1>4, <2>2, <2>3
<1>5. CASE next_unused_slot < MaxConnections /\ Connect(next_unused_slot, Nil, sends_first)
  <2>1. next_unused_slot \in Slots /\ Nil \in 0 .. Nil
    BY <1>1, <1>5, TableSize DEF TypePart, Slots, Nil
  <2>2. ~ctl[next_unused_slot].inuse
    BY <1>1, <2>1 DEF InPlace, Slots
  <2> QED  BY <1>3, <1>5, <2>1, <2>2
<1>6. CASE UNCHANGED <<ctl, freelist, next_unused_slot, outbufs, handles>>
  <2>1. BuffersOwned' /\ OwnsExact' /\ IdsDistinct' /\ LoginsDistinct'
    BY <1>2, <1>6 DEF OwnersInv, BuffersOwned, OwnsExact, IdsDistinct,
                      LoginsDistinct, Logins
  <2>2. /\ conns \in Nat /\ \A s \in Slots : ctl[s].gen \in Nat
        /\ \A l \in Logins : l.id \in Nat
    BY <1>1, BoundAssumption, TableAssumption DEF TypePart, Conn, Logins, Login
  <2>3. GensBounded'
    BY <1>2, <1>6, <2>2 DEF OwnersInv, GensBounded
  <2>4. \A l \in Logins : l.id <= conns'
    BY <1>2, <2>2 DEF OwnersInv, LoginsNamed
  <2>5. LoginsNamed'
    BY <1>2, <1>6, <2>4 DEF OwnersInv, LoginsNamed, Logins
  <2> QED  BY <2>1, <2>3, <2>5 DEF OwnersInv
<1> QED  BY <1>4, <1>5, <1>6 DEF connmgr_start_connection

LEMMA NextOwnersInv ==
    ASSUME MaxConns < GenMod
    PROVE  TableInv /\ OwnersInv /\ [Next]_vars => OwnersInv'
<1> SUFFICES ASSUME TableInv, OwnersInv, [Next]_vars PROVE OwnersInv'
  OBVIOUS
<1>1. /\ TypePart /\ \A s \in Slots : CountInv(ctl[s])
  BY DEF TableInv, CountsExact
<1>2. ASSUME NEW s \in Slots, Works(s), ctl[s].inuse, UNCHANGED <<conns, dbq, srvq>>
      PROVE  OwnersInv'
  <2>1. PICK n \in Mem : Commit(s, n) /\ Right(At(s), n, s)
    BY <1>2 DEF Works
  <2> QED  BY <1>2, <2>1, HandlerOwnersInv
<1>3. ASSUME NEW sends_first \in BOOLEAN, connmgr_start_connection(sends_first)
      PROVE  OwnersInv'
  BY <1>3, StartOwnersInv
<1>4. ASSUME NEW s \in Slots, ReadStep(s) PROVE OwnersInv'
  <2>1. CASE LoginQueued(s)
    BY <2>1, QueuedOwnersInv
  <2>2. CASE ~LoginQueued(s)
    <3>1. Works(s) /\ UNCHANGED Rest /\ ctl[s].inuse
      BY <1>1, <1>4, <2>2, ReadWorks
    <3> QED  BY <1>2, <3>1 DEF Rest
  <2> QED  BY <2>1, <2>2
<1>5. ASSUME NEW s \in Slots, WriteStep(s) PROVE OwnersInv'
  <2>1. Works(s) /\ UNCHANGED Rest /\ ctl[s].inuse
    BY <1>1, <1>5, WriteWorks
  <2> QED  BY <1>2, <2>1 DEF Rest
<1>6. ASSUME NEW s \in Slots, NEW abort \in BOOLEAN, connection_close(s, abort)
      PROVE  OwnersInv'
  <2>1. Works(s) /\ UNCHANGED Rest /\ ctl[s].inuse
    BY <1>1, <1>6, CloseWorks
  <2> QED  BY <1>2, <2>1 DEF Rest
<1>7. ASSUME UNCHANGED <<ctl, outbufs, handles, conns, dbq, srvq>> PROVE OwnersInv'
  BY <1>7 DEF OwnersInv, OwnsExact, BuffersOwned, GensBounded, IdsDistinct,
              LoginsNamed, LoginsDistinct, Logins
<1>8. ASSUME connmgr_timeout_check PROVE OwnersInv'
  <2>1. PICK s : s = IF scan = NoScan THEN 0 ELSE scan
    OBVIOUS
  <2>2. s \in Slots
    <3>1. 0 \in Slots
      BY TableSize DEF Slots
    <3> QED  BY <1>1, <2>1, <3>1 DEF TypePart
  <2>3. TimeoutTurn(s)
    BY <1>8, <2>1 DEF connmgr_timeout_check
  <2>4. UNCHANGED <<conns, dbq, srvq>>
    BY <2>3 DEF TimeoutTurn
  <2>5. CASE ctl[s].inuse
    <3>1. Works(s)
      BY <1>1, <2>2, <2>3, <2>5, TimeoutWorks
    <3> QED  BY <1>2, <2>2, <2>4, <2>5, <3>1
  <2>6. CASE ~ctl[s].inuse
    <3>1. Commit(s, At(s))
      BY <2>3, <2>6 DEF TimeoutTurn
    <3>2. UNCHANGED <<ctl, freelist, outbufs, handles>>
      BY <1>1, <2>2, <3>1 DEF Commit, At, TypePart
    <3> QED  BY <1>7, <2>4, <3>2
  <2> QED  BY <2>5, <2>6
<1>9. ASSUME NEW l \in dbq, database_resolve_login(l) PROVE OwnersInv'
  <2>1. UNCHANGED <<ctl, handles, conns>>
    BY <1>9 DEF database_resolve_login
  <2> QED  BY <1>9, <2>1, LoginOwnersInv
<1>10. ASSUME NEW l \in srvq, internal_resolve_login(l) PROVE OwnersInv'
  <2>1. CASE UidMatches(l)
    BY <1>10, <2>1, ReplyOwnersInv
  <2>2. CASE ~UidMatches(l)
    <3>1. UNCHANGED <<ctl, handles, conns>>
      BY <1>10, <2>2 DEF internal_resolve_login
    <3> QED  BY <1>10, <2>2, <3>1, LoginOwnersInv
  <2> QED  BY <2>1, <2>2
<1>11. ASSUME UNCHANGED vars PROVE OwnersInv'
  BY <1>7, <1>11 DEF vars
<1> QED  BY <1>3, <1>4, <1>5, <1>6, <1>8, <1>9, <1>10, <1>11 DEF Next

-----------------------------------------------------------------------------
(***************************************************************************)
(* What the invariants say of the program.                                 *)
(***************************************************************************)

\* As long as no more connections come than a counter counts, they keep apart.
LEMMA OwnersInvariant ==
    ASSUME MaxConns < GenMod
    PROVE  Spec => [](TableInv /\ OwnersInv)
<1>1. Init => OwnersInv
  BY InitOwnersInv
<1>2. TableInv /\ OwnersInv /\ [Next]_vars => OwnersInv'
  BY NextOwnersInv
<1> QED  BY <1>1, <1>2, TableInvariant, PTL DEF Spec

LEMMA InvTypeOK ==
    ASSUME TableInv, OwnersInv PROVE TypeOK
<1>1. TypePart /\ InPlace
  BY DEF TableInv
<1>2. /\ outbufs = Cardinality(srvq) + Cardinality(OutbufSlots)
      /\ handles = Cardinality(EchoSlots)
  BY BuffersOwnedIs DEF OwnersInv
<1>3. Cardinality(srvq) \in 0 .. MaxConns
  BY <1>1, LoginsCount DEF OwnersInv
<1>4. Cardinality(OutbufSlots) \in 0 .. MaxConns
  BY <1>1, SlotsCount DEF OwnersInv, OutbufSlots
<1>5. Cardinality(EchoSlots) \in 0 .. MaxConns
  BY <1>1, SlotsCount DEF OwnersInv, EchoSlots
<1>6. outbufs \in 0 .. 2 * MaxConns /\ handles \in 0 .. MaxConns
  BY <1>2, <1>3, <1>4, <1>5, BoundAssumption
<1> QED  BY <1>1, <1>6 DEF TypePart, TypeOK

\* Type correctness, with the bounds on the buffers: no more outbufs than two
\* for each connection, no more handles than one.
THEOREM ConnTypes ==
    ASSUME MaxConns < GenMod
    PROVE  Spec => []TypeOK
<1>1. TableInv /\ OwnersInv => TypeOK
  BY InvTypeOK
<1> QED  BY <1>1, OwnersInvariant, PTL

\* The answer of the database goes to the connection that asked, or nowhere:
\* login_info keeps a uid, and a slot that is reused has another one, for tables
\* of any size.  The hypothesis is what the code relies on: no more connections
\* than the upper half of a uid has values.
THEOREM RepliesGoHome ==
    ASSUME MaxConns < GenMod
    PROVE  Spec => []ReplyToRightConnection
<1>1. TableInv /\ OwnersInv => ReplyToRightConnection
  <2> SUFFICES ASSUME TableInv, OwnersInv, NEW l \in dbq \cup srvq, UidMatches(l)
               PROVE  /\ ctl[l.slot].inuse /\ ctl[l.slot].id = l.id
                      /\ ctl[l.slot].proto = "login"
    BY DEF ReplyToRightConnection
  <2>1. ctl[l.slot].inuse
    BY MatchesInUse
  <2> QED  BY <2>1 DEF OwnersInv, LoginsNamed, Logins, UidMatches
<1> QED  BY <1>1, OwnersInvariant, PTL

\* Every outbuf belongs to one server task or one connection and every handle to
\* one connection, whichever of on_write, on_close and internal_resolve_login
\* comes first.
THEOREM BuffersHaveOwners ==
    ASSUME MaxConns < GenMod
    PROVE  Spec => []BuffersOwned
<1>1. OwnersInv => BuffersOwned
  BY DEF OwnersInv
<1> QED  BY <1>1, OwnersInvariant, PTL

\* The buffer that the OS sends from is neither released nor reused.
THEOREM SentBuffersStable ==
    ASSUME MaxConns < GenMod
    PROVE  Spec => []SentBufferStable
<1>1. TableInv /\ OwnersInv => SentBufferStable
  <2> SUFFICES ASSUME TableInv, OwnersInv, NEW s \in Slots, ctl[s].wr = "posted"
               PROVE  /\ ctl[s].inuse /\ ctl[s].outprog
                      /\ ctl[s].proto \in {"echo", "login", "game"}
                      /\ ctl[s].proto = "login" => ctl[s].udata = "outbuf"
                      /\ ctl[s].proto = "echo" => ~ctl[s].ready
    BY DEF SentBufferStable
  <2>1. ctl[s] \in Conn /\ CountInv(ctl[s]) /\ OwnInv(ctl[s])
    BY DEF TableInv, TypePart, CountsExact, OwnersInv, OwnsExact
  <2>2. ctl[s].inuse /\ ctl[s].outprog
    BY <2>1 DEF CountInv
  <2> QED  BY <2>1, <2>2 DEF OwnInv, Conn
<1> QED  BY <1>1, OwnersInvariant, PTL
==============================================================================
