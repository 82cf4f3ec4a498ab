------------------------------ MODULE ConnMgr ------------------------------
(***************************************************************************)
(* The connection manager of the network thread (server/iocp_connmgr.c)    *)
(* with the protocols it calls back (protocol_echo.c, protocol_login.c,    *)
(* protocol_game.c) and the way of a login through the database thread and *)
(* back.                                                                   *)
(*                                                                         *)
(* Every handler runs to completion on the server thread, so each action   *)
(* is one handler: the completion of a read or a write, a new connection,  *)
(* a server task.  connmgr_timeout_check visits the slots one after the    *)
(* other: `scan' is its loop variable, and no other handler runs meanwhile.*)
(* Message bytes are abstracted to what the protocols make of them;        *)
(* rdwr_count, only ever compared with zero, to whether it is zero; a uid  *)
(* is the pair of its halves.  The operating system (external) completes a *)
(* posted operation in any way it likes, and may fail to start one.        *)
(***************************************************************************)
EXTENDS Integers, Sequences, FiniteSets

CONSTANTS
    MaxConnections, \* MAX_CONNECTIONS
    GenMod,         \* 2^16, the range of the upper half of a uid
    MaxConns        \* bound: connections ever accepted

ASSUME TableAssumption == MaxConnections \in Nat \ {0} /\ GenMod \in Nat \ {0}
ASSUME BoundAssumption == MaxConns \in Nat

VARIABLES
    ctl,                \* the connection table
    freelist, next_unused_slot,
    outbufs, handles,   \* outbufs and echo handles allocated and not released
    dbq,                \* logins given to the database thread
    srvq,               \* logins on their way back as server tasks
    conns,              \* ghost: connections accepted so far
    scan,               \* slot connmgr_timeout_check looks at next, or NoScan
    crashed             \* a null pointer was dereferenced

vars == <<ctl, freelist, next_unused_slot, outbufs, handles, dbq, srvq, conns,
          scan, crashed>>

Slots == 0 .. MaxConnections - 1
Nil == MaxConnections       \* UINT16_MAX as a link of the freelist
NoScan == -1

Conn ==
    [gen : 0 .. GenMod - 1, low : 0 .. Nil,           \* the halves of uid
     inuse : BOOLEAN, closing : BOOLEAN,              \* flags
     first : BOOLEAN, outprog : BOOLEAN,
     rdwr : BOOLEAN, pending : 0 .. 2,
     proto : {"none", "echo", "login", "game"},
     udata : {"null", "svc", "handle", "outbuf"},
     ready : BOOLEAN,                                 \* output_ready of echo
     rd : {"none", "length", "body"},                 \* read the OS works on
     wr : {"none", "posted"},                         \* write the OS works on
     cancel : SUBSET {"read", "write"},               \* what was cancelled
     id : 0 .. MaxConns]                              \* ghost: which connection

Login == [slot : Slots, gen : 0 .. GenMod - 1, id : 1 .. MaxConns]

TypeOK ==
    /\ ctl \in [Slots -> Conn]
    /\ freelist \in 0 .. Nil
    /\ next_unused_slot \in 0 .. MaxConnections
    /\ outbufs \in 0 .. 2 * MaxConns
    /\ handles \in 0 .. MaxConns
    /\ dbq \subseteq Login /\ srvq \subseteq Login
    /\ conns \in 0 .. MaxConns
    /\ scan \in {NoScan} \cup Slots
    /\ crashed \in BOOLEAN

\* ctl is a static array: all zero.
Unused ==
    [gen |-> 0, low |-> 0, inuse |-> FALSE, closing |-> FALSE, first |-> FALSE,
     outprog |-> FALSE, rdwr |-> FALSE, pending |-> 0, proto |-> "none",
     udata |-> "null", ready |-> FALSE, rd |-> "none", wr |-> "none",
     cancel |-> {}, id |-> 0]

Init ==
    /\ ctl = [s \in Slots |-> Unused]
    /\ freelist = Nil
    /\ next_unused_slot = 0
    /\ outbufs = 0 /\ handles = 0
    /\ dbq = {} /\ srvq = {}
    /\ conns = 0
    /\ scan = NoScan
    /\ crashed = FALSE

-----------------------------------------------------------------------------
(***************************************************************************)
(* A handler works on m: the connection c it is about and the globals it   *)
(* may change.  The operators below are the static functions of the source *)
(* file, from m to m.                                                      *)
(***************************************************************************)

At(s) == [c |-> ctl[s], freelist |-> freelist,
          outbufs |-> outbufs, handles |-> handles]

Commit(s, m) ==
    /\ ctl' = [ctl EXCEPT ![s] = m.c]
    /\ freelist' = m.freelist
    /\ outbufs' = m.outbufs
    /\ handles' = m.handles

\* Mutant: on_close of login leaves the outbuf to on_write.
OnCloseKeepsOutbuf(m) ==
    IF m.c.proto = "echo" THEN [m EXCEPT !.handles = @ - 1] ELSE m

\* on_close of the protocols: login releases an outbuf, echo frees its handle.
on_close(m) ==
    CASE m.c.proto = "echo" -> [m EXCEPT !.handles = @ - 1]
      [] m.c.proto = "login" /\ m.c.udata = "outbuf" ->
           [m EXCEPT !.outbufs = @ - 1, !.c.udata = "null"]
      [] OTHER -> m

internal_dispatch_on_close(m) == [on_close(m) EXCEPT !.c.proto = "none"]

\* Mutant: the freed slot is not linked to the rest of the freelist.
FreeWithoutLink(m, s) == [m EXCEPT !.freelist = s, !.c.inuse = FALSE]

internal_free(m, s) ==
    [m EXCEPT !.c.low = m.freelist, !.freelist = s, !.c.inuse = FALSE]

internal_close_operation(m, s) == internal_free(internal_dispatch_on_close(m), s)

Outstanding(c) ==
    (IF c.rd = "none" THEN {} ELSE {"read"}) \cup
    (IF c.wr = "none" THEN {} ELSE {"write"})

\* Mutant: the connection is released although the OS still uses it.
CloseAtOnce(m, s, abort) == internal_close_operation(m, s)

\* Mutant: an abort cancels the read only.
AbortKeepsWrite(m, s, abort) ==
    IF m.c.pending = 0
    THEN internal_close_operation(m, s)
    ELSE [m EXCEPT !.c.closing = TRUE,
                   !.c.cancel = @ \cup (Outstanding(m.c) \cap {"read"})]

internal_start_close_operation(m, s, abort) ==
    IF m.c.pending = 0
    THEN internal_close_operation(m, s)
    ELSE [m EXCEPT !.c.closing = TRUE,
                   !.c.cancel = @ \cup (Outstanding(m.c) \cap
                        (IF abort THEN {"read", "write"} ELSE {"read"}))]

internal_close(m, s) == internal_start_close_operation(m, s, FALSE)
internal_abort(m, s) == internal_start_close_operation(m, s, TRUE)

\* A WSARecv that was accepted.
internal_start_async_read(m, what) ==
    [m EXCEPT !.c.rd = what, !.c.pending = @ + 1]

\* Mutant: a write is not counted as pending work.
StartWriteUncounted(m) == [m EXCEPT !.c.wr = "posted", !.c.outprog = TRUE]

\* A WSASend that was accepted.
internal_start_async_write(m) ==
    [m EXCEPT !.c.wr = "posted", !.c.outprog = TRUE, !.c.pending = @ + 1]

\* CONN_OP_RETRIES_BEFORE_CLOSING attempts: `started' tells whether one of them
\* succeeded.
internal_async_read(m, s, what, started) ==
    IF started THEN internal_start_async_read(m, what) ELSE internal_abort(m, s)

internal_async_write(m, s, started) ==
    IF started THEN internal_start_async_write(m) ELSE internal_abort(m, s)

\* One attempt, unless a message is still being sent.
connection_send(m, started) ==
    IF ~m.c.outprog /\ started THEN internal_start_async_write(m) ELSE m

-----------------------------------------------------------------------------
\* The server thread is between two handlers.
Idle == scan = NoScan /\ ~crashed

UidMatches(l) == ctl[l.slot].gen = l.gen /\ ctl[l.slot].low = l.slot

\* Mutant: the slot counter in the uid is not incremented.
AllocatedSameUid(s) ==
    [ctl[s] EXCEPT !.low = s, !.inuse = TRUE,
                   !.closing = FALSE, !.first = FALSE, !.outprog = FALSE,
                   !.rdwr = TRUE, !.pending = 0, !.proto = "none",
                   !.udata = "svc", !.id = conns + 1]

\* internal_alloc and the assignments of connmgr_start_connection to slot s.
Allocated(s) ==
    [ctl[s] EXCEPT !.gen = (@ + 1) % GenMod, !.low = s, !.inuse = TRUE,
                   !.closing = FALSE, !.first = FALSE, !.outprog = FALSE,
                   !.rdwr = TRUE, !.pending = 0, !.proto = "none",
                   !.udata = "svc", !.id = conns + 1]

\* on_assign_protocol of protocol p: echo allocates its handle.
on_assign_protocol(m, p) ==
    IF p = "echo"
    THEN [m EXCEPT !.c.proto = p, !.c.udata = "handle", !.c.ready = TRUE,
                   !.handles = @ + 1]
    ELSE [m EXCEPT !.c.proto = p, !.c.udata = "null"]

\* on_connect of game sends the greeting.
on_connect(m, sent) == connection_send(m, sent)

\* A service whose protocol sends first (game) has it assigned at once.
internal_dispatch_on_connect(m, sends_first, sent) ==
    IF sends_first THEN on_connect(on_assign_protocol(m, "game"), sent) ELSE m

\* The rest of connmgr_start_connection in slot s.  Here the first read is tried
\* once.
Connect(s, link, sends_first) ==
    LET m == [At(s) EXCEPT !.c = Allocated(s), !.freelist = link]
    IN  \E sent, started \in BOOLEAN :
          LET k == internal_dispatch_on_connect(m, sends_first, sent)
          IN  Commit(s, internal_async_read(k, s, "length", started))

\* A slot is taken from the freelist, then from the unused part of the table;
\* internal_alloc returns NULL when there is neither, and nobody checks.
connmgr_start_connection(sends_first) ==
    /\ Idle
    /\ conns < MaxConns
    /\ conns' = conns + 1
    /\ UNCHANGED <<dbq, srvq, scan>>
    /\ \/ /\ freelist # Nil
          /\ Connect(freelist, ctl[freelist].low, sends_first)
          /\ UNCHANGED <<next_unused_slot, crashed>>
       \/ /\ freelist = Nil /\ next_unused_slot < MaxConnections
          /\ Connect(next_unused_slot, Nil, sends_first)
          /\ next_unused_slot' = next_unused_slot + 1
          /\ UNCHANGED crashed
       \/ /\ freelist = Nil /\ next_unused_slot >= MaxConnections
          /\ crashed' = TRUE
          /\ UNCHANGED <<ctl, freelist, next_unused_slot, outbufs, handles>>

-----------------------------------------------------------------------------
(***************************************************************************)
(* Completions of reads: internal_on_read_length and internal_on_read_body.*)
(***************************************************************************)

\* Mutant: the pending work is not decreased.
ReadCompletedUncounted(s) ==
    [At(s) EXCEPT !.c.rd = "none", !.c.cancel = @ \ {"read"},
                  !.c.rdwr = @ \/ ctl[s].rd = "body"]

\* What both do first.  Only the body counts as traffic.
ReadCompleted(s) ==
    [At(s) EXCEPT !.c.rd = "none", !.c.cancel = @ \ {"read"},
                  !.c.pending = @ - 1,
                  !.c.rdwr = @ \/ ctl[s].rd = "body"]

Reading(s) == Idle /\ ctl[s].rd # "none"

\* The last completion of a closing connection releases it.
ClosingStep(m, s) ==
    IF m.c.pending = 0 THEN internal_close_operation(m, s) ELSE m

Rest == <<next_unused_slot, dbq, srvq, conns, scan, crashed>>

ReadWhileClosing(s) ==
    /\ Reading(s) /\ ctl[s].closing
    /\ Commit(s, ClosingStep(ReadCompleted(s), s))
    /\ UNCHANGED Rest

\* The failed read is started again.
ReadFailed(s) ==
    /\ Reading(s) /\ ~ctl[s].closing
    /\ \E started \in BOOLEAN :
         Commit(s, internal_async_read(ReadCompleted(s), s, ctl[s].rd, started))
    /\ UNCHANGED Rest

\* The peer closed the connection, or sent a length out of bounds.
ReadRejected(s) ==
    /\ Reading(s) /\ ~ctl[s].closing
    /\ Commit(s, internal_abort(ReadCompleted(s), s))
    /\ UNCHANGED Rest

ReadLength(s) ==
    /\ Reading(s) /\ ~ctl[s].closing /\ ctl[s].rd = "length"
    /\ \E started \in BOOLEAN :
         Commit(s, internal_async_read(ReadCompleted(s), s, "body", started))
    /\ UNCHANGED Rest

\* A message of a connection without protocol selects p: the first one of the
\* service whose identify accepts the message.
Selected(m, p) == IF m.c.proto # "none" THEN m ELSE on_assign_protocol(m, p)

BodyFor(s, protos) ==
    /\ Reading(s) /\ ~ctl[s].closing /\ ctl[s].rd = "body"
    /\ ctl[s].proto \in protos

\* PROTO_ABORT: no protocol identifies the first message, or login receives
\* another one.
UnknownMessage(s) ==
    /\ BodyFor(s, {"none", "login"})
    /\ Commit(s, internal_abort(ReadCompleted(s), s))
    /\ UNCHANGED Rest

\* on_recv_message of echo: answers when its buffer is free, and reads on.
EchoMessage(s) ==
    /\ BodyFor(s, {"none", "echo"})
    /\ \E sent, started \in BOOLEAN :
         LET m == Selected(ReadCompleted(s), "echo")
             k == connection_send(m, sent)
             e == IF m.c.ready
                  THEN [k EXCEPT !.c.ready = k.c.wr = m.c.wr]
                  ELSE m
             f == [e EXCEPT !.c.first = TRUE]
         IN  Commit(s, internal_async_read(f, s, "length", started))
    /\ UNCHANGED Rest

\* on_recv_message of game: all its paths end in PROTO_CLOSE.
GameMessage(s) ==
    /\ BodyFor(s, {"game"})
    /\ LET m == [ReadCompleted(s) EXCEPT !.c.first = TRUE]
       IN  Commit(s, internal_close(m, s))
    /\ UNCHANGED Rest

\* on_recv_first_message of login, malformed: PROTO_CLOSE.
LoginMalformed(s) ==
    /\ BodyFor(s, {"none"})
    /\ LET m == [Selected(ReadCompleted(s), "login") EXCEPT !.c.first = TRUE]
       IN  Commit(s, internal_close(m, s))
    /\ UNCHANGED Rest

\* internal_resolve_login on a connection that is still there: the outbuf is
\* the connection's from now on, sent or not.
Reply(m, sent) == connection_send([m EXCEPT !.c.udata = "outbuf"], sent)

\* on_recv_first_message of login, refused (wrong version, long names, or no
\* database): internal_send_disconnect, then PROTO_CLOSE.
LoginRefused(s) ==
    /\ BodyFor(s, {"none"})
    /\ \E sent \in BOOLEAN :
         LET m == [Selected(ReadCompleted(s), "login") EXCEPT
                     !.c.first = TRUE, !.outbufs = @ + 1]
         IN  Commit(s, internal_close(Reply(m, sent), s))
    /\ UNCHANGED Rest

\* on_recv_first_message of login, queued: PROTO_STOP_READING.
LoginQueued(s) ==
    /\ BodyFor(s, {"none"})
    /\ Commit(s, [Selected(ReadCompleted(s), "login") EXCEPT !.c.first = TRUE])
    /\ dbq' = dbq \cup {[slot |-> s, gen |-> ctl[s].gen, id |-> ctl[s].id]}
    /\ UNCHANGED <<next_unused_slot, srvq, conns, scan, crashed>>

-----------------------------------------------------------------------------
(***************************************************************************)
(* Completions of writes: internal_on_write.                               *)
(***************************************************************************)

WriteCompleted(s) ==
    [At(s) EXCEPT !.c.wr = "none", !.c.cancel = @ \ {"write"},
                  !.c.pending = @ - 1, !.c.rdwr = TRUE]

Writing(s) == Idle /\ ctl[s].wr = "posted"

WriteWhileClosing(s) ==
    /\ Writing(s) /\ ctl[s].closing
    /\ Commit(s, ClosingStep(WriteCompleted(s), s))
    /\ UNCHANGED Rest

\* The message is sent again, however often it has failed.
WriteFailed(s) ==
    /\ Writing(s) /\ ~ctl[s].closing
    /\ \E started \in BOOLEAN :
         Commit(s, internal_async_write(WriteCompleted(s), s, started))
    /\ UNCHANGED Rest

WriteRejected(s) ==
    /\ Writing(s) /\ ~ctl[s].closing
    /\ Commit(s, internal_abort(WriteCompleted(s), s))
    /\ UNCHANGED Rest

\* echo may use its buffer again, login releases the outbuf and returns
\* PROTO_CLOSE, game does nothing.
on_write(m, s) ==
    CASE m.c.proto = "echo" -> [m EXCEPT !.c.ready = TRUE]
      [] m.c.proto = "login" ->
           internal_close([m EXCEPT !.outbufs = @ - 1, !.c.udata = "null"], s)
      [] OTHER -> m

WriteDone(s) ==
    /\ Writing(s) /\ ~ctl[s].closing
    /\ Commit(s, on_write([WriteCompleted(s) EXCEPT !.c.outprog = FALSE], s))
    /\ UNCHANGED Rest

-----------------------------------------------------------------------------
\* One turn of the loop of connmgr_timeout_check.
TimeoutTurn(s) ==
    /\ ~crashed
    /\ s < next_unused_slot
    /\ scan' = IF s + 1 < next_unused_slot THEN s + 1 ELSE NoScan
    /\ Commit(s, IF ~ctl[s].inuse THEN At(s)
                 ELSE IF ctl[s].rdwr THEN [At(s) EXCEPT !.c.rdwr = FALSE]
                 ELSE internal_abort(At(s), s))
    /\ UNCHANGED <<next_unused_slot, dbq, srvq, conns, crashed>>

connmgr_timeout_check == TimeoutTurn(IF scan = NoScan THEN 0 ELSE scan)

\* connection_close and connection_abort with the uid of the connection in s;
\* with any other uid they do nothing.
connection_close(s, abort) ==
    /\ Idle
    /\ ctl[s].inuse
    /\ Commit(s, internal_start_close_operation(At(s), s, abort))
    /\ UNCHANGED Rest

\* database_resolve_login: whatever the database says, an outbuf is filled and
\* a server task queued.  Runs on the database thread.
database_resolve_login(l) ==
    /\ l \in dbq
    /\ ~crashed
    /\ dbq' = dbq \ {l}
    /\ srvq' = srvq \cup {l}
    /\ outbufs' = outbufs + 1
    /\ UNCHANGED <<ctl, freelist, next_unused_slot, handles, conns, scan, crashed>>

\* The server task.  Without a connection the outbuf is released here.
internal_resolve_login(l) ==
    /\ l \in srvq
    /\ Idle
    /\ srvq' = srvq \ {l}
    /\ \/ /\ UidMatches(l)
          /\ \E sent \in BOOLEAN : Commit(l.slot, Reply(At(l.slot), sent))
       \/ /\ ~UidMatches(l)
          /\ outbufs' = outbufs - 1
          /\ UNCHANGED <<ctl, freelist, handles>>
    /\ UNCHANGED <<next_unused_slot, dbq, conns, scan, crashed>>

ReadStep(s) ==
    \/ ReadWhileClosing(s) \/ ReadFailed(s) \/ ReadRejected(s) \/ ReadLength(s)
    \/ UnknownMessage(s) \/ EchoMessage(s) \/ GameMessage(s)
    \/ LoginMalformed(s) \/ LoginRefused(s) \/ LoginQueued(s)

WriteStep(s) ==
    \/ WriteWhileClosing(s) \/ WriteFailed(s) \/ WriteRejected(s) \/ WriteDone(s)

Next ==
    \/ \E sends_first \in BOOLEAN : connmgr_start_connection(sends_first)
    \/ \E s \in Slots : ReadStep(s) \/ WriteStep(s)
    \/ \E s \in Slots, abort \in BOOLEAN : connection_close(s, abort)
    \/ connmgr_timeout_check
    \/ \E l \in dbq : database_resolve_login(l)
    \/ \E l \in srvq : internal_resolve_login(l)

\* server_internal_work checks for timeouts again and again and between two
\* checks takes the completions there are: those of cancelled operations, which
\* the operating system reports sooner or later, are not put off for ever by the
\* checks.  It owes nothing for the others: a silent peer is silent for ever.
Fairness ==
    /\ WF_vars(connmgr_timeout_check)
    /\ \A s \in Slots :
         /\ SF_vars("read" \in ctl[s].cancel /\ ReadWhileClosing(s))
         /\ SF_vars("write" \in ctl[s].cancel /\ WriteWhileClosing(s))

Spec == Init /\ [][Next]_vars /\ Fairness

-----------------------------------------------------------------------------
\* pending_work is the number of operations the OS still holds for a
\* connection, and it holds none for a slot that is not in use: no completion
\* is delivered to a connection that took over the slot.
PendingWorkExact ==
    \A s \in Slots :
        LET c == ctl[s]
        IN  IF c.inuse THEN c.pending = Cardinality(Outstanding(c))
                       ELSE Outstanding(c) = {}

\* The n-th slot on the freelist.
FreeChain ==
    LET chain[n \in 0 .. MaxConnections] ==
          IF n = 0 THEN freelist
          ELSE IF chain[n - 1] = Nil THEN Nil ELSE ctl[chain[n - 1]].low
    IN  chain

\* As the note above internal_alloc says, the uid of a slot in use holds its own
\* position and the uids of the others link the freelist: following it visits
\* every released slot once and ends.  So an accepted connection finds no slot,
\* and connmgr_start_connection a null pointer, only if all are in use.
FreelistSound ==
    LET free == {s \in Slots : s < next_unused_slot /\ ~ctl[s].inuse}
        n == Cardinality(free)
    IN  /\ {FreeChain[i] : i \in 0 .. n - 1} = free
        /\ FreeChain[n] = Nil
        /\ \A s \in Slots : ctl[s].inuse => ctl[s].low = s /\ s < next_unused_slot
        /\ crashed => \A s \in Slots : ctl[s].inuse

\* However long the database takes, and whoever got the slot meanwhile, the uid
\* kept in login_info names the connection that asked, or nothing.
ReplyToRightConnection ==
    \A l \in dbq \cup srvq :
        UidMatches(l) =>
          /\ ctl[l.slot].inuse
          /\ ctl[l.slot].id = l.id
          /\ ctl[l.slot].proto = "login"

\* Every outbuf belongs to one server task or one connection, and every echo
\* handle to one connection: nothing leaks and nothing is released twice,
\* whichever of on_write, on_close and internal_resolve_login comes first.
BuffersOwned ==
    /\ outbufs = Cardinality(srvq) +
                 Cardinality({s \in Slots : ctl[s].inuse /\ ctl[s].udata = "outbuf"})
    /\ handles = Cardinality({s \in Slots : ctl[s].inuse /\ ctl[s].proto = "echo"})

\* While the OS sends a message its buffer stays as it was: the connection and
\* its protocol are there, login has not released the outbuf and echo does not
\* consider its buffer free.
SentBufferStable ==
    \A s \in Slots :
        ctl[s].wr = "posted" =>
          /\ ctl[s].inuse /\ ctl[s].outprog
          /\ ctl[s].proto \in {"echo", "login", "game"}
          /\ ctl[s].proto = "login" => ctl[s].udata = "outbuf"
          /\ ctl[s].proto = "echo" => ~ctl[s].ready

\* connmgr_timeout_check gets rid of every connection without traffic, whether
\* it is reading, stuck in a write, closing already, or waiting for a login
\* answer with no operation started at all.
SilentConnectionDropped ==
    \A s \in Slots : []<>(~ctl[s].inuse \/ ctl[s].rdwr \/ crashed)
=============================================================================
