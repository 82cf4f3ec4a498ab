----------------------------- MODULE LoginReply -----------------------------
(***************************************************************************)
(* A login from the bytes the client sends to the bytes it gets back:      *)
(* on_recv_first_message and database_resolve_login of protocol_login.c,   *)
(* the queries of db/pgsql.c, the output buffers of outbuf.c, and the way  *)
(* a message is padded, encoded and wrapped.                               *)
(*                                                                         *)
(* The server thread receives, sends and closes; the database thread       *)
(* resolves one login after the other.  Both take output buffers from the  *)
(* list of Outbuf.  The two queues between them are FIFO here, as shown    *)
(* for them elsewhere; connections are those of ConnMgr, reduced to        *)
(* whether they are there and whether a message is being sent.  The client *)
(* and the database are external.  RSA is left at what it does to bytes:   *)
(* the plain text comes back as a number, without its leading zeros.       *)
(***************************************************************************)
EXTENDS Xtea, Outbuf

CONSTANTS
    Clients,
    RequestsOf,     \* bound: the requests each client may send
    Accounts,       \* the database: [name, id, pwd, chars] of every account
    RsaLen,         \* 128, the bytes of an RSA block
    NameSize,       \* 32, the size of accname and password
    MaxOutbufLen,   \* MAX_OUTBUF_LEN
    Motd, SvName, GamePort  \* settings

ASSUME LayoutAssumption ==
    /\ NameSize \in 3 .. U16 - 1 /\ RsaLen \in Nat
    /\ 16 + NameSize + 2 + (NameSize - 1) <= RsaLen - 1
    /\ MaxOutbufLen \in 0 .. U16 - 1
    /\ ByteMod > 5     \* the codes, texts and padding below are bytes

\* What a client may send: strings that leave room in the block, with any
\* lengths it may claim for them.
Request ==
    {r \in [version : {"supported", "old", "other"},
            key : [1 .. 4 -> 0 .. U32 - 1],
            alen : 0 .. U16 - 1, acc : Seq(Byte),
            plen : 0 .. U16 - 1, pwd : Seq(Byte)] :
        21 + Len(r.acc) + Len(r.pwd) <= RsaLen}

\* A row of the accounts, with the names of its characters.
Account == [name : Seq(Byte), id : 0 .. U32 - 1, pwd : Seq(Byte),
            chars : Seq(Seq(Byte))]

ASSUME RequestsAssumption == \A c \in Clients : RequestsOf[c] \subseteq Request
ASSUME AccountsAssumption ==    \* the id is the primary key
    /\ Accounts \subseteq Account
    /\ \A a, b \in Accounts : a.id = b.id => a = b
ASSUME SettingsAssumption ==
    Motd \in Seq(Byte) /\ SvName \in Seq(Byte) /\ GamePort \in Nat

None == [none |-> TRUE]
NoId == -1      \* the account of a login is not known yet

VARIABLES
    req,      \* what each client has sent
    conn,     \* its connection: "open", "sending" or "gone"
    udata,    \* the outbuf its connection owns
    tasks,    \* logins in the ring of the database thread
    task,     \* the login it resolves
    res,      \* the result it holds
    results,  \* results libpq has allocated and not released
    db,       \* the connection to the database: "ok" or "lost"
    answers,  \* logins on their way back, with their outbuf
    buf,      \* the outbufs: bytes, write position, were all writes inside
    got       \* what each client read, "closed" if refused without a message

replyVars == <<req, conn, udata, tasks, task, res, results, db, answers, buf, got>>
vars == <<replyVars, listVars>>

-----------------------------------------------------------------------------
(***************************************************************************)
(* Output buffers: writing and wrapping a message.                         *)
(***************************************************************************)

\* What malloc returns: bytes that mean nothing.
Unwritten == [base |-> [i \in 1 .. MaxOutbufLen |-> ByteMod - 2], ptr |-> 0,
              fits |-> TRUE]

Poke(w, at, bytes) ==
    [w EXCEPT !.base = [i \in 1 .. MaxOutbufLen |->
        IF i \in at + 1 .. at + Len(bytes) THEN bytes[i - at] ELSE @[i]]]

\* The outbuf_write functions: DEBUG_CHECK_SIZE, the bytes, and ptr.
Write(w, bytes) ==
    [Poke(w, w.ptr, bytes) EXCEPT
        !.fits = @ /\ w.ptr <= MaxOutbufLen - Len(bytes),
        !.ptr = @ + Len(bytes)]

byte(v) == <<v % ByteMod>>
str(s) == encode_u16_le(Len(s)) \o s

outbuf_prepare(w) == [w EXCEPT !.ptr = 8, !.fits = TRUE]

\* Mutant: a message that fills its last block gets a block of padding.
PaddingAlways(n) == 8 - (n % 8)

Padding(n) == (8 - (n % 8)) % 8

\* The inner length, the padding, the cipher, and the header in front of it.
outbuf_wrap(w, k) ==
    LET len == w.ptr - 6
        pad == Padding(len)
        p == Write(w, [i \in 1 .. pad |-> 3])
        q == Poke(p, 6, encode_u16_le(len - 2))
        data == xtea_encode(k, BytesAt(q.base, 6, len + pad))
        head == encode_u16_le(len + pad + 4) \o encode_u32_le(adler32(data))
    IN  IF p.fits THEN Poke(Poke(q, 6, data), 0, head) ELSE p

\* The codes of the messages, 0x0A, 0x14 and 0x64: three different bytes.
OpError == 0
OpMotd == 1
OpChars == 2

\* The texts the program sends, as short strings.
Text == [version |-> <<1>>, banned |-> <<2, 2>>, name |-> <<3>>,
         incorrect |-> <<4, 4, 4>>, internal |-> <<5, 5>>]

build_disconnect_message(reason) == byte(OpError) \o str(Text[reason])

CharlistMessage(names) ==
    byte(OpMotd) \o str(Motd) \o byte(OpChars) \o byte(Len(names))
    \o FlattenSeq([i \in 1 .. Len(names) |->
            str(names[i]) \o str(SvName)
            \o encode_u32_le(U32 - 2) \o encode_u16_le(GamePort)])
    \o encode_u16_le(1)

\* buf[b] after a message for the owner of key k is built in it.
Built(b, k, bytes) ==
    LET w == IF b \in heap THEN buf[b] ELSE Unwritten
    IN  outbuf_wrap(Write(outbuf_prepare(w), bytes), k)

-----------------------------------------------------------------------------
(***************************************************************************)
(* The client (external): what it sends, and how it reads a message, by    *)
(* the layout at the top of protocol_login.c.                              *)
(***************************************************************************)

\* The RSA block: a zero byte, the key, the two strings and padding.  The length
\* of a string is what the client says it is.
Plain(r) ==
    LET text == <<0>> \o encode_u32_le(r.key[1]) \o encode_u32_le(r.key[2])
                  \o encode_u32_le(r.key[3]) \o encode_u32_le(r.key[4])
                  \o encode_u16_le(r.alen) \o r.acc
                  \o encode_u16_le(r.plen) \o r.pwd
    IN  text \o [i \in 1 .. RsaLen - Len(text) |-> 1]

\* A request as the client program makes it: text of the length it says.
WellFormed(r) ==
    /\ r.alen = Len(r.acc) /\ r.plen = Len(r.pwd)
    /\ r.alen <= NameSize - 2 /\ r.plen <= NameSize - 2
    /\ \A i \in DOMAIN r.acc : r.acc[i] # 0
    /\ \A i \in DOMAIN r.pwd : r.pwd[i] # 0

\* The body of a message, empty if its header or its checksum is wrong.
Unwrapped(msg, k) ==
    LET data == BytesAt(msg, 6, Len(msg) - 6)
        plain == xtea_decode(k, data)
        len == decode_u16_le(plain, 0)
    IN  IF /\ decode_u16_le(msg, 0) = Len(msg) - 2
           /\ decode_u32_le(msg, 2) = Adler32(data)
           /\ len + 2 <= Len(plain)
        THEN BytesAt(plain, 2, len) ELSE <<>>

StringAt(data, at) == BytesAt(data, at + 2, decode_u16_le(data, at))

\* What the client understands of a body.
Understood(body) ==
    IF body = <<>> THEN [kind |-> "garbage"]
    ELSE IF body[1] = OpError THEN [kind |-> "error", text |-> StringAt(body, 1)]
    ELSE LET motd == StringAt(body, 1)
             list == 3 + Len(motd)
             After[i \in 0 .. body[list + 2]] ==  \* where entry i ends
               IF i = 0 THEN list + 2
               ELSE LET n == After[i - 1] + 2 + Len(StringAt(body, After[i - 1]))
                    IN  n + 2 + Len(StringAt(body, n)) + 6
         IN  IF Len(body) = After[body[list + 2]] + 2
             THEN [kind |-> "list", motd |-> motd,
                   names |-> [i \in 1 .. body[list + 2] |->
                                StringAt(body, After[i - 1])]]
             ELSE [kind |-> "garbage"]

-----------------------------------------------------------------------------
(***************************************************************************)
(* Reading a request.                                                      *)
(***************************************************************************)

\* mpz_export after decoding: no leading zero bytes; decoded_len is the length.
rsa_decode(plain) ==
    LET first == SelectInSeq(plain, LAMBDA b : b # 0)
    IN  IF first = 0 THEN <<>> ELSE SubSeq(plain, first, Len(plain))

Key(decoded) == [i \in 1 .. 4 |-> decode_u32_le(decoded, 4 * (i - 1))]

\* Mutant: the password is read whatever the length of the name.
ReadBothStrings(decoded) ==
    LET a == decode_tibia_string(decoded, 16, NameSize)
        b == decode_tibia_string(decoded, 16 + a.ret, NameSize)
    IN  [toolong |-> a.ret > NameSize \/ b.ret > NameSize,
         acc |-> a.str, pwd |-> b.str, last |-> b.last]

\* Account name and password, and the last byte that was read for them.
Credentials(decoded) ==
    LET a == decode_tibia_string(decoded, 16, NameSize)
        b == IF a.ret > NameSize THEN [ret |-> 0, str |-> <<>>, last |-> a.last]
             ELSE decode_tibia_string(decoded, 16 + a.ret, NameSize)
    IN  [toolong |-> a.ret > NameSize \/ b.ret > NameSize,
         acc |-> a.str, pwd |-> b.str, last |-> b.last]

-----------------------------------------------------------------------------
(***************************************************************************)
(* The server thread.                                                      *)
(***************************************************************************)

Init ==
    /\ ListInit
    /\ req = [c \in Clients |-> None]
    /\ conn = [c \in Clients |-> "open"]
    /\ udata = [c \in Clients |-> NULL]
    /\ tasks = <<>> /\ task = None
    /\ res = None /\ results = 0
    /\ db = "ok"
    /\ answers = <<>>
    /\ buf = [b \in Bufs |-> Unwritten]
    /\ got = [c \in Clients |-> None]

dbVars == <<tasks, task, res, results, db>>

\* The server thread is between two handlers.
ServerIdle == \A c \in Clients : conn[c] # "closing"

\* A first message with request r has arrived from c.
Receives(c, r) ==
    /\ ServerIdle /\ conn[c] = "open" /\ req[c] = None
    /\ req' = [req EXCEPT ![c] = r]

\* PROTO_CLOSE without a message: a version without RSA or checksum, or a block
\* of the wrong length.
Malformed(r) == r.version = "old" \/ Len(rsa_decode(Plain(r))) # RsaLen - 1

ReceiveMalformed(c, r) ==
    /\ Receives(c, r) /\ Malformed(r)
    /\ conn' = [conn EXCEPT ![c] = "gone"]
    /\ got' = [got EXCEPT ![c] = [kind |-> "closed"]]
    /\ UNCHANGED <<udata, dbVars, answers, buf, listVars>>

\* Why a request is refused by the server thread itself.
Refusals(r) ==
    IF r.version # "supported" THEN {"version"}
    ELSE IF Credentials(rsa_decode(Plain(r))).toolong THEN {"banned"} ELSE {}

\* internal_send_disconnect, then PROTO_CLOSE, which waits for the message that
\* is being sent, or closes at once if the send could not be started.
ReceiveRefused(c, r) ==
    /\ Receives(c, r) /\ ~Malformed(r)
    /\ \E reason \in Refusals(r), b \in Bufs :
         /\ outbuf_acquire(b)
         /\ buf' = [buf EXCEPT ![b] = Built(b, Key(rsa_decode(Plain(r))),
                                          build_disconnect_message(reason))]
         /\ udata' = [udata EXCEPT ![c] = b]
    /\ \E started \in BOOLEAN :
         conn' = [conn EXCEPT ![c] = IF started THEN "sending" ELSE "closing"]
    /\ UNCHANGED <<dbVars, answers, got>>

\* The login goes to the database thread (the ring is closed by nobody while
\* the program runs, so db_add_task succeeds).
ReceiveLogin(c, r) ==
    /\ Receives(c, r) /\ ~Malformed(r) /\ Refusals(r) = {}
    /\ LET decoded == rsa_decode(Plain(r))
           cred == Credentials(decoded)
       IN  tasks' = Append(tasks, [c |-> c, key |-> Key(decoded),
                                   accname |-> CString(cred.acc),
                                   password |-> CString(cred.pwd),
                                   accid |-> NoId])
    /\ UNCHANGED <<conn, udata, task, res, results, db, answers, buf, got, listVars>>

\* Mutant: the outbuf is left to the connection although that is gone.
ResolveForgetsOutbuf ==
    /\ ServerIdle /\ answers # <<>>
    /\ answers' = Tail(answers)
    /\ LET l == Head(answers)
       IN  \/ /\ conn[l.c] # "gone"
              /\ udata' = [udata EXCEPT ![l.c] = l.output]
              /\ \E started \in BOOLEAN :
                   conn' = [conn EXCEPT ![l.c] = IF started THEN "sending" ELSE @]
           \/ conn[l.c] = "gone" /\ UNCHANGED <<conn, udata>>
    /\ UNCHANGED <<req, dbVars, buf, got, listVars>>

\* A server task: the outbuf goes to the connection, whether or not the send
\* starts, or back to the list if the connection is gone.
internal_resolve_login ==
    /\ ServerIdle /\ answers # <<>>
    /\ answers' = Tail(answers)
    /\ LET l == Head(answers)
       IN  \/ /\ conn[l.c] # "gone"
              /\ udata' = [udata EXCEPT ![l.c] = l.output]
              /\ \E started \in BOOLEAN :
                   conn' = [conn EXCEPT ![l.c] = IF started THEN "sending" ELSE @]
              /\ UNCHANGED listVars
           \/ /\ conn[l.c] = "gone"
              /\ outbuf_release(l.output)
              /\ UNCHANGED <<conn, udata>>
    /\ UNCHANGED <<req, dbVars, buf, got>>

\* The message has been sent: on_write releases the outbuf and closes.  What
\* was sent is what the outbuf holds now.
on_write(c) ==
    /\ ServerIdle /\ conn[c] = "sending"
    /\ LET w == buf[udata[c]]
           body == Unwrapped(SubSeq(w.base, 1, w.ptr), req[c].key)
       IN  got' = [got EXCEPT ![c] = Understood(body)]
    /\ outbuf_release(udata[c])
    /\ udata' = [udata EXCEPT ![c] = NULL]
    /\ conn' = [conn EXCEPT ![c] = "gone"]
    /\ UNCHANGED <<req, dbVars, answers, buf>>

\* The connection ends for any other reason: on_close.
on_close(c) ==
    /\ \/ conn[c] = "closing"
       \/ ServerIdle /\ conn[c] \in {"open", "sending"} /\ req[c] # None
    /\ IF udata[c] # NULL THEN outbuf_release(udata[c]) ELSE UNCHANGED listVars
    /\ udata' = [udata EXCEPT ![c] = NULL]
    /\ conn' = [conn EXCEPT ![c] = "gone"]
    /\ UNCHANGED <<req, dbVars, answers, buf, got>>

-----------------------------------------------------------------------------
(***************************************************************************)
(* The database thread: database_resolve_login, query by query.            *)
(***************************************************************************)

serverVars == <<req, conn, udata, got>>

\* send_disconnect, or the end of database_resolve_login: a message for login l
\* is built and l queued for the server thread.
Answer(l, bytes) ==
    /\ \E b \in Bufs :
         /\ outbuf_acquire(b)
         /\ buf' = [buf EXCEPT ![b] = Built(b, l.key, bytes)]
         /\ answers' = Append(answers, [c |-> l.c, output |-> b])
    /\ task' = None
    /\ UNCHANGED <<tasks, db, serverVars>>

TakeTask ==
    /\ task = None /\ tasks # <<>>
    /\ task' = Head(tasks) /\ tasks' = Tail(tasks)
    /\ UNCHANGED <<res, results, db, answers, buf, serverVars, listVars>>

NoAccountName ==
    /\ task # None /\ task.accname = <<>>
    /\ Answer(task, build_disconnect_message("name"))
    /\ UNCHANGED <<res, results>>

\* Rows of a query as the database (external) returns them in binary format.
AccountRows(accname) ==
    {[id |-> BigEndian(a.id), pwd |-> a.pwd] :
        a \in {x \in Accounts : x.name = accname}}

CharlistOf(param) ==
    LET found == {a \in Accounts : a.id = decode_u32_be(param, 0)}
    IN  IF found = {} THEN <<>> ELSE (CHOOSE a \in found : TRUE).chars

\* db_load_account_info on a connection that works.
db_load_account_info ==
    /\ task # None /\ task.accid = NoId /\ res = None
    /\ task.accname # <<>> /\ db = "ok"
    /\ res' = [rows |-> AccountRows(task.accname)]
    /\ results' = results + 1
    /\ UNCHANGED <<tasks, task, db, answers, buf, serverVars, listVars>>

\* A query fails: PGSQL_VALIDATE_RESULT_OR_RETURN_NULL clears what there is.
LoadAccountInfoFails ==
    /\ task # None /\ task.accid = NoId /\ res = None
    /\ task.accname # <<>> /\ db = "lost"
    /\ Answer(task, build_disconnect_message("incorrect"))
    /\ UNCHANGED <<res, results>>

\* Mutant: a wrong password leaves the result behind.
WrongKeepsResult ==
    /\ res # None /\ task.accid = NoId
    /\ \A row \in res.rows : row.pwd # task.password
    /\ Answer(task, build_disconnect_message("incorrect"))
    /\ res' = None
    /\ results' = results - (IF res.rows = {} THEN 1 ELSE 0)

\* No row, or a password that differs.
NotCorrect ==
    /\ res # None /\ task.accid = NoId
    /\ \A row \in res.rows : row.pwd # task.password
    /\ Answer(task, build_disconnect_message("incorrect"))
    /\ res' = None
    /\ results' = results - 1

PasswordMatches ==
    /\ res # None /\ task.accid = NoId
    /\ \E row \in res.rows :
         /\ row.pwd = task.password
         /\ task' = [task EXCEPT !.accid = decode_u32_be(row.id, 0)]
    /\ res' = None
    /\ results' = results - 1
    /\ UNCHANGED <<tasks, db, answers, buf, serverVars, listVars>>

db_load_account_charlist ==
    /\ task # None /\ task.accid # NoId /\ res = None /\ db = "ok"
    /\ res' = [names |-> CharlistOf(encode_u32_be(task.accid))]
    /\ results' = results + 1
    /\ UNCHANGED <<tasks, task, db, answers, buf, serverVars, listVars>>

LoadCharlistFails ==
    /\ task # None /\ task.accid # NoId /\ res = None /\ db = "lost"
    /\ Answer(task, build_disconnect_message("internal"))
    /\ UNCHANGED <<res, results>>

SendCharlist ==
    /\ res # None /\ task.accid # NoId
    /\ Answer(task, CharlistMessage(res.names))
    /\ res' = None
    /\ results' = results - 1

\* The connection to the database breaks (external).  Nothing calls
\* db_internal_connection_reset: it stays broken.
LoseDatabase ==
    /\ db = "ok"
    /\ db' = "lost"
    /\ UNCHANGED <<tasks, task, res, results, answers, buf, serverVars, listVars>>

Next ==
    \/ \E c \in Clients :
         \/ \E r \in RequestsOf[c] :
              ReceiveMalformed(c, r) \/ ReceiveRefused(c, r) \/ ReceiveLogin(c, r)
         \/ on_write(c) \/ on_close(c)
    \/ internal_resolve_login
    \/ TakeTask \/ NoAccountName
    \/ db_load_account_info \/ LoadAccountInfoFails
    \/ NotCorrect \/ PasswordMatches
    \/ db_load_account_charlist \/ LoadCharlistFails \/ SendCharlist
    \/ LoseDatabase

Spec == Init /\ [][Next]_vars

-----------------------------------------------------------------------------
ReplyTypeOK ==
    /\ ListTypeOK
    /\ \A c \in Clients :
         /\ req[c] \in RequestsOf[c] \cup {None}
         /\ conn[c] \in {"open", "sending", "closing", "gone"}
         /\ udata[c] \in Bufs \cup {NULL}
    /\ db \in {"ok", "lost"}
    /\ results \in Nat
    /\ \A i \in DOMAIN answers : answers[i].output \in Bufs
    /\ \A b \in Bufs : buf[b].ptr \in Nat

(***************************************************************************)
(* What the server promises a client that sent a well-formed request: the  *)
(* list of the account's characters exactly if name and password are those *)
(* of the account, and otherwise the text that says why not.  Without the  *)
(* database the answer may be one of the two errors.                       *)
(***************************************************************************)
Error(reason) == [kind |-> "error", text |-> Text[reason]]

Deserved(r) ==
    IF r.version # "supported" THEN {Error("version")}
    ELSE IF r.acc = <<>> THEN {Error("name")}
    ELSE {[kind |-> "list", motd |-> Motd, names |-> a.chars] :
            a \in {x \in Accounts : x.name = r.acc /\ x.pwd = r.pwd}}

\* The message a client reads, with its own key and after the bytes went
\* through buffers that earlier messages used, is the one its request deserves;
\* no message is garbage.
ReplyMatchesRequest ==
    \A c \in Clients : got[c] # None /\ got[c].kind # "closed" =>
        /\ got[c].kind # "garbage"
        /\ WellFormed(req[c]) =>
             \/ got[c] \in Deserved(req[c])
             \/ got[c] = Error("incorrect") /\ (Deserved(req[c]) = {} \/ db = "lost")
             \/ got[c] = Error("internal") /\ Deserved(req[c]) # {} /\ db = "lost"

\* The owners of outbufs: connections and logins on their way back.
Owners(b) ==
    Cardinality({c \in Clients : udata[c] = b})
    + Cardinality({i \in DOMAIN answers : answers[i].output = b})

\* Every outbuf is in the idle list or has exactly one owner, never both and
\* never neither, and the list is sound.
OutbufsOwned ==
    /\ ListSound
    /\ \A b \in Bufs : Owners(b) = IF b \in heap \ Idle THEN 1 ELSE 0

\* What outbuf.c asks of its callers and cannot check in a release build: every
\* message fits an outbuf in whole blocks, and a list is counted by a byte.
Fits(bytes) == 6 + 8 * ((2 + Len(bytes) + 7) \div 8) <= MaxOutbufLen

MessagesFit ==
    /\ \A reason \in DOMAIN Text : Fits(build_disconnect_message(reason))
    /\ \A names \in {a.chars : a \in Accounts} \cup {<<>>} :
         Len(names) < ByteMod /\ Fits(CharlistMessage(names))

\* No message, with its padding, runs over the end of its outbuf: the
\* assertions of outbuf.c hold.
WritesFit == \A b \in heap : buf[b].fits

\* Whatever lengths a client claims for its strings, the parser reads bytes of
\* the decoded block only, and what it keeps fits its destination with the
\* terminator.
ParseInBounds ==
    \A c \in Clients : req[c] # None =>
        LET decoded == rsa_decode(Plain(req[c]))
            cred == Credentials(decoded)
        IN  Len(decoded) = RsaLen - 1 =>
              /\ cred.last <= Len(decoded)
              /\ Len(cred.acc) < NameSize /\ Len(cred.pwd) < NameSize

\* The database thread holds at most one result, and libpq no other: every
\* path through database_resolve_login releases what it loaded, once.
ResultsCleared == results = IF res = None THEN 0 ELSE 1

\* The comment above the test of decoded_len takes it for constant: a
\* well-formed request of a client with RSA is never closed unanswered.
WellFormedUnderstood ==
    \A c \in Clients :
        got[c] # None /\ WellFormed(req[c]) /\ req[c].version # "old" =>
            got[c].kind # "closed"
====
