# A TLA+ model of kaplarc

kaplarc is a game server in C. Three threads share its work: the *server thread*
owns all sockets (I/O completion ports), the *database thread* runs queries, and
the *game thread* runs the frames. They talk through two hand-written task
queues. This directory holds TLA+ modules for those parts, TLC configurations
that check them on small instances, and TLAPS proofs of their safety for every
size.

All paths below are relative to `src/src/`.

## 1. Inventory

| Component | State | Operations | Talks to |
|---|---|---|---|
| Ring of database tasks: `task_rbuffer.c`, `db/database.c` | positions, slots, `active`, two condition variables | push (blocks when full), run_one (blocks when empty), set_inactive | pushed by the server thread, run by the database thread |
| Double buffer of frame tasks: `task_dbuffer.c` | two arrays with counts, `write_idx`, `active` | add (blocks when full), swap_and_run, set_inactive | server tasks: added by the database thread, run by the server thread |
| Connection manager: `server/iocp_connmgr.c` | slot table, freelist threaded through the uids, per connection flags, pending work, protocol, user data | start, completions of reads and writes, close, abort, send, timeout check | calls the protocols; called by the event loop and by server tasks |
| Service manager: `server/iocp_svcmgr.c` | services with ports, protocols, listener, accept operation | register, open, accept, reopen, shut down | starts connections |
| Protocols: `protocol_echo.c`, `protocol_login.c`, `protocol_game.c` | echo handle, `login_info`, outbuf | identify, assign, connect, first message, message, write, close | login: both queues |
| Server thread: `server/server.c`, `server/iocp_server.c` | `task_fp` slot, `running` | loop, `server_exec`, interrupt | game thread |
| Game thread: `game.c`, `main.c` | the two double buffers | frame loop, start-up order | server thread |
| Red-black tree: `rbtree.c` | nodes, root, cached minimum | insert, remove, find, min/max, next/prev | (library, not used yet) |
| Configuration: `config.c` | hash table of settings | defaults, command line, file, get | `main.c`: ports of the services |
| Output buffers: `outbuf.c` | idle list, bytes, write position | acquire, release, writes | login protocol, both threads |
| Login messages: `protocol_login.c`, `buffer_util.h`, `adler32.c`, `crypto/xtea.c`, `tibia_rsa.c` | `login_info` | decode and parse the request; build, pad, encode and wrap the reply | client, database |
| PostgreSQL: `db/pgsql.c` | the connection, results | two queries of a login, clear | database thread |
| Memory arena: `mem_arena.c` | list of blocks | alloc, rollback, reset, cleanup | (library, not used yet) |
| RSA, bcrypt, base64: `crypto/*.c` | the server's key | set key, encode, decode; new hash, check | login and game protocol (RSA); bcrypt and base64 are not used yet |
| Logging, epoll server, older code | see `PROJECT.json` | | |

What is hard about them:

* *Concurrency*: both queues block with condition variables and decide whom to
  wake from the fill level they saw; a thread that waited uses values it read
  before. Two bounded queues in opposite directions join the same two threads.
* *Asynchronous completion*: a connection may be closed while the operating
  system holds a read and a write of it; its slot must not be reused before both
  are back. A login answer arrives seconds later with a uid as the only link.
* *Failure*: any send, receive, accept or open may fail at once, later, or as a
  cancellation; buffers must be released exactly once on every path.
* *Start-up order*: threads run before all they use exists.
* *Bytes*: a reply is built in a buffer that held another client's, is padded,
  encoded with the key of the request, and must be what the client takes it for;
  lengths come from the client and wrap at 16 bits; numbers lose leading zeros.

`PROJECT.json` lists these as hazards, each at its line and with the properties
that would catch it.

## 2. Modules

| Module | Models | Role |
|---|---|---|
| `TaskQueue` | (abstract) | a closable bounded FIFO queue: what the ring promises |
| `TaskRBuffer` | `task_rbuffer.c`, `db_thread` | the ring, action by locked section |
| `TaskRBufferProofs` | | theorems about `TaskRBuffer` |
| `TaskDBuffer` | `task_dbuffer.c` | the double buffer, action by locked section or task run |
| `ConnMgr` | `iocp_connmgr.c`, the protocols' callbacks, the login round trip | the network thread, action by handler |
| `SvcMgr` | `iocp_svcmgr.c` | ports, listeners and accepts |
| `Config` | `config.c` | the table of settings, action by turn of a loop |
| `Startup` | `main.c`, `server_internal_init` | composes `Config` and `SvcMgr` |
| `LoginPipeline` | `server.c`, `game.c`, `main.c`, `database.c` | composes `TaskRBuffer` and `TaskDBuffer` with the loops of the three threads |
| `Bytes` | `buffer_util.h`, `adler32.c` | integers and strings as bytes, the checksum with a reference definition |
| `Xtea` | `crypto/xtea.c` | the cipher, round by round |
| `Outbuf` | `outbuf.c` | the idle list as memory: head and next pointers |
| `LoginReply` | `protocol_login.c`, `db/pgsql.c`, writes of `outbuf.c` | composes `Xtea` and `Outbuf`: a login from bytes to bytes, query by query |
| `RBTree` | `rbtree.c` | the tree as memory, action by call or turn of a fixup loop |
| `MemArena` | `mem_arena.c`, `PTR_ALIGN` | the arena, action by call |
| `Base64` | `crypto/base64.c` | encoding and decoding as operators |
| `Bcrypt` | `crypto/bcrypt.c` | uses `Base64`: making and checking hashes |
| `Rsa` | `crypto/rsa.c`, `tibia_rsa.c` | uses `Bytes`: keys, encoding, decoding |
| `TaskDBufferProofs`, `ConnMgrProofs`, `LoginPipelineProofs`, `LoginReplyProofs` | | lemmas and theorems about the module they are named after |
| `StartupProofs` | | theorems about `SvcMgr`, `Config` and `Startup` |
| `CodecProofs` | | theorems about `Bytes` and `Xtea`, used by the next and by `LoginReplyProofs` |
| `LibraryProofs` | | theorems about `MemArena`, `Base64`, `Bcrypt` and `Rsa` |
| `MC*` | | constants for TLC |

How state and actions correspond to the code:

* **TaskRBuffer.** `active`, `readpos`, `writepos`, `buffer` are the fields of
  `struct task_rbuffer`; `pc` says where each thread is. An action is what
  happens between taking the lock and giving it up, to `mutex_unlock` or to
  `condvar_wait`: `PushEnter`/`PushResume` are `task_rbuffer_push` before and
  after the wait, `RunEnter`/`RunResume`/`RunFinish` are `task_rbuffer_run_one`
  as `db_thread` calls it. `Signal` wakes any one waiter, and
  `SpuriousWakeup` lets `condvar_wait` return for no reason, as both platforms
  permit. The 32-bit positions count modulo the constant `PosMod`, a multiple of
  the size because the code asserts a power of two.
* **TaskDBuffer.** `idx` is the local variable of a blocked `task_dbuffer_add`,
  which the code reads once, before it waits. `Swap` is the locked part of
  `task_dbuffer_swap_and_run` and `RunTask` one turn of its unlocked loop. Tasks
  are numbered in the order of acceptance.
* **ConnMgr.** `ctl` is the connection table; a record `m` of a connection and
  the globals is passed through operators named after the static functions.
  Reads that complete are split by outcome (`ReadFailed`, `ReadRejected`,
  `LoginQueued`, ...); the bytes decide only which one happens. `rdwr_count` is
  abstracted to whether it is zero, the only thing the code asks. `outbufs` and
  `handles` count allocations, `id` is a ghost that tells connections in one
  slot apart. The database thread is two sets of logins, on their way out and
  back. `connmgr_timeout_check` is one action per slot, with the loop variable
  `scan`, and no other handler runs in between.
* **SvcMgr.** One record per service; the operators that call the operating
  system return the set of their outcomes. `sockets` counts those the module
  still owns.
* **Config.** Each loop of `config_init` and `config_load_from_path` is an action
  per turn. The hash is any function: what a lookup promises must not depend on
  it. A name abbreviates a key when it is a proper prefix of it, since
  `config_var_find` compares with the length of the name it looks for; `said` and
  `expanded` are ghosts that keep what was given for a key and which keys were
  reached through an abbreviation.
* **Startup.** `main` as a sequence of `Config` and `SvcMgr`: the protocols are
  registered on the ports `config_geti` reads, a missing or non-numeric setting
  being port 0, and `server_internal_init` fails early or opens the services.
* **LoginPipeline.** `Ring` and `Buf` are instances of the two queue modules.
  `spc` is the place of the server thread in `server_thread`; `task_fp` is the
  slot of `server_exec`. `ReceiveLogin` may block the whole server thread in
  `db_add_task`, as the code does, and `AnswerLogin` the database thread in
  `game_add_server_task`. `answers` records which login each server task is for.
* **LoginReply.** `tasks` and `answers` are the two queues, here FIFO as
  `ring_queue` shows for the ring and `RunInOrder` for the buffer; `conn` and
  `udata` are what `internal_resolve_login` sees of `ConnMgr`. `database_resolve_login`
  is an action per query and per outcome, because the server thread takes
  buffers from the same list in between and the database may fail in between.
  `buf` holds the bytes of every outbuf, which survive its release as they do in
  memory; `fits` records `DEBUG_CHECK_SIZE`. All widths follow `ByteMod`, so with
  bytes of four bits a 16-bit length has 256 values and wraps where a real one
  does. `rsa_decode` is what RSA does to the plain text, the loss of leading
  zeros; that it inverts the client's encoding is what `Rsa` shows and
  `RsaExact` proves. Client and
  database are external: the client decodes with its own key, compares the
  checksum with the reference definition `Adler32` and reads by the layout at the
  top of `protocol_login.c`.
* **Outbuf.** One step per locked section. `heap` is what `malloc` has returned,
  so that a buffer freed and allocated again may have the same address.
* **MemArena.** Positions count from `mem_start`; the head is the last block.
  The ghosts `live` and `undoable` hold what callers believe, independently of
  `mem_prev` and `mem_ptr`.
* **Base64, Bcrypt, Rsa.** The operators are the functions; a variable holds the
  text, hash or key they are tried on. Hash strings are records of what is
  formatted into them. Blowfish is an ideal function of the key words it reads,
  which are modelled (`KeyWords`); GMP is external.
* **RBTree.** `rbt` holds root, cached minimum and the fields of all nodes, `op`
  the local variables of the fixup loop that is under way. `rbt_insert` and
  `rbt_remove` go up to that loop; each turn of it is an action. The loops that
  only read (the way down, to the end of a side, up) are `Follow`, a recursive
  function over the nodes. The code writes each case for left and right; the
  model has a side as a parameter. Following a null pointer sets `crashed`.

## 3. Runs

Deadlock checking is off in all: every instance bounds the requests it receives
and so comes to a legal rest.

| Run | Instance | Shows |
|---|---|---|
| `ring_queue` | 2 producers, 1 worker, 2 slots, positions mod 4, 3 tasks | the ring refines `TaskQueue`; `RingInv`; closing releases everyone. Two slots and four positions make the positions wrap every second lap; two producers make one resume after the other has filled the room |
| `ring_lost_wakeup` | 1 producer, 1 worker | *violated*: the branch that waited does not signal (`task_rbuffer.c:61`, `:90`) |
| `dbuffer` | 2 producers, 2 slots, 5 adds | order, batches not overwritten, queued tasks run, closing releases. Five adds fill both buffers and one more |
| `dbuffer_lost_task` | same module | *violated*: a task accepted after a wait is stored in the wrong buffer and dropped (`task_dbuffer.c:44`) |
| `conn_table` | 2 slots, 3 connections, uid counter mod 4 | pending work is exact, freelist sound, replies reach the right connection, buffers have one owner, buffers being sent are stable, silent connections are dropped. Three connections on two slots reuse a slot while a login of its former owner is under way |
| `startup` | 4 keys and an abbreviation in 4 slots, 1 argument, 2 services, 2 accepts | every setting is found with the value last given for it, whatever collides; the protocols are registered where the settings say; listening means accepting, sockets accounted for, protocols unambiguous. Four keys in four slots collide, wrap over the end and are left out; two services for three protocols reach the refusal; two accepts let a service be reopened and then go out, or two services fail. Hashes are considered up to a rotation of the table, and the abbreviation hashes to the last slot or the first: with the others it would only repeat cases. `StartupProofs` is about every hash |
| `pipeline_order` | ring 2, buffer 1, 5 logins | answers once and in order, no lost `server_exec`, every login resolved if nobody waits for room |
| `pipeline_deadlock` | ring 1, buffer 1, 5 logins | *violated*: server and database thread wait for each other (`protocol_login.c:315`) |
| `login_reply` | 2 clients, 2 outbufs of which 1 may be idle, bytes of 4 bits, names up to the size of `accname` and lengths around the wrap | each client reads the list or the error its request deserves; every outbuf has one owner or is idle; messages, the longest of which fills its last block exactly, fit their buffer; the parser stays inside the decoded block whatever lengths are claimed; query results are released on every path. Two buffers with a list of one make a buffer go from one client to the other, be freed and be allocated again |
| `login_key` | same | *violated*: a key that starts with a zero byte makes a login unanswered (`protocol_login.c:280`) |
| `libraries` | tree: 8 keys, 9 nodes; arena: blocks of 22 bytes, pointers of 4, `size_t` of 32 values, 5 allocations; texts up to 4 bytes; passwords up to 6 characters for a key of 4; 5 primes, 7 exponents | tree: search order, parent links, minimum/maximum, neighbours after any calls, balance while insertions are ascending. Arena: allocations are disjoint, aligned and inside their blocks, lie one after the other up to `mem_ptr`, and undoing gives back exactly the last one. Base64 and RSA give back what was encoded; a hash accepts its password only. Eight keys reach four levels and every case of removal; two allocations of half a block overflow it; four bytes leave over 0, 1 and 2 after the last triple; primes in both orders make the difference in `rsa_decode` negative. The libraries share no state, so each behaviour uses one of them |
| `tree_balance` | 10 keys | *violated*: black heights differ after seven insertions (`rbtree.c:94`) |

Every property of a passing run has a mutant in its module, a plausible slip in
the code (a dropped test, a missing reset, an off-by-one), under which TLC finds
it violated.

The tree counterexample was replayed against `rbtree.c`: inserting 1, 2, 3, 6, 7,
4, 5 breaks the black height and a removal then follows a null sibling. Other
behaviours met on the way and not given a run: on the command line
an abbreviation that happens to hash next to a key sets it; `rbt_find` compares in the
opposite order of `rbt_insert` and so finds the root only; a failed write is
retried without limit although `protocol.h` says a few times; a login that
arrives before `game_init` is answered through a null pointer; a full
`task_dbuffer` may leave a producer asleep on the wrong buffer; a connection
beyond the table is a null pointer that `connmgr_start_connection` uses
(`iocp_connmgr.c:491`; `FreelistSound` says it takes a table without a free
slot); a frame may end before the server thread has taken the last routine, which
the assertion at `server.c:72` denies (`RequestKept` says nothing is lost by
it); a lost database connection is never reset, and its first symptom is that
correct passwords are called incorrect; `db_load_account_info` compares
`lower(name)` with the name as it was typed; a request to the arena within a
pointer's size of the largest `size_t` is aligned to zero; the functions
`blowfish_ecb_*` and `blowfish_cbc_*` write both words of a block to its first
half, so that decoding does not give back what was encoded, as
`test/blowfish_test.c`, compiled out, expects.

### Fairness

* `TaskRBuffer`, `TaskDBuffer`: weak fairness of a thread that is ready to run
  (a worker always loops, a woken thread gets the lock, the owner of a buffer
  swaps every frame). Nothing makes anyone push, close, or wake spuriously.
* `ConnMgr`: weak fairness of the timeout check, which `server_internal_work`
  makes every five seconds, and strong fairness of the completion of a
  *cancelled* operation, which the system must report and which checks cannot
  put off for ever. Other completions need never come: peers may be silent.
* `LoginPipeline`: weak fairness of each of the three threads. No login has to
  arrive.

## 4. Proofs

Every invariant and action property that a passing run checks, but for the
balance of the red-black tree, is a theorem, for every value of the constants. The
assumptions are those the modules name (`...Assumption`); TLC evaluates them in
the runs. Where a theorem needs more it says so in its statement. Each inductive
invariant was checked with TLC on the instance of its run before it was relied
on, but for `KeyHeld` of RSA, whose congruences quantify over all integers.

| Module | Theorems | Inductive invariant |
|---|---|---|
| `TaskRBufferProofs` | `TypeCorrect`, `RingSafe`, `RingImplementsQueue` | `RingInv` |
| `TaskDBufferProofs` | `TypeCorrect`, `DBufferInOrder`, `DBufferBatchIntact` | `IInv` |
| `ConnMgrProofs` | `PendingWorkCounted`, `FreelistHolds` | `TableInv` |
| | `ConnTypes`, `RepliesGoHome`, `BuffersHaveOwners`, `SentBuffersStable`, if `MaxConns < GenMod` | `TableInv /\ OwnersInv` |
| `StartupProofs` | `ServicesSafe`, of `SvcMgr` alone | `SvcInv` |
| | `StartupTypes`, `SettingsHonoured`, `StartupListening`, `StartupSockets`, `StartupProtocols`, `StartupServes` | `StartupInv`: `SvcInv`, `CfgInv`, `RegInv` |
| `LoginPipelineProofs` | `LoginsAccounted`, `LoginsResolvedInOrder`, `RequestsKept` | `PipeInv`; `RequestKept` is inductive itself |
| `LoginReplyProofs` | `OutbufsSafe` | `ControlInv` |
| | `ReplyTypes` | `ControlInv /\ BufTypes` |
| | `ResultsReleased`, `ParserSafe` | `ResultsCleared` is inductive itself; the parser needs the types of the requests only |
| | `WritesInside`, if `MessagesFit` | `ControlInv /\ BufTypes /\ WritesFit` |
| | `RepliesRight`, if `MessagesFit` | `ControlInv /\ BufTypes /\ DataInv` |
| `CodecProofs` | `XteaInverts`, `AdlerExact` | (about operators) |
| `LibraryProofs` | `ArenaSound`, `ArenaExact` | `ArenaInv` |
| | `Base64Exact` | the text is a sequence of bytes |
| | `HashesTell` | `HashStored`: the stored hash is one that `generate_hash` made |
| | `RsaExact` | `KeyHeld` |
| | `TreeSearches`, `TreeEnds`, `TreeWalks` | `TreeInv` |

**Ring.** For every set of producers, workers and tasks, every size and every
range of positions that is a larger multiple of it. Assumptions:
`ThreadsAssumption` (no thread is both producer and worker), `TasksAssumption`
and `SizeAssumption`, which follows from the assertion of `task_rbuffer_create`.
`TypeOK` alone is not inductive for the queue view, since the difference of two
wrapped positions says how many tasks there are only as long as it is at most
the size; `RingInv` adds that, and that a blocked producer still holds its task,
without which a resumed push could store nothing. The arithmetic is in lemmas on
`%` (`SlotWraps` and those before it): slots of consecutive positions differ
because the size divides the range. `StoreAppends` and `LoadTakesHead` say what
a store and a load do to the queue read out of the slots; with them each action
maps to one action of `TaskQueue` or to a stutter (`NextRefines`).

**Double buffer.** For any finite set of producers. `RunInOrder` speaks of what
has run; `IInv` extends the order to what will: the slots below each count
ascend (`SlotsAscend`), and what ran comes before the batch, the batch before
the writable buffer (`RanBeforeBatch`, `BatchBeforeWritable`, ...). The
step that matters is `AcceptIInv`: a producer that slept stores in the buffer it
chose long ago; either that is the writable one again, where the task is the
newest, or it lies behind the batch, which `BatchBelowCount` keeps below the
count. (There the task is lost, the finding of `dbuffer_lost_task`; order and
the batch survive.)

**Connection manager.** `TableInv` is about the table alone: each record counts
the operations started for it (`CountsExact`), the uid of a slot in use holds
its position (`InPlace`), and the free slots are a list without repetition
threaded through the lower halves of their uids (`FreeLinked`). It needs nothing
of the counters in the upper halves, so `PendingWorkCounted` and `FreelistHolds`
have no hypothesis. `FreeChain` of the model is a recursive function; the proof
unfolds it by a least counterexample instead of by induction. `OwnersInv` says
who owns what: which `udata` a connection in use may have (`OwnsExact`), that a
login under way names a connection by slot and counter and that this connection,
if it is still there, waits for it (`LoginsNamed`), and that outbufs and handles
are counted by their owners (`BuffersOwned`). It is inductive only while no
counter has come round to the same value: `GensBounded` bounds the counters by
the connections made, and the hypothesis `MaxConns < GenMod` keeps them below
the 65536 values of the code. That is what the code relies on too
(`docs/problems/connection_uid.txt`): after a wrap a late answer may match
another client's uid, and with `GenMod = 2` in `ConnTable.cfg` TLC finds
`ReplyToRightConnection`, `BuffersOwned` and `SentBufferStable` violated. `TypeOK`
needs the hypothesis only because its bounds on the buffers follow from
`BuffersOwned`.

**Start-up.** `SvcInv` adds to the three properties what they need to survive
`svcmgr_init` and `svcmgr_shutdown`: nothing is open before, everything until the
first accept. `CfgInv` says that a key is stored at most once (`KeysOnce`) and
within reach of its hash (`KeysInReach`); the second is what open addressing
with a bounded number of probes and no deletion is about. With both, a lookup
finds the slot whatever other keys, or abbreviations, share its probes. `RegInv`
says that `main` registers in order and that what has been registered is served
(`DoneServed`). Assumptions: `ConfigAssumption` (the defaults have distinct keys
and no name is empty) and `StartupAssumption`, in which `MaxProtocols >= 2`
stands for the 4 of the code: with 1, two protocols could not share a port.

**Memory arena.** For every block size, pointer size and set of requests, with
the wrap of `PTR_ALIGN`. `SpaceExact` alone does not survive a rollback: after
it the last allocation of the block is another one, which `IsEnd` tells for every
prefix of the allocations (`NoGaps`), and `Undo` says that the head's `mem_prev`
is where the allocation to be undone begins.

**Login pipeline.** For every size of both queues and number of logins. The
pipeline's steps are steps of the ring and of the double buffer or leave them
alone, so `LoginPipelineProofs` instantiates `TaskRBufferProofs` and
`TaskDBufferProofs`, proves that their assumptions hold, and uses `RingInv`,
`IInv` and the lemmas on stores and loads. `OrderInv` numbers the logins by
arrival: the answered ones are 1 to `accepted`, then come the one with the
database thread, those in the ring and the one with the server thread, and
together they end at `received`. So no login is lost, doubled or overtaken, and
`LoginsResolvedInOrder` follows with `RunInOrder` of the buffer.

**Login reply.** For every set of clients, requests, accounts, buffers and every
pool size. `ControlInv` is about who holds what: a client has at most one login
under way, in the ring, with the database thread or on its way back (`OneLogin`);
a connection that is sending or closing owns an outbuf (`Connections`); the
outbufs that are owned are exactly those of the heap that are not in the list
(`Ownership`), whose order, threaded through memory, is a witness in `HeldIs`;
and the result the database thread holds is that of the query it has made
(`Progress`). `OutbufsSafe` follows from it alone. `ReplyMatchesRequest` speaks of
messages that were read; `DataInv` extends it backwards along the way of a reply:
what the database thread knows of a login is what its client sent (`Faithful`),
and an outbuf that is owned holds bytes that its client, with its own key, will
read as a right answer (`Carries`). That a login is `Faithful` is a statement on
the parser: `Layout` places the fields of the request in the block that RSA gives
back. That a built message is carried is one on the writer: `BuiltRight` follows
the bytes through `outbuf_prepare`, the writes, the padding, the cipher and the
two headers, with `XteaInverts` and `AdlerExact`, and `ListLaid` finds every
entry of the list where the client looks for it. A right answer stays right when
the database is lost later, since then the error is one the request may get.

`MessagesFit` is what `outbuf.c` asks of its callers, and what only debug builds
check: every text and every list of characters fits an outbuf in whole blocks,
and a list has no more entries than a byte counts. Nothing in the code bounds the
lists, which is why the hypothesis is there; TLC evaluates it for the instance
(`MCMessagesFit`). The assumptions say that a request fits its RSA block
(`RequestsAssumption`), that the id of an account is the primary key
(`AccountsAssumption`), and that the strings fit behind the key in the block as
the sizes of the code make them (`LayoutAssumption`).

**Codecs.** For every size of a byte, number of rounds and `NMAX` that satisfies
the bound on the sums. One round of the cipher undoes the other for whatever
function the key and the other word go through (`EncodeRound`, `DecodeRound`),
and the running sum ends at `LastSum`; blocks follow one another in
`FlattenSeq`. For the checksum the invariant of the loop relates the reduced sums
to the unreduced ones and bounds them since the last reduction.

Here and below, facts on recursive functions need induction. The library's
theorem on it takes an operator as a parameter, which the provers cannot
instantiate; the proofs take the least element of the set of counterexamples
instead (`LeastElement`, from which `InductionTo` for sets of naturals,
`RecursionTo` and `Iterate` for functions defined by recursion).

**Base64, bcrypt.** `DecodeEncoded` and `DecodeShort` follow the groups of three
bytes and four characters; the table of characters has no character twice.
For the hashes: `generate_hash` reads back the salt and the cost it has
written; two keys give the same key words exactly when they agree in the bytes
that are read, because the terminator, which no password contains, marks where
the key starts over (`WordsTell`).

**RSA.** For every two different odd primes and every exponent that `rsa_setkey`
accepts. From the model's definitions of the GMP functions: numbers without a
common factor have inverses (`InverseExists`: the least positive combination of
both divides them), `mpz_powm` is the remainder of the power (`PowmPower`),
Fermat's theorem by the binomial expansion of `(x + 1)^p`, whose inner
coefficients, rows of Pascal's triangle, are multiples of `p` (`Binomial`,
`PrimeRow`, `Fermat`), and Chinese remainders for the way `rsa_decode` puts its
two results together, negative differences included (`ChineseIs`). `KeyHeld` says
that `ctx` is empty or the numbers of an accepted key; `ImportInjective` and
`ExportImport` say that a number has one string of bytes without leading zeros,
so that the bytes come back as well as the number. A number has at most four
bytes in the model, hence `p * q < U32` in `RsaAssumption`; the size of a byte
is a parameter, so this does not bound the primes.

**Red-black tree.** For every finite set of nodes and every integer key of each,
equal ones included. `SearchTree` computes the subtrees with a recursive
function, which says nothing until it is known to end; the invariant therefore
speaks of *a* function `f` from nodes to sets of nodes that satisfies the
equations of the subtrees (`Spans`), keeps the order of the keys (`Ordered`)
and fits pointers down and up that agree (`Linked`): `Tree(m, S, f)`. Such an `f`
makes the pointers well-founded, since the order keeps a node out of the
subtrees of its children: what holds of a node if it holds of its children
holds of all nodes (`TreeInduction`), the loops end (`DownEnds`, `UpEnds`), and
`f` is the function of `SearchTree` (`SubtreeIs`). Every operation is described
by what it does to each field (`Rotated`, `Replaced`, `TakenOut`, ...), and for
each the new `f` is given (`RotateTree`, `LeafTree`, `OuterTree`, `InnerTree`).
`TreeInv` adds that the cached minimum is the least node, that the local
variables of a loop are in the tree, and that the root is black unless the loop
of insertion is at it. The last is what the comment in `rbt_insert_fixup` needs
for a grandparent to exist; it survives the extra rotations that break the
balance. `OutermostIsLast`, `AdjacentIsNext` and `DescendFinds` are what the loops
compute.

Only model-checked:

* liveness (`ShutdownReleases`, `QueuedTaskRuns`, `SilentConnectionDropped`,
  `LoginResolved`): fairness and ENABLED are out of the prover's reach;
* `AscendingBalanced`: the colours of `RBTree`. The theorems on it say nothing of
  them but for the root.

## 5. Not modelled

* `connmgr_shutdown`, `server_shutdown`, `game_shutdown`: the main loop does not
  return, and `exit` is called only when an initialisation fails, which
  `game_init`, the last one, never does.
* `service_start_closing` and the branch of `service_on_accept` behind it: no
  caller.
* `epoll_server.c` (compiled out), `game1.c`, `otdata.c`, `player.c` (not built).
* The bytes of the game protocol's messages: `protocol_game.c` reads one message
  with the functions modelled for the login and closes on every path.
* 64-bit and floating-point codecs, `murmur2.c`, `random.c`; the tables and
  rounds of `blowfish.c`, a permutation without control, out of TLC's reach.
* `db_internal_connection_reset`, `db_load_player`, `rsa_init_clone`: no caller.
* Logging, libpq, GMP and Lua are external.
* The wrap of the 16-bit uid counter: `docs/problems/connection_uid.txt` accepts
  it, and the runs keep fewer connections than counter values.

## 6. What is left

What is left to model is listed above with its reason. Proofs that are left:

1. `RBTree`: `AscendingBalanced`, with a height for each node beside its subtree.
2. `LoginPipeline`: that it refines `TaskQueue` through its ring, which
   `LoginsAccounted` contains but does not state.
3. `ConnMgr`: the four theorems under a hypothesis per slot, fewer reuses of a
   slot than counter values while a login of it is under way, in the place of
   the bound on all connections.
