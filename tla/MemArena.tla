------------------------------ MODULE MemArena ------------------------------
(***************************************************************************)
(* The memory arena of mem_arena.c: a list of blocks from which memory is  *)
(* handed out upwards, the last allocation can be rolled back and all of   *)
(* it reset at once.                                                       *)
(*                                                                         *)
(* Positions are counted from mem_start of their block, and `blocks' lists *)
(* the blocks from the oldest to the head of the arena.  What the callers  *)
(* believe to own is kept apart from the blocks, in the ghosts `live' and  *)
(* `undoable'.                                                             *)
(***************************************************************************)
EXTENDS Integers, Sequences

CONSTANTS
    SizeMod,    \* values of size_t
    PtrSize,    \* PTR_ALIGNMENT
    BlockSize,  \* arena->block_size
    Requests,   \* the sizes that callers ask for
    MaxLive,    \* bound: allocations alive at a time
    NoPrev      \* mem_prev = NULL

ASSUME ArenaAssumption ==
    /\ PtrSize \in Nat \ {0}
    /\ SizeMod \in Nat /\ SizeMod % PtrSize = 0
    /\ BlockSize \in 1 .. SizeMod - PtrSize
    /\ Requests \subseteq 0 .. SizeMod - 1
    /\ MaxLive \in Nat
    /\ NoPrev \notin Nat

VARIABLES
    blocks,     \* [prev |-> mem_prev, ptr |-> mem_ptr], the head last
    live,       \* ghost: [blk, at, want, room] of the allocations not undone
    undoable,   \* ghost: the last allocation has not been undone
    aborted     \* ASSERT(ptr != NULL) has failed

arenaVars == <<blocks, live, undoable, aborted>>

\* Mutant: the size is rounded down.
AlignDown(x) == x - (x % PtrSize)

\* PTR_ALIGN: only a size that is not aligned is changed, and it may wrap.
PTR_ALIGN(x) ==
    IF x % PtrSize = 0 THEN x
    ELSE LET sum == (x + PtrSize) % SizeMod IN sum - (sum % PtrSize)

\* mem_end of every block.
MemEnd == PTR_ALIGN(BlockSize)

\* mem_arena_block_create
NewBlock == [prev |-> NoPrev, ptr |-> 0]

\* mem_arena_block_alloc keeps one byte of each block unused.
Fits(blk, size) == blk.ptr + size < MemEnd
mem_arena_block_alloc(blk, size) == [prev |-> blk.ptr, ptr |-> blk.ptr + size]

ArenaInit ==
    /\ blocks = <<>>
    /\ live = <<>>
    /\ undoable = FALSE
    /\ aborted = FALSE

\* The blocks that mem_arena_alloc looks at: it creates the first block, and
\* one more when the head is too full.
WithRoom(size) ==
    LET some == IF blocks = <<>> THEN <<NewBlock>> ELSE blocks
    IN  IF Fits(some[Len(some)], size) THEN some ELSE Append(some, NewBlock)

\* Allocations larger than half a block are refused without a trace.
mem_arena_alloc(want) ==
    LET size == PTR_ALIGN(want)
        room == WithRoom(size)
        head == Len(room)
    IN  /\ Len(live) < MaxLive
        /\ size <= BlockSize \div 2
        /\ IF Fits(room[head], size)
           THEN /\ blocks' = [room EXCEPT ![head] =
                                mem_arena_block_alloc(room[head], size)]
                /\ live' = Append(live, [blk |-> head, at |-> room[head].ptr,
                                         want |-> want, room |-> size])
                /\ undoable' = TRUE
                /\ UNCHANGED aborted
           ELSE /\ blocks' = room
                /\ aborted' = TRUE
                /\ UNCHANGED <<live, undoable>>

\* Without an allocation to undo the call changes nothing.
mem_arena_rollback ==
    LET head == Len(blocks)
    IN  /\ head > 0
        /\ blocks[head].prev # NoPrev
        /\ blocks' = [blocks EXCEPT ![head] =
                        [prev |-> NoPrev, ptr |-> blocks[head].prev]]
        /\ live' = IF undoable THEN SubSeq(live, 1, Len(live) - 1) ELSE live
        /\ undoable' = FALSE
        /\ UNCHANGED aborted

\* Mutant: mem_prev of the head survives the reset.
ResetKeepsPrev ==
    /\ blocks # <<>>
    /\ blocks' = <<[blocks[Len(blocks)] EXCEPT !.ptr = 0]>>
    /\ live' = <<>>
    /\ undoable' = FALSE
    /\ UNCHANGED aborted

\* All blocks but the head are freed and the head is emptied.
mem_arena_reset ==
    /\ blocks # <<>>
    /\ blocks' = <<NewBlock>>
    /\ live' = <<>>
    /\ undoable' = FALSE
    /\ UNCHANGED aborted

mem_arena_cleanup ==
    /\ blocks' = <<>>
    /\ live' = <<>>
    /\ undoable' = FALSE
    /\ UNCHANGED aborted

ArenaNext ==
    /\ ~aborted
    /\ \/ \E want \in Requests : mem_arena_alloc(want)
       \/ mem_arena_rollback
       \/ mem_arena_reset
       \/ mem_arena_cleanup

ArenaSpec == ArenaInit /\ [][ArenaNext]_arenaVars

-----------------------------------------------------------------------------
Overlap(a, b) ==
    /\ a.blk = b.blk
    /\ a.at < b.at + b.room
    /\ b.at < a.at + a.room

\* Through any sequence of calls, what the callers hold stays usable: every
\* allocation that has not been undone lies in a block that still exists, at
\* an aligned place, shares no byte with another one and is as large as asked
\* for.  The exception are the requests that PTR_ALIGN wraps to zero.  The
\* assertion that a new block has room for half a block never fails.
AllocationsSound ==
    /\ ~aborted
    /\ \A i \in 1 .. Len(live) :
          LET a == live[i]
          IN  /\ a.blk \in 1 .. Len(blocks)
              /\ a.at % PtrSize = 0
              /\ a.at + a.room < MemEnd
              /\ a.want <= a.room \/ a.want > SizeMod - PtrSize
              /\ \A j \in 1 .. i - 1 : ~Overlap(live[j], a)

\* The end of the last allocation in block k among the first n, or 0.
EndOf(k, n) ==
    LET mine == {i \in 1 .. n : live[i].blk = k}
        last == CHOOSE i \in mine : \A j \in mine : j <= i
    IN  IF mine = {} THEN 0 ELSE live[last].at + live[last].room

\* No memory is lost or handed out twice by undoing: in every block the
\* allocations that are alive lie one after the other and end at mem_ptr, and
\* a rollback is possible exactly when the last allocation was not undone.
SpaceExact ==
    /\ \A i \in 1 .. Len(live) : live[i].at = EndOf(live[i].blk, i - 1)
    /\ \A k \in 1 .. Len(blocks) :
          /\ blocks[k].ptr = EndOf(k, Len(live))
          /\ k = Len(blocks) => (blocks[k].prev # NoPrev <=> undoable)
=============================================================================
