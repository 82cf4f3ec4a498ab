---------------------------- MODULE LibraryProofs ----------------------------
(***************************************************************************)
(* The libraries without threads.                                          *)
(*                                                                         *)
(* Whatever the sizes, the arena of MemArena hands out no byte twice and   *)
(* loses none by undoing an allocation.  Base64 gives back every text, and *)
(* a password hash tells the passwords apart, whatever the texts, the      *)
(* passwords, the salts and the costs.  RSA gives back every message, with *)
(* every key that rsa_setkey accepts.  The red-black tree stays a search   *)
(* tree with the right minimum, maximum and neighbours, whatever is        *)
(* inserted and removed.                                                   *)
(***************************************************************************)
EXTENDS RBTree, MemArena, Bcrypt, Rsa, CodecProofs

-----------------------------------------------------------------------------
(***************************************************************************)
(* The memory arena: its inductive invariant.                              *)
(***************************************************************************)

Block == [prev : Nat \cup {NoPrev}, ptr : Nat]
Allocation == [blk : Nat, at : Nat, want : Nat, room : Nat]

ArenaTypes ==
    /\ blocks \in Seq(Block)
    /\ live \in Seq(Allocation)
    /\ undoable \in BOOLEAN
    /\ aborted = FALSE

\* e is the end of the last allocation in block k among the first n of L.
IsEnd(L, k, n, e) ==
    \/ e = 0 /\ \A i \in 1 .. n : L[i].blk # k
    \/ \E i \in 1 .. n : /\ L[i].blk = k /\ e = L[i].at + L[i].room
                         /\ \A j \in 1 .. n : j > i => L[j].blk # k

\* mem_ptr is aligned and leaves a byte of its block unused.
BlockInv(b) == b.ptr % PtrSize = 0 /\ b.ptr < MemEnd

BlocksInv == \A k \in 1 .. Len(blocks) : BlockInv(blocks[k])

AllocInv(a) ==
    /\ a.at % PtrSize = 0
    /\ a.want <= a.room \/ a.want > SizeMod - PtrSize

\* Every allocation lies below mem_ptr of its block.
LiveInv ==
    \A i \in 1 .. Len(live) :
        /\ AllocInv(live[i])
        /\ live[i].blk \in 1 .. Len(blocks)
        /\ live[i].at + live[i].room <= blocks[live[i].blk].ptr

\* Within a block, later allocations lie above the earlier ones.
Upwards ==
    \A j \in 1 .. Len(live) : \A i \in 1 .. j - 1 :
        live[i].blk = live[j].blk => live[i].at + live[i].room <= live[j].at

\* The allocations of a block leave no gap.
NoGaps ==
    /\ \A i \in 1 .. Len(live) : IsEnd(live, live[i].blk, i - 1, live[i].at)
    /\ \A k \in 1 .. Len(blocks) : IsEnd(live, k, Len(live), blocks[k].ptr)

\* mem_prev of the head is where the last allocation begins, if it can be
\* undone, and NULL otherwise.
Undo ==
    /\ undoable =>
         /\ Len(blocks) > 0 /\ Len(live) > 0
         /\ live[Len(live)].blk = Len(blocks)
         /\ blocks[Len(blocks)].prev = live[Len(live)].at
    /\ ~undoable /\ Len(blocks) > 0 => blocks[Len(blocks)].prev = NoPrev

ArenaInv ==
    /\ ArenaTypes
    /\ BlocksInv
    /\ LiveInv
    /\ Upwards
    /\ NoGaps
    /\ Undo

-----------------------------------------------------------------------------
(***************************************************************************)
(* Alignment.                                                              *)
(***************************************************************************)

LEMMA Sizes ==
    /\ PtrSize \in Nat \ {0} /\ SizeMod \in Nat \ {0} /\ SizeMod % PtrSize = 0
    /\ BlockSize \in Nat \ {0} /\ BlockSize <= SizeMod - PtrSize
    /\ BlockSize \in 0 .. SizeMod - 1
    /\ \A w \in Requests : w \in 0 .. SizeMod - 1
    /\ MaxLive \in Nat /\ NoPrev \notin Nat
<1>1. /\ PtrSize \in Nat \ {0} /\ SizeMod \in Nat /\ SizeMod % PtrSize = 0
      /\ BlockSize \in 1 .. SizeMod - PtrSize
      /\ Requests \subseteq 0 .. SizeMod - 1
      /\ MaxLive \in Nat /\ NoPrev \notin Nat
  BY ArenaAssumption
<1> QED  BY <1>1

\* Quotient and remainder.
LEMMA Division ==
    ASSUME NEW b \in Nat \ {0}, NEW x \in Int
    PROVE  \E n \in Int, r \in 0 .. b - 1 : x = b * n + r /\ r = x % b
<1>1. x \div b \in Int /\ x % b \in 0 .. b - 1 /\ x = b * (x \div b) + (x % b)
  OBVIOUS
<1> QED  BY <1>1

\* Quotient and remainder are unique.
LEMMA DivisionUnique ==
    ASSUME NEW b \in Nat \ {0}, NEW k \in Int, NEW j \in Int,
           NEW r \in 0 .. b - 1, NEW s \in 0 .. b - 1, b * k + r = b * j + s
    PROVE  r = s
<1>1. b * (k - j) = s - r
  OBVIOUS
<1>2. k - j < 1 /\ k - j > -1
  OBVIOUS
<1> QED  BY <1>1, <1>2

\* A multiple of b leaves no remainder.
LEMMA MultipleMod ==
    ASSUME NEW b \in Nat \ {0}, NEW k \in Int
    PROVE  (b * k) % b = 0
<1>1. PICK x \in Int : x = b * k
  OBVIOUS
<1>2. PICK n \in Int, r \in 0 .. b - 1 : x = b * n + r /\ r = x % b
  BY Division
<1>3. b * k + 0 = b * n + r /\ 0 \in 0 .. b - 1
  BY <1>1, <1>2
<1>4. 0 = r
  BY <1>3, DivisionUnique
<1> QED  BY <1>1, <1>2, <1>4

LEMMA AlignedSum ==
    ASSUME NEW b \in Nat \ {0}, NEW x \in Int, NEW y \in Int,
           x % b = 0, y % b = 0
    PROVE  (x + y) % b = 0 /\ (x - y) % b = 0
<1>1. PICK n \in Int : x = b * n
  <2>1. PICK n \in Int, r \in 0 .. b - 1 : x = b * n + r /\ r = x % b
    BY Division
  <2>2. x = b * n
    BY <2>1
  <2> QED  BY <2>2
<1>2. PICK m \in Int : y = b * m
  <2>1. PICK m \in Int, r \in 0 .. b - 1 : y = b * m + r /\ r = y % b
    BY Division
  <2>2. y = b * m
    BY <2>1
  <2> QED  BY <2>2
<1>3. PICK p \in Int, q \in Int : p = n + m /\ q = n - m
  OBVIOUS
<1>4. x + y = b * p /\ x - y = b * q
  BY <1>1, <1>2, <1>3
<1> QED  BY <1>4, MultipleMod

\* PTR_ALIGN: an aligned size, and one that is large enough unless it wraps.
LEMMA Aligns ==
    ASSUME NEW x \in 0 .. SizeMod - 1
    PROVE  /\ PTR_ALIGN(x) \in Nat /\ PTR_ALIGN(x) % PtrSize = 0
           /\ x <= PTR_ALIGN(x) \/ x > SizeMod - PtrSize
<1>1. PtrSize \in Nat \ {0} /\ SizeMod \in Nat \ {0} /\ SizeMod % PtrSize = 0
  BY Sizes
<1>2. CASE x % PtrSize = 0
  <2>1. PTR_ALIGN(x) = x
    BY <1>2 DEF PTR_ALIGN
  <2> QED  BY <1>1, <1>2, <2>1
<1>3. CASE x % PtrSize # 0
  <2>1. PICK y : y = (x + PtrSize) % SizeMod
    OBVIOUS
  <2>2. y \in Nat /\ (x + PtrSize < SizeMod => y = x + PtrSize)
    BY <1>1, <2>1
  <2>3. PICK n \in Int, r \in 0 .. PtrSize - 1 : y = PtrSize * n + r /\ r = y % PtrSize
    <3>1. y \in Int
      BY <2>2
    <3> HIDE <2>1
    <3> QED  BY <1>1, <3>1, Division
  <2>4. PTR_ALIGN(x) = y - r
    BY <1>3, <2>1, <2>3 DEF PTR_ALIGN
  <2>5. y - r = PtrSize * n
    BY <1>1, <2>2, <2>3
  <2>6. (y - r) % PtrSize = 0
    BY <1>1, <2>5, MultipleMod
  <2>7. y - r \in Nat
    <3>1. PtrSize * n > - PtrSize
      BY <1>1, <2>2, <2>3
    <3>2. n > -1
      BY <1>1, <3>1
    <3>3. PtrSize * n \in Nat
      BY <1>1, <3>2
    <3> QED  BY <2>5, <3>3
  <2>8. x + PtrSize < SizeMod => x <= y - r
    BY <1>1, <2>2, <2>3
  <2>9. x + PtrSize # SizeMod
    <3> SUFFICES ASSUME x + PtrSize = SizeMod PROVE FALSE
      OBVIOUS
    <3>1. PtrSize % PtrSize = 0
      BY <1>1
    <3>2. (SizeMod - PtrSize) % PtrSize = 0
      <4>1. PtrSize \in Int /\ SizeMod \in Int
        BY <1>1
      <4> QED  BY <1>1, <3>1, <4>1, AlignedSum
    <3>3. x = SizeMod - PtrSize
      BY <1>1
    <3> QED  BY <1>3, <3>2, <3>3
  <2>10. x <= y - r \/ x > SizeMod - PtrSize
    BY <1>1, <2>8, <2>9
  <2> QED  BY <2>4, <2>6, <2>7, <2>10
<1> QED  BY <1>2, <1>3

\* A block has room for the largest allocation.
LEMMA BlockHasRoom ==
    MemEnd \in Nat /\ MemEnd > 0 /\ BlockSize \div 2 < MemEnd
<1>1. BlockSize \in 0 .. SizeMod - 1 /\ BlockSize \in Nat \ {0}
      /\ BlockSize <= SizeMod - PtrSize /\ SizeMod \in Nat /\ PtrSize \in Nat
  BY Sizes
<1>2. MemEnd \in Nat /\ BlockSize <= MemEnd
  BY <1>1, Aligns DEF MemEnd
<1>3. BlockSize \div 2 < BlockSize
  BY <1>1
<1> QED  BY <1>1, <1>2, <1>3

-----------------------------------------------------------------------------
(***************************************************************************)
(* The ends of allocations.                                                *)
(***************************************************************************)

\* What follows the first n does not matter.
LEMMA EndSame ==
    ASSUME NEW L, NEW M, NEW n \in Nat, NEW k, NEW e,
           \A i \in 1 .. n : M[i] = L[i], IsEnd(L, k, n, e)
    PROVE  IsEnd(M, k, n, e)
  BY DEF IsEnd

\* One more allocation, in another block or in this one.
LEMMA EndNext ==
    ASSUME NEW L, NEW n \in Nat, NEW k, NEW e
    PROVE  /\ L[n + 1].blk # k => (IsEnd(L, k, n + 1, e) <=> IsEnd(L, k, n, e))
           /\ L[n + 1].blk = k /\ e = L[n + 1].at + L[n + 1].room
                => IsEnd(L, k, n + 1, e)
<1>1. \A i \in 1 .. n : i \in 1 .. n + 1
  OBVIOUS
<1>2. \A i \in 1 .. n + 1 : i \in 1 .. n \/ i = n + 1
  OBVIOUS
<1>3. n + 1 \in 1 .. n + 1 /\ \A j \in 1 .. n + 1 : ~(j > n + 1)
  OBVIOUS
<1>4. ASSUME L[n + 1].blk # k PROVE IsEnd(L, k, n + 1, e) <=> IsEnd(L, k, n, e)
  BY <1>1, <1>2, <1>4 DEF IsEnd
<1>5. ASSUME L[n + 1].blk = k, e = L[n + 1].at + L[n + 1].room
      PROVE  IsEnd(L, k, n + 1, e)
  BY <1>3, <1>5 DEF IsEnd
<1> QED  BY <1>4, <1>5

\* IsEnd is what EndOf computes.
LEMMA EndIs ==
    ASSUME NEW n \in Nat, NEW k, NEW e, IsEnd(live, k, n, e)
    PROVE  e = EndOf(k, n)
<1> DEFINE mine == {i \in 1 .. n : live[i].blk = k}
           last == CHOOSE i \in mine : \A j \in mine : j <= i
<1>1. EndOf(k, n) = IF mine = {} THEN 0 ELSE live[last].at + live[last].room
  BY DEF EndOf
<1>2. CASE e = 0 /\ \A i \in 1 .. n : live[i].blk # k
  <2>1. mine = {}
    BY <1>2
  <2> QED  BY <1>1, <1>2, <2>1
<1>3. CASE \E i \in 1 .. n : /\ live[i].blk = k /\ e = live[i].at + live[i].room
                             /\ \A j \in 1 .. n : j > i => live[j].blk # k
  <2>1. PICK i \in 1 .. n : /\ live[i].blk = k /\ e = live[i].at + live[i].room
                            /\ \A j \in 1 .. n : j > i => live[j].blk # k
    BY <1>3
  <2>2. i \in mine /\ \A j \in mine : j <= i
    BY <2>1
  <2>3. mine \subseteq Int
    OBVIOUS
  <2> HIDE DEF mine
  <2>4. last \in mine /\ \A j \in mine : j <= last
    BY <2>2
  <2>5. last <= i /\ i <= last /\ last \in Int /\ i \in Int
    BY <2>2, <2>3, <2>4
  <2>6. last = i
    BY <2>5
  <2> QED  BY <1>1, <2>1, <2>2, <2>6
<1> QED  BY <1>2, <1>3 DEF IsEnd

-----------------------------------------------------------------------------
(***************************************************************************)
(* Every call preserves the invariant.                                     *)
(***************************************************************************)

LEMMA InitArenaInv == ArenaInit => ArenaInv
<1> SUFFICES ASSUME ArenaInit PROVE ArenaInv
  OBVIOUS
<1>1. blocks = <<>> /\ live = <<>> /\ undoable = FALSE /\ aborted = FALSE
  BY DEF ArenaInit
<1>2. Len(<<>>) = 0 /\ <<>> \in Seq(Block) /\ <<>> \in Seq(Allocation)
  OBVIOUS
<1>3. ArenaTypes
  BY <1>1, <1>2 DEF ArenaTypes
<1>4. BlocksInv /\ LiveInv /\ Upwards /\ NoGaps /\ Undo
  BY <1>1, <1>2 DEF BlocksInv, LiveInv, Upwards, NoGaps, Undo
<1> QED  BY <1>3, <1>4 DEF ArenaInv

\* The blocks there are when an allocation is made: those there were, and
\* perhaps an empty one.
Extends(B, room) ==
    \/ room = B /\ Len(B) > 0
    \/ room = Append(B, NewBlock)

LEMMA RoomIs ==
    ASSUME ArenaInv, NEW size \in Nat, size <= BlockSize \div 2,
           NEW room, room = WithRoom(size)
    PROVE  Extends(blocks, room) /\ Fits(room[Len(room)], size)
<1>1. blocks \in Seq(Block) /\ BlockSize \div 2 \in Nat
  BY Sizes DEF ArenaInv, ArenaTypes
<1>2. Fits(NewBlock, size)
  <2>1. 0 + size < MemEnd
    BY <1>1, BlockHasRoom
  <2> QED  BY <2>1 DEF Fits, NewBlock
<1>3. CASE blocks = <<>>
  <2>1. /\ <<NewBlock>> = Append(blocks, NewBlock)
        /\ Len(<<NewBlock>>) = 1 /\ <<NewBlock>>[1] = NewBlock
    BY <1>3
  <2>2. room = <<NewBlock>>
    BY <1>2, <1>3, <2>1 DEF WithRoom
  <2> QED  BY <1>2, <2>1, <2>2 DEF Extends
<1>4. CASE blocks # <<>> /\ Fits(blocks[Len(blocks)], size)
  <2>1. room = blocks /\ Len(blocks) > 0
    BY <1>1, <1>4 DEF WithRoom
  <2> QED  BY <1>4, <2>1 DEF Extends
<1>5. CASE blocks # <<>> /\ ~Fits(blocks[Len(blocks)], size)
  <2>1. room = Append(blocks, NewBlock)
    BY <1>5 DEF WithRoom
  <2>2. room[Len(room)] = NewBlock
    BY <1>1, <2>1
  <2> QED  BY <1>2, <2>1, <2>2 DEF Extends
<1> QED  BY <1>3, <1>4, <1>5

\* An empty block more changes nothing, but for what can be undone.
LEMMA RoomInv ==
    ASSUME ArenaInv, NEW room, Extends(blocks, room)
    PROVE  /\ room \in Seq(Block) /\ Len(room) \in Nat \ {0}
           /\ Len(blocks) <= Len(room)
           /\ \A k \in 1 .. Len(room) : /\ BlockInv(room[k])
                                        /\ IsEnd(live, k, Len(live), room[k].ptr)
           /\ \A i \in 1 .. Len(live) :
                /\ live[i].blk \in 1 .. Len(room)
                /\ live[i].at + live[i].room <= room[live[i].blk].ptr
<1>1. /\ blocks \in Seq(Block) /\ live \in Seq(Allocation)
      /\ \A k \in 1 .. Len(blocks) : /\ BlockInv(blocks[k])
                                     /\ IsEnd(live, k, Len(live), blocks[k].ptr)
      /\ \A i \in 1 .. Len(live) :
           /\ live[i].blk \in 1 .. Len(blocks)
           /\ live[i].at + live[i].room <= blocks[live[i].blk].ptr
  BY DEF ArenaInv, ArenaTypes, BlocksInv, NoGaps, LiveInv
<1>2. CASE room = blocks /\ Len(blocks) > 0
  BY <1>1, <1>2
<1>3. CASE room = Append(blocks, NewBlock)
  <2>1. NewBlock \in Block /\ NewBlock.ptr = 0
    BY DEF NewBlock, Block
  <2>2. /\ room \in Seq(Block) /\ Len(room) = Len(blocks) + 1
        /\ room[Len(blocks) + 1] = NewBlock
        /\ \A k \in 1 .. Len(blocks) : room[k] = blocks[k]
    BY <1>1, <1>3, <2>1
  <2>3. Len(blocks) \in Nat /\ Len(live) \in Nat
    BY <1>1
  <2>4. BlockInv(NewBlock)
    BY <2>1, Sizes, BlockHasRoom DEF BlockInv
  <2>5. IsEnd(live, Len(blocks) + 1, Len(live), 0)
    <3>1. \A i \in 1 .. Len(live) : live[i].blk # Len(blocks) + 1
      BY <1>1, <2>3
    <3> QED  BY <3>1 DEF IsEnd
  <2>6. \A k \in 1 .. Len(room) : k \in 1 .. Len(blocks) \/ k = Len(blocks) + 1
    BY <2>2, <2>3
  <2>7. \A k \in 1 .. Len(room) : /\ BlockInv(room[k])
                                  /\ IsEnd(live, k, Len(live), room[k].ptr)
    BY <1>1, <2>1, <2>2, <2>4, <2>5, <2>6
  <2>8. \A i \in 1 .. Len(live) :
          /\ live[i].blk \in 1 .. Len(room)
          /\ live[i].at + live[i].room <= room[live[i].blk].ptr
    <3>1. \A k \in 1 .. Len(blocks) : k \in 1 .. Len(room)
      BY <2>2, <2>3
    <3> QED  BY <1>1, <2>2, <3>1
  <2>9. Len(room) \in Nat \ {0} /\ Len(blocks) <= Len(room)
    BY <2>2, <2>3
  <2> QED  BY <2>2, <2>7, <2>8, <2>9
<1> QED  BY <1>2, <1>3 DEF Extends

LEMMA AllocArenaInv ==
    ASSUME ArenaInv, NEW want \in Requests, mem_arena_alloc(want)
    PROVE  ArenaInv'
<1>1. PICK size : size = PTR_ALIGN(want)
  OBVIOUS
<1>2. /\ size \in Nat /\ size % PtrSize = 0
      /\ want <= size \/ want > SizeMod - PtrSize
      /\ want \in Nat
  <2>1. want \in 0 .. SizeMod - 1
    BY Sizes
  <2> QED  BY <1>1, <2>1, Aligns
<1>3. size <= BlockSize \div 2
  BY <1>1 DEF mem_arena_alloc
<1>4. PICK room : room = WithRoom(size)
  OBVIOUS
<1>5. Extends(blocks, room) /\ Fits(room[Len(room)], size)
  BY <1>2, <1>3, <1>4, RoomIs
<1>6. /\ room \in Seq(Block) /\ Len(room) \in Nat \ {0}
      /\ \A k \in 1 .. Len(room) : /\ BlockInv(room[k])
                                   /\ IsEnd(live, k, Len(live), room[k].ptr)
      /\ \A i \in 1 .. Len(live) :
           /\ live[i].blk \in 1 .. Len(room)
           /\ live[i].at + live[i].room <= room[live[i].blk].ptr
  BY <1>5, RoomInv
<1>7. PICK h \in Nat \ {0} : h = Len(room)
  BY <1>6
<1>8. PICK at \in Nat : at = room[h].ptr
  <2>1. h \in 1 .. Len(room)
    BY <1>6, <1>7
  <2>2. room[h] \in Block
    BY <1>6, <2>1
  <2> QED  BY <2>2 DEF Block
<1>9. PICK n \in Nat : n = Len(live)
  BY DEF ArenaInv, ArenaTypes
<1>10. PICK b : b = [prev |-> at, ptr |-> at + size]
  OBVIOUS
<1>11. PICK a : a = [blk |-> h, at |-> at, want |-> want, room |-> size]
  OBVIOUS
<1>12. /\ blocks' = [room EXCEPT ![h] = b] /\ live' = Append(live, a)
       /\ undoable' = TRUE /\ UNCHANGED aborted
  BY <1>1, <1>4, <1>5, <1>7, <1>8, <1>10, <1>11
     DEF mem_arena_alloc, mem_arena_block_alloc
<1>13. b \in Block /\ b.prev = at /\ b.ptr = at + size
  BY <1>2, <1>10 DEF Block
<1>14. /\ a \in Allocation /\ a.blk = h /\ a.at = at /\ a.want = want
       /\ a.room = size
  BY <1>2, <1>11 DEF Allocation
<1>15. /\ blocks' \in Seq(Block) /\ Len(blocks') = h /\ h \in 1 .. h
       /\ blocks'[h] = b /\ \A k \in 1 .. h : k # h => blocks'[k] = room[k]
  BY <1>6, <1>7, <1>12, <1>13
<1>16. /\ live \in Seq(Allocation) /\ undoable \in BOOLEAN /\ aborted = FALSE
  BY DEF ArenaInv, ArenaTypes
<1>17. /\ live' \in Seq(Allocation) /\ Len(live') = n + 1
       /\ live'[n + 1] = a /\ \A i \in 1 .. n : live'[i] = live[i]
  BY <1>9, <1>12, <1>14, <1>16
<1>18. ArenaTypes'
  BY <1>12, <1>15, <1>16, <1>17 DEF ArenaTypes
<1>19. at % PtrSize = 0 /\ at + size < MemEnd
  BY <1>5, <1>6, <1>7, <1>8 DEF BlockInv, Fits
<1>20. BlocksInv'
  <2>1. (at + size) % PtrSize = 0
    <3>1. PtrSize \in Nat \ {0} /\ at \in Int /\ size \in Int
      BY <1>2, Sizes
    <3> QED  BY <1>2, <1>19, <3>1, AlignedSum
  <2>2. BlockInv(b)
    BY <1>13, <1>19, <2>1 DEF BlockInv
  <2> QED  BY <1>6, <1>7, <1>15, <2>2 DEF BlocksInv
<1>21. \A i \in 1 .. n + 1 : i \in 1 .. n \/ i = n + 1
  OBVIOUS
<1>22. \A i \in 1 .. n : live[i] \in Allocation
  BY <1>9, <1>16
<1>23. ASSUME NEW i \in 1 .. n, live[i].blk = h
       PROVE  live[i].at + live[i].room <= at
  BY <1>6, <1>8, <1>9, <1>23
<1>24. LiveInv'
  <2> SUFFICES ASSUME NEW i \in 1 .. n + 1
               PROVE  /\ AllocInv(live'[i]) /\ live'[i].blk \in 1 .. h
                      /\ live'[i].at + live'[i].room <= blocks'[live'[i].blk].ptr
    BY <1>15, <1>17 DEF LiveInv
  <2>1. CASE i = n + 1
    <3>1. AllocInv(a)
      BY <1>2, <1>14, <1>19 DEF AllocInv
    <3>2. at + size <= at + size
      BY <1>2
    <3> QED  BY <1>13, <1>14, <1>15, <1>17, <2>1, <3>1, <3>2
  <2>2. CASE i \in 1 .. n
    <3>1. live'[i] = live[i] /\ AllocInv(live[i]) /\ live[i].blk \in 1 .. h
      BY <1>6, <1>7, <1>9, <1>17, <2>2 DEF ArenaInv, LiveInv
    <3>2. CASE live[i].blk = h
      <4>1. live[i].at + live[i].room <= at
        BY <1>23, <2>2, <3>2
      <4>2. live[i].at \in Nat /\ live[i].room \in Nat
        BY <1>22, <2>2 DEF Allocation
      <4>3. live[i].at + live[i].room <= at + size
        BY <1>2, <4>1, <4>2
      <4> QED  BY <1>13, <1>15, <3>1, <3>2, <4>3
    <3>3. CASE live[i].blk # h
      BY <1>6, <1>9, <1>15, <2>2, <3>1, <3>3
    <3> QED  BY <3>1, <3>2, <3>3
  <2> QED  BY <1>21, <2>1, <2>2
<1>25. Upwards'
  <2> SUFFICES ASSUME NEW j \in 1 .. n + 1, NEW i \in 1 .. j - 1,
                      live'[i].blk = live'[j].blk
               PROVE  live'[i].at + live'[i].room <= live'[j].at
    BY <1>17 DEF Upwards
  <2>1. i \in 1 .. n /\ live'[i] = live[i]
    BY <1>17
  <2>2. CASE j = n + 1
    BY <1>14, <1>17, <1>23, <2>1, <2>2
  <2>3. CASE j \in 1 .. n
    BY <1>9, <1>17, <2>1, <2>3 DEF ArenaInv, Upwards
  <2> QED  BY <1>21, <2>2, <2>3
<1>26. \A k \in 1 .. h : IsEnd(live', k, n + 1, blocks'[k].ptr)
  <2> SUFFICES ASSUME NEW k \in 1 .. h
               PROVE  IsEnd(live', k, n + 1, blocks'[k].ptr)
    OBVIOUS
  <2>1. PICK M : M = live'
    OBVIOUS
  <2>2. CASE k = h
    BY <1>13, <1>14, <1>15, <1>17, <2>1, <2>2, EndNext
  <2>3. CASE k # h
    <3>1. IsEnd(live, k, n, room[k].ptr)
      BY <1>6, <1>7, <1>9
    <3>2. IsEnd(M, k, n, room[k].ptr)
      BY <1>17, <2>1, <3>1, EndSame
    <3>3. M[n + 1].blk # k
      BY <1>14, <1>17, <2>1, <2>3
    <3>4. IsEnd(M, k, n + 1, room[k].ptr)
      BY <3>2, <3>3, EndNext
    <3> QED  BY <1>15, <2>1, <2>3, <3>4
  <2> QED  BY <2>2, <2>3
<1>27. ASSUME NEW i \in 1 .. n + 1
       PROVE  IsEnd(live', live'[i].blk, i - 1, live'[i].at)
  <2>1. PICK M : M = live'
    OBVIOUS
  <2>2. CASE i = n + 1
    <3>1. IsEnd(live, h, n, at)
      BY <1>6, <1>7, <1>8, <1>9
    <3>2. IsEnd(M, h, n, at)
      BY <1>17, <2>1, <3>1, EndSame
    <3>3. i - 1 = n
      BY <2>2
    <3> QED  BY <1>14, <1>17, <2>1, <2>2, <3>2, <3>3
  <2>3. CASE i \in 1 .. n
    <3>1. IsEnd(live, live[i].blk, i - 1, live[i].at)
      BY <1>9, <2>3 DEF ArenaInv, NoGaps
    <3>2. i - 1 \in Nat /\ \A j \in 1 .. i - 1 : j \in 1 .. n
      BY <2>3
    <3>3. \A j \in 1 .. i - 1 : M[j] = live[j]
      BY <1>17, <2>1, <3>2
    <3>4. IsEnd(M, live[i].blk, i - 1, live[i].at)
      BY <3>1, <3>2, <3>3, EndSame
    <3> QED  BY <1>17, <2>1, <2>3, <3>4
  <2> QED  BY <1>21, <2>2, <2>3
<1>28. NoGaps'
  BY <1>15, <1>17, <1>26, <1>27 DEF NoGaps
<1>29. Undo'
  BY <1>12, <1>13, <1>14, <1>15, <1>17 DEF Undo
<1> QED  BY <1>18, <1>20, <1>24, <1>25, <1>28, <1>29 DEF ArenaInv

LEMMA RollbackArenaInv ==
    ASSUME ArenaInv, mem_arena_rollback
    PROVE  ArenaInv'
<1>1. /\ blocks \in Seq(Block) /\ live \in Seq(Allocation)
      /\ undoable \in BOOLEAN /\ aborted = FALSE
  BY DEF ArenaInv, ArenaTypes
<1>2. PICK h \in Nat \ {0} : h = Len(blocks) /\ h \in 1 .. Len(blocks)
  BY <1>1 DEF mem_arena_rollback
<1>3. blocks[h].prev # NoPrev
  BY <1>2 DEF mem_arena_rollback
<1>4. undoable
  BY <1>2, <1>3 DEF ArenaInv, Undo
<1>5. PICK n \in Nat : n + 1 = Len(live)
  <2>1. Len(live) \in Nat /\ Len(live) > 0
    BY <1>1, <1>4 DEF ArenaInv, Undo
  <2>2. Len(live) - 1 \in Nat /\ (Len(live) - 1) + 1 = Len(live)
    BY <2>1
  <2> QED  BY <2>2
<1>6. n + 1 \in 1 .. Len(live) /\ \A i \in 1 .. n : i \in 1 .. Len(live)
  BY <1>5
<1>7. PICK a \in Allocation : a = live[n + 1]
  BY <1>1, <1>6
<1>8. a.blk = h /\ blocks[h].prev = a.at /\ a.at \in Nat
  BY <1>2, <1>4, <1>5, <1>7 DEF ArenaInv, Undo, Allocation
<1>9. PICK b : b = [prev |-> NoPrev, ptr |-> a.at]
  OBVIOUS
<1>10. b \in Block /\ b.prev = NoPrev /\ b.ptr = a.at
  BY <1>8, <1>9 DEF Block
<1>11. /\ blocks' = [blocks EXCEPT ![h] = b]
       /\ live' = SubSeq(live, 1, Len(live) - 1)
       /\ undoable' = FALSE /\ UNCHANGED aborted
  BY <1>2, <1>4, <1>8, <1>9 DEF mem_arena_rollback
<1>12. /\ blocks' \in Seq(Block) /\ Len(blocks') = h
       /\ blocks'[h] = b /\ \A k \in 1 .. h : k # h => blocks'[k] = blocks[k]
  BY <1>1, <1>2, <1>10, <1>11
<1>13. Len(live) - 1 = n
  BY <1>5
<1>14. /\ live' \in Seq(Allocation) /\ Len(live') = n
       /\ \A i \in 1 .. n : live'[i] = live[i]
  BY <1>1, <1>5, <1>11, <1>13
<1>15. ArenaTypes'
  BY <1>1, <1>11, <1>12, <1>14 DEF ArenaTypes
<1>16. \A i \in 1 .. n : live[i] \in Allocation
  BY <1>1, <1>6
<1>17. AllocInv(a) /\ a.at + a.room <= blocks[h].ptr
  BY <1>6, <1>7, <1>8 DEF ArenaInv, LiveInv
<1>18. BlocksInv'
  <2>1. a.at <= blocks[h].ptr /\ a.at \in Nat /\ blocks[h].ptr \in Nat
    <3>1. blocks[h] \in Block /\ a \in Allocation
      BY <1>1, <1>2, <1>6, <1>8
    <3>2. blocks[h].ptr \in Nat /\ a.room \in Nat /\ a.at \in Nat
      BY <3>1 DEF Block, Allocation
    <3> QED  BY <1>17, <3>2
  <2>2. BlockInv(blocks[h])
    BY <1>2 DEF ArenaInv, BlocksInv
  <2>3. BlockInv(b)
    BY <1>10, <1>17, <2>1, <2>2, BlockHasRoom DEF BlockInv, AllocInv
  <2> QED  BY <1>2, <1>12, <2>3 DEF ArenaInv, BlocksInv
<1>19. ASSUME NEW i \in 1 .. n, live[i].blk = h
       PROVE  live[i].at + live[i].room <= a.at
  <2>1. i \in 1 .. (n + 1) - 1
    OBVIOUS
  <2> QED  BY <1>6, <1>7, <1>8, <1>19, <2>1 DEF ArenaInv, Upwards
<1>20. LiveInv'
  <2> SUFFICES ASSUME NEW i \in 1 .. n
               PROVE  /\ AllocInv(live[i]) /\ live[i].blk \in 1 .. h
                      /\ live[i].at + live[i].room <= blocks'[live[i].blk].ptr
    BY <1>12, <1>14 DEF LiveInv
  <2>1. /\ AllocInv(live[i]) /\ live[i].blk \in 1 .. h
        /\ live[i].at + live[i].room <= blocks[live[i].blk].ptr
    BY <1>2, <1>6 DEF ArenaInv, LiveInv
  <2>2. CASE live[i].blk = h
    BY <1>10, <1>12, <1>19, <2>1, <2>2
  <2>3. CASE live[i].blk # h
    BY <1>12, <2>1, <2>3
  <2> QED  BY <2>2, <2>3
<1>21. Upwards'
  <2> SUFFICES ASSUME NEW j \in 1 .. n, NEW i \in 1 .. j - 1,
                      live'[i].blk = live'[j].blk
               PROVE  live'[i].at + live'[i].room <= live'[j].at
    BY <1>14 DEF Upwards
  <2>1. i \in 1 .. n
    OBVIOUS
  <2> QED  BY <1>6, <1>14, <2>1 DEF ArenaInv, Upwards
<1>22. PICK M : M = live'
  OBVIOUS
<1>23. ASSUME NEW k \in 1 .. h
       PROVE  IsEnd(M, k, n, blocks'[k].ptr)
  <2>1. CASE k = h
    <3>1. IsEnd(live, h, (n + 1) - 1, a.at)
      BY <1>6, <1>7, <1>8 DEF ArenaInv, NoGaps
    <3>2. (n + 1) - 1 = n
      OBVIOUS
    <3>3. IsEnd(live, h, n, a.at)
      BY <3>1, <3>2
    <3>4. IsEnd(M, h, n, a.at)
      BY <1>14, <1>22, <3>3, EndSame
    <3> QED  BY <1>10, <1>12, <2>1, <3>4
  <2>2. CASE k # h
    <3>1. IsEnd(live, k, n + 1, blocks[k].ptr)
      BY <1>2, <1>5 DEF ArenaInv, NoGaps
    <3>2. live[n + 1].blk # k
      BY <1>7, <1>8, <2>2
    <3>3. IsEnd(live, k, n, blocks[k].ptr)
      BY <3>1, <3>2, EndNext
    <3>4. IsEnd(M, k, n, blocks[k].ptr)
      BY <1>14, <1>22, <3>3, EndSame
    <3> QED  BY <1>12, <2>2, <3>4
  <2> QED  BY <2>1, <2>2
<1>24. ASSUME NEW i \in 1 .. n
       PROVE  IsEnd(M, M[i].blk, i - 1, M[i].at)
  <2>1. IsEnd(live, live[i].blk, i - 1, live[i].at)
    BY <1>6 DEF ArenaInv, NoGaps
  <2>2. i - 1 \in Nat /\ \A j \in 1 .. i - 1 : j \in 1 .. n
    OBVIOUS
  <2>3. \A j \in 1 .. i - 1 : M[j] = live[j]
    BY <1>14, <1>22, <2>2
  <2>4. IsEnd(M, live[i].blk, i - 1, live[i].at)
    BY <2>1, <2>2, <2>3, EndSame
  <2> QED  BY <1>14, <1>22, <2>4
<1>25. NoGaps'
  BY <1>12, <1>14, <1>22, <1>23, <1>24 DEF NoGaps
<1>26. Undo'
  BY <1>10, <1>11, <1>12 DEF Undo
<1> QED  BY <1>15, <1>18, <1>20, <1>21, <1>25, <1>26 DEF ArenaInv

\* Without allocations there is nothing to keep.
LEMMA EmptyArenaInv ==
    ASSUME ArenaInv, blocks' = <<>> \/ blocks' = <<NewBlock>>, live' = <<>>,
           undoable' = FALSE, UNCHANGED aborted
    PROVE  ArenaInv'
<1>1. Len(live') = 0 /\ live' \in Seq(Allocation)
  OBVIOUS
<1>2. NewBlock \in Block /\ NewBlock.ptr = 0 /\ NewBlock.prev = NoPrev
  BY DEF NewBlock, Block
<1>3. PICK B : B = blocks'
  OBVIOUS
<1>4. /\ B \in Seq(Block) /\ Len(B) \in 0 .. 1
      /\ \A k \in 1 .. Len(B) : B[k] = NewBlock
  <2>1. CASE B = <<>>
    BY <2>1
  <2>2. CASE B = <<NewBlock>>
    <3>1. B \in Seq(Block) /\ Len(B) = 1 /\ B[1] = NewBlock
      BY <1>2, <2>2
    <3> QED  BY <3>1
  <2> QED  BY <1>3, <2>1, <2>2
<1>5. ArenaTypes'
  BY <1>1, <1>3, <1>4 DEF ArenaInv, ArenaTypes
<1>6. BlockInv(NewBlock)
  BY <1>2, Sizes, BlockHasRoom DEF BlockInv
<1>7. BlocksInv'
  BY <1>3, <1>4, <1>6 DEF BlocksInv
<1>8. LiveInv' /\ Upwards'
  BY <1>1 DEF LiveInv, Upwards
<1>9. \A k \in 1 .. Len(B) : IsEnd(live', k, 0, B[k].ptr)
  BY <1>2, <1>4 DEF IsEnd
<1>10. NoGaps'
  BY <1>1, <1>3, <1>9 DEF NoGaps
<1>11. Undo'
  <2>1. Len(B) > 0 => Len(B) \in 1 .. Len(B)
    BY <1>4
  <2> QED  BY <1>2, <1>3, <1>4, <2>1 DEF Undo
<1> QED  BY <1>5, <1>7, <1>8, <1>10, <1>11 DEF ArenaInv

LEMMA NextArenaInv == ArenaInv /\ [ArenaNext]_arenaVars => ArenaInv'
<1> SUFFICES ASSUME ArenaInv, [ArenaNext]_arenaVars PROVE ArenaInv'
  OBVIOUS
<1>1. ASSUME NEW want \in Requests, mem_arena_alloc(want) PROVE ArenaInv'
  BY <1>1, AllocArenaInv
<1>2. CASE mem_arena_rollback
  BY <1>2, RollbackArenaInv
<1>3. CASE mem_arena_reset
  BY <1>3, EmptyArenaInv DEF mem_arena_reset
<1>4. CASE mem_arena_cleanup
  BY <1>4, EmptyArenaInv DEF mem_arena_cleanup
<1>5. CASE UNCHANGED arenaVars
  BY <1>5 DEF arenaVars, ArenaInv, ArenaTypes, BlocksInv, LiveInv, Upwards,
              NoGaps, Undo
<1> QED  BY <1>1, <1>2, <1>3, <1>4, <1>5 DEF ArenaNext

LEMMA ArenaInvariant == ArenaSpec => []ArenaInv
  BY InitArenaInv, NextArenaInv, PTL DEF ArenaSpec

-----------------------------------------------------------------------------
LEMMA InvAllocationsSound ==
    ASSUME ArenaInv PROVE AllocationsSound
<1>1. live \in Seq(Allocation) /\ blocks \in Seq(Block) /\ aborted = FALSE
  BY DEF ArenaInv, ArenaTypes
<1>2. ASSUME NEW i \in 1 .. Len(live)
      PROVE  /\ live[i].blk \in 1 .. Len(blocks)
             /\ live[i].at % PtrSize = 0
             /\ live[i].at + live[i].room < MemEnd
             /\ live[i].want <= live[i].room \/ live[i].want > SizeMod - PtrSize
  <2>1. /\ AllocInv(live[i]) /\ live[i].blk \in 1 .. Len(blocks)
        /\ live[i].at + live[i].room <= blocks[live[i].blk].ptr
        /\ blocks[live[i].blk].ptr < MemEnd
    BY DEF ArenaInv, LiveInv, BlocksInv, BlockInv
  <2>2. live[i].at \in Nat /\ live[i].room \in Nat
    <3>1. live[i] \in Allocation
      BY <1>1
    <3> QED  BY <3>1 DEF Allocation
  <2>3. blocks[live[i].blk].ptr \in Nat
    <3>1. blocks[live[i].blk] \in Block
      BY <1>1, <2>1
    <3> QED  BY <3>1 DEF Block
  <2>4. live[i].at + live[i].room < MemEnd
    BY <2>1, <2>2, <2>3, BlockHasRoom
  <2> QED  BY <2>1, <2>4 DEF AllocInv
<1>3. ASSUME NEW i \in 1 .. Len(live), NEW j \in 1 .. i - 1
      PROVE  ~Overlap(live[j], live[i])
  <2> SUFFICES ASSUME Overlap(live[j], live[i]) PROVE FALSE
    OBVIOUS
  <2>1. /\ live[j].blk = live[i].blk /\ live[i].at < live[j].at + live[j].room
    BY DEF Overlap
  <2>2. live[j].at + live[j].room <= live[i].at
    BY <2>1 DEF ArenaInv, Upwards
  <2>3. j \in 1 .. Len(live)
    BY <1>1
  <2>4. live[i].at \in Nat /\ live[j].at \in Nat /\ live[j].room \in Nat
    <3>1. live[i] \in Allocation /\ live[j] \in Allocation
      BY <1>1, <2>3
    <3> QED  BY <3>1 DEF Allocation
  <2> QED  BY <2>1, <2>2, <2>4
<1> QED  BY <1>1, <1>2, <1>3 DEF AllocationsSound

LEMMA InvSpaceExact ==
    ASSUME ArenaInv PROVE SpaceExact
<1>1. /\ live \in Seq(Allocation) /\ blocks \in Seq(Block)
      /\ undoable \in BOOLEAN /\ Len(live) \in Nat
  BY DEF ArenaInv, ArenaTypes
<1>2. ASSUME NEW i \in 1 .. Len(live)
      PROVE  live[i].at = EndOf(live[i].blk, i - 1)
  <2>1. IsEnd(live, live[i].blk, i - 1, live[i].at) /\ i - 1 \in Nat
    BY <1>1 DEF ArenaInv, NoGaps
  <2> QED  BY <2>1, EndIs
<1>3. ASSUME NEW k \in 1 .. Len(blocks)
      PROVE  blocks[k].ptr = EndOf(k, Len(live))
  <2>1. IsEnd(live, k, Len(live), blocks[k].ptr)
    BY DEF ArenaInv, NoGaps
  <2> QED  BY <1>1, <2>1, EndIs
<1>4. ASSUME NEW k \in 1 .. Len(blocks), k = Len(blocks)
      PROVE  blocks[k].prev # NoPrev <=> undoable
  <2>1. CASE undoable
    <3>1. Len(live) \in 1 .. Len(live) /\ blocks[k].prev = live[Len(live)].at
      BY <1>1, <1>4, <2>1 DEF ArenaInv, Undo
    <3>2. live[Len(live)].at \in Nat
      <4>1. live[Len(live)] \in Allocation
        BY <1>1, <3>1
      <4> QED  BY <4>1 DEF Allocation
    <3> QED  BY <2>1, <3>1, <3>2, Sizes
  <2>2. CASE ~undoable
    BY <1>1, <1>4, <2>2 DEF ArenaInv, Undo
  <2> QED  BY <2>1, <2>2
<1> QED  BY <1>2, <1>3, <1>4 DEF SpaceExact

\* Through any sequence of calls, with any sizes, what mem_arena_alloc has
\* returned stays usable: aligned, in a block that exists, large enough unless
\* the size wraps, apart from every other allocation; and a new block always has
\* room, so the assertion never fails.
THEOREM ArenaSound == ArenaSpec => []AllocationsSound
<1>1. ArenaInv => AllocationsSound
  BY InvAllocationsSound
<1> QED  BY <1>1, ArenaInvariant, PTL

\* Undoing neither loses memory nor hands it out twice: the allocations of a
\* block lie one after the other, end at mem_ptr, and mem_prev is set exactly
\* when the last one has not been undone.
THEOREM ArenaExact == ArenaSpec => []SpaceExact
<1>1. ArenaInv => SpaceExact
  BY InvSpaceExact
<1> QED  BY <1>1, ArenaInvariant, PTL

-----------------------------------------------------------------------------
(***************************************************************************)
(* Base64.                                                                 *)
(***************************************************************************)

\* The value of a character is that of its place in the alphabet; the
\* terminator has none.
LEMMA Base64Table ==
    /\ \A v \in 0 .. 63 : base64(v) \in 46 .. 122 /\ decode64(base64(v)) = v
    /\ decode64(0) = 255
<1>1. ASSUME NEW v \in 0 .. 63, NEW r \in Rows, v \in r[3] .. r[3] + r[2] - r[1],
             NEW q \in Rows, v \in q[3] .. q[3] + q[2] - q[1]
      PROVE  q = r
  BY <1>1 DEF Rows
<1>2. ASSUME NEW v \in 0 .. 63
      PROVE  \E r \in Rows : v \in r[3] .. r[3] + r[2] - r[1]
  <2>1. <<46, 47, 0>> \in Rows /\ <<65, 90, 2>> \in Rows
        /\ <<97, 122, 28>> \in Rows /\ <<48, 57, 54>> \in Rows
    BY DEF Rows
  <2> QED  BY <2>1
<1>3. ASSUME NEW c \in 46 .. 122, NEW r \in Rows, c \in r[1] .. r[2]
      PROVE  decode64(c) = r[3] + c - r[1]
  <2>1. {q \in Rows : c \in q[1] .. q[2]} = {r}
    BY <1>3 DEF Rows
  <2>2. (CHOOSE q \in {r} : TRUE) = r
    OBVIOUS
  <2> QED  BY <2>1, <2>2 DEF decode64
<1>4. ASSUME NEW v \in 0 .. 63
      PROVE  base64(v) \in 46 .. 122 /\ decode64(base64(v)) = v
  <2>1. PICK r \in Rows : v \in r[3] .. r[3] + r[2] - r[1]
    BY <1>2
  <2>2. r = CHOOSE q \in Rows : v \in q[3] .. q[3] + q[2] - q[1]
    BY <1>1, <2>1
  <2>3. base64(v) = r[1] + v - r[3]
    BY <2>2 DEF base64
  <2>4. r[1] + v - r[3] \in 46 .. 122 /\ r[1] + v - r[3] \in r[1] .. r[2]
        /\ r[1] \in Int /\ r[3] \in Int
    BY <2>1 DEF Rows
  <2>5. decode64(base64(v)) = r[3] + (r[1] + v - r[3]) - r[1]
    BY <1>3, <2>3, <2>4
  <2> QED  BY <2>3, <2>4, <2>5
<1>5. decode64(0) = 255
  <2>1. {r \in Rows : 0 \in r[1] .. r[2]} = {}
    BY DEF Rows
  <2> QED  BY <2>1 DEF decode64
<1> QED  BY <1>4, <1>5

\* How many characters a text takes, and where its bytes lie among them.
LEMMA CharsFacts ==
    ASSUME NEW len \in Nat
    PROVE  /\ Chars(len) \in Nat
           /\ \A i \in 1 .. len : 4 * ((i - 1) \div 3) + 1 + (IF i % 3 = 0 THEN 3 ELSE i % 3) <= Chars(len)
           /\ \A more \in 1 .. 4 : Chars(len + more) > Chars(len)
           /\ 3 * (Chars(len) \div 4) = len - (len % 3)
<1>1. PICK q \in Nat, r \in 0 .. 2 : len = 3 * q + r /\ len \div 3 = q /\ len % 3 = r
  OBVIOUS
<1>2. Chars(len) = 4 * q + (IF r = 0 THEN 0 ELSE 1 + r)
  BY <1>1 DEF Chars
<1>3. ASSUME NEW i \in 1 .. len
      PROVE 4 * ((i - 1) \div 3) + 1 + (IF i % 3 = 0 THEN 3 ELSE i % 3) <= Chars(len)
  BY <1>1, <1>2
<1>4. ASSUME NEW more \in 1 .. 4 PROVE Chars(len + more) > Chars(len)
  BY <1>1, <1>2 DEF Chars
<1>5. 3 * (Chars(len) \div 4) = len - (len % 3)
  BY <1>1, <1>2
<1> QED  BY <1>1, <1>2, <1>3, <1>4, <1>5

\* The k-th byte of a text, zero behind it.
TextByte(t, k) == IF k <= Len(t) THEN t[k] ELSE 0

LEMMA SeqElement ==
    ASSUME NEW S, NEW t \in Seq(S), NEW i \in 1 .. Len(t)
    PROVE  t[i] \in S
OBVIOUS

LEMMA TextByteType ==
    ASSUME NEW t \in Seq(0 .. 255), NEW k \in Nat \ {0}
    PROVE  TextByte(t, k) \in 0 .. 255
<1>1. Len(t) \in Nat
  OBVIOUS
<1>2. CASE k <= Len(t)
  <2>1. k \in 1 .. Len(t)
    BY <1>1, <1>2
  <2>2. t[k] \in 0 .. 255
    BY <2>1, SeqElement
  <2> QED  BY <1>2, <2>2 DEF TextByte
<1>3. CASE ~(k <= Len(t))
  BY <1>3 DEF TextByte
<1> QED  BY <1>2, <1>3

\* The four values of a group, from the three bytes.
LEMMA SextetIs ==
    ASSUME NEW t \in Seq(0 .. 255), NEW a \in Nat
    PROVE  /\ Sextet(t, 4 * a + 1) = TextByte(t, 3 * a + 1) \div 4
           /\ Sextet(t, 4 * a + 2) = (TextByte(t, 3 * a + 1) % 4) * 16
                                     + (TextByte(t, 3 * a + 2) \div 16)
           /\ Sextet(t, 4 * a + 3) = (TextByte(t, 3 * a + 2) % 16) * 4
                                     + (TextByte(t, 3 * a + 3) \div 64)
           /\ Sextet(t, 4 * a + 4) = TextByte(t, 3 * a + 3) % 64
<1>1. Sextet(t, 4 * a + 1) = TextByte(t, 3 * a + 1) \div 4
  <2>1. PICK i \in Nat : i = 4 * a + 1
    OBVIOUS
  <2>2. i % 4 = 1 /\ 3 * ((i - 1) \div 4) = 3 * a
    BY <2>1
  <2>3. PICK at \in Nat : at = 3 * a
    OBVIOUS
  <2>4. Sextet(t, i) = TextByte(t, at + 1) \div 4
    BY <2>2, <2>3, SMTT(40) DEF Sextet, TextByte
  <2> QED  BY <2>1, <2>3, <2>4
<1>2. Sextet(t, 4 * a + 2) = (TextByte(t, 3 * a + 1) % 4) * 16
                              + (TextByte(t, 3 * a + 2) \div 16)
  <2>1. PICK i \in Nat : i = 4 * a + 2
    OBVIOUS
  <2>2. i % 4 = 2 /\ 3 * ((i - 1) \div 4) = 3 * a
    BY <2>1
  <2>3. PICK at \in Nat : at = 3 * a
    OBVIOUS
  <2>4. Sextet(t, i) = (TextByte(t, at + 1) % 4) * 16
                              + (TextByte(t, at + 2) \div 16)
    BY <2>2, <2>3, SMTT(40) DEF Sextet, TextByte
  <2> QED  BY <2>1, <2>3, <2>4
<1>3. Sextet(t, 4 * a + 3) = (TextByte(t, 3 * a + 2) % 16) * 4
                              + (TextByte(t, 3 * a + 3) \div 64)
  <2>1. PICK i \in Nat : i = 4 * a + 3
    OBVIOUS
  <2>2. i % 4 = 3 /\ 3 * ((i - 1) \div 4) = 3 * a
    BY <2>1
  <2>3. PICK at \in Nat : at = 3 * a
    OBVIOUS
  <2>4. Sextet(t, i) = (TextByte(t, at + 2) % 16) * 4
                              + (TextByte(t, at + 3) \div 64)
    BY <2>2, <2>3, SMTT(40) DEF Sextet, TextByte
  <2> QED  BY <2>1, <2>3, <2>4
<1>4. Sextet(t, 4 * a + 4) = TextByte(t, 3 * a + 3) % 64
  <2>1. PICK i \in Nat : i = 4 * a + 4
    OBVIOUS
  <2>2. i % 4 = 0 /\ 3 * ((i - 1) \div 4) = 3 * a
    BY <2>1
  <2>3. PICK at \in Nat : at = 3 * a
    OBVIOUS
  <2>4. Sextet(t, i) = TextByte(t, at + 3) % 64
    BY <2>2, <2>3, SMTT(40) DEF Sextet, TextByte
  <2> QED  BY <2>1, <2>3, <2>4
<1> QED  BY <1>1, <1>2, <1>3, <1>4

\* Three bytes in four values of six bits, and back.
Split(x, y, z, a, b, c, d) ==
    /\ a = x \div 4
    /\ b = (x % 4) * 16 + (y \div 16)
    /\ c = (y % 16) * 4 + (z \div 64)
    /\ d = z % 64

Joins(x, y, z, a, b, c, d) ==
    /\ a \in 0 .. 63 /\ b \in 0 .. 63 /\ c \in 0 .. 63 /\ d \in 0 .. 63
    /\ (a * 4 + ((b \div 16) % 4)) % 256 = x
    /\ (b % 16) * 16 + ((c \div 4) % 16) = y
    /\ (c % 4) * 64 + d = z

LEMMA SixBits ==
    ASSUME NEW x \in 0 .. 255, NEW y \in 0 .. 255, NEW z \in 0 .. 255,
           NEW a, NEW b, NEW c, NEW d, Split(x, y, z, a, b, c, d)
    PROVE  Joins(x, y, z, a, b, c, d)
<1> USE DEF Split
<1>1. a \in 0 .. 63 /\ d \in 0 .. 63
  OBVIOUS
<1>2. b \in 0 .. 63 /\ b \div 16 = x % 4 /\ b % 16 = y \div 16
  OBVIOUS
<1>3. c \in 0 .. 63 /\ c \div 4 = y % 16 /\ c % 4 = z \div 64
  OBVIOUS
<1>4. (a * 4 + ((b \div 16) % 4)) % 256 = x
  BY <1>2
<1>5. (b % 16) * 16 + ((c \div 4) % 16) = y
  BY <1>2, <1>3
<1>6. (c % 4) * 64 + d = z
  BY <1>3
<1> QED  BY <1>1, <1>2, <1>3, <1>4, <1>5, <1>6 DEF Joins

LEMMA SextetType ==
    ASSUME NEW t \in Seq(0 .. 255), NEW i \in Nat \ {0}
    PROVE  Sextet(t, i) \in 0 .. 63
<1>1. PICK a \in Nat, k \in 1 .. 4 : i = 4 * a + k
  <2>1. (i - 1) \div 4 \in Nat /\ i = 4 * ((i - 1) \div 4) + (1 + ((i - 1) % 4))
        /\ 1 + ((i - 1) % 4) \in 1 .. 4
    OBVIOUS
  <2> QED  BY <2>1
<1>2. PICK x \in 0 .. 255, y \in 0 .. 255, z \in 0 .. 255 :
        x = TextByte(t, 3 * a + 1) /\ y = TextByte(t, 3 * a + 2) /\ z = TextByte(t, 3 * a + 3)
  <2>1. 3 * a + 1 \in Nat \ {0} /\ 3 * a + 2 \in Nat \ {0} /\ 3 * a + 3 \in Nat \ {0}
    OBVIOUS
  <2> QED  BY <2>1, TextByteType
<1>3. Split(x, y, z, Sextet(t, 4 * a + 1), Sextet(t, 4 * a + 2),
            Sextet(t, 4 * a + 3), Sextet(t, 4 * a + 4))
  BY <1>2, SextetIs DEF Split
<1>4. Joins(x, y, z, Sextet(t, 4 * a + 1), Sextet(t, 4 * a + 2),
            Sextet(t, 4 * a + 3), Sextet(t, 4 * a + 4))
  BY <1>3, SixBits
<1>5. k = 1 \/ k = 2 \/ k = 3 \/ k = 4
  OBVIOUS
<1> QED  BY <1>1, <1>4, <1>5 DEF Joins

\* The three bytes of a group, from the four values that they gave.
LEMMA OctetIs ==
    ASSUME NEW t \in Seq(0 .. 255), NEW c, NEW i \in 1 .. Len(t),
           \A k \in 1 .. Chars(Len(t)) : c[k] = Sextet(t, k)
    PROVE  Octet(c, i) = t[i]
<1>0. Len(t) \in Nat
  OBVIOUS
<1>1. PICK a \in Nat, k \in 1 .. 3 : i = 3 * a + k
  <2>1. PICK j \in Nat : j = i - 1
    BY <1>0
  <2>2. j \div 3 \in Nat /\ j = 3 * (j \div 3) + (j % 3) /\ 1 + (j % 3) \in 1 .. 3
    OBVIOUS
  <2>3. i = 3 * (j \div 3) + (1 + (j % 3))
    BY <1>0, <2>1, <2>2
  <2> QED  BY <2>2, <2>3
<1>2. (i - 1) \div 3 = a /\ i % 3 = k % 3
  BY <1>1
<1>3. PICK x \in 0 .. 255, y \in 0 .. 255, z \in 0 .. 255 :
        x = TextByte(t, 3 * a + 1) /\ y = TextByte(t, 3 * a + 2) /\ z = TextByte(t, 3 * a + 3)
  <2>1. 3 * a + 1 \in Nat \ {0} /\ 3 * a + 2 \in Nat \ {0} /\ 3 * a + 3 \in Nat \ {0}
    OBVIOUS
  <2> QED  BY <2>1, TextByteType
<1>4. PICK c1, c2, c3, c4 :
        /\ c1 = Sextet(t, 4 * a + 1) /\ c2 = Sextet(t, 4 * a + 2)
        /\ c3 = Sextet(t, 4 * a + 3) /\ c4 = Sextet(t, 4 * a + 4)
  BY Zenon
<1>5. Split(x, y, z, c1, c2, c3, c4)
  BY <1>3, <1>4, SextetIs DEF Split
<1>6. Joins(x, y, z, c1, c2, c3, c4)
  BY <1>5, SixBits
<1>7. Chars(Len(t)) \in Nat /\ 4 * a + 1 + k <= Chars(Len(t))
  <2>2. 4 * ((i - 1) \div 3) + 1 + (IF i % 3 = 0 THEN 3 ELSE i % 3) <= Chars(Len(t))
    BY <1>0, CharsFacts
  <2>3. (IF i % 3 = 0 THEN 3 ELSE i % 3) = k
    BY <1>2, SMTT(40)
  <2> QED  BY <1>0, <1>2, <2>2, <2>3, CharsFacts
<1>8. TextByte(t, i) = t[i]
  BY <1>0 DEF TextByte
<1>9. 4 * ((i - 1) \div 3) = 4 * a
  BY <1>2
<1>10. CASE k = 1
  <2>1. c[4 * a + 1] = c1 /\ c[4 * a + 2] = c2
    BY <1>4, <1>7, <1>10
  <2>2. i % 3 = 1
    BY <1>2, <1>10
  <2>3. Octet(c, i) = (c[4 * a + 1] * 4 + ((c[4 * a + 2] \div 16) % 4)) % 256
    BY <1>9, <2>2, SMTT(40) DEF Octet
  <2>4. Octet(c, i) = x
    BY <1>6, <2>1, <2>3, Zenon DEF Joins
  <2> QED  BY <1>1, <1>3, <1>8, <1>10, <2>4
<1>11. CASE k = 2
  <2>1. c[4 * a + 2] = c2 /\ c[4 * a + 3] = c3
    BY <1>4, <1>7, <1>11
  <2>2. i % 3 = 2
    BY <1>2, <1>11
  <2>3. Octet(c, i) = (c[4 * a + 2] % 16) * 16 + ((c[4 * a + 3] \div 4) % 16)
    BY <1>9, <2>2, SMTT(40) DEF Octet
  <2>4. Octet(c, i) = y
    BY <1>6, <2>1, <2>3, Zenon DEF Joins
  <2> QED  BY <1>1, <1>3, <1>8, <1>11, <2>4
<1>12. CASE k = 3
  <2>1. c[4 * a + 3] = c3 /\ c[4 * a + 4] = c4
    BY <1>4, <1>7, <1>12
  <2>2. i % 3 = 0
    BY <1>2, <1>12
  <2>3. Octet(c, i) = (c[4 * a + 3] % 4) * 64 + c[4 * a + 4]
    BY <1>9, <2>2, SMTT(40) DEF Octet
  <2>4. Octet(c, i) = z
    BY <1>6, <2>1, <2>3, Zenon DEF Joins
  <2> QED  BY <1>1, <1>3, <1>8, <1>12, <2>4
<1> QED  BY <1>10, <1>11, <1>12

\* What the decoder reads, and what it makes of it.
ValuesRead(len, str) ==
    [i \in 1 .. Chars(len) |-> IF i > Len(str) THEN 0 ELSE decode64(str[i])]
Decoded(ok, done, c) == [ret |-> ok, out |-> [i \in 1 .. done |-> Octet(c, i)]]

Outcome(len, c, bad) ==
    LET first == CHOOSE i \in bad : \A j \in bad : i <= j
    IN  Decoded(bad = {}, IF bad = {} THEN len ELSE 3 * ((first - 1) \div 4), c)

BadAt(c) == {i \in DOMAIN c : c[i] = 255}

LEMMA DecodeIs ==
    ASSUME NEW len, NEW str
    PROVE  base64_decode(len, str) =
             Outcome(len, ValuesRead(len, str), BadAt(ValuesRead(len, str)))
BY DEF base64_decode, ValuesRead, Decoded, Outcome, BadAt

LEMMA DecodeGood ==
    ASSUME NEW len, NEW str, NEW c, c = ValuesRead(len, str),
           BadAt(c) = {}
    PROVE  base64_decode(len, str) = Decoded(TRUE, len, c)
<1>1. base64_decode(len, str) = Outcome(len, c, {})
  BY DecodeIs, Zenon
<1> QED  BY <1>1 DEF Outcome, Decoded

LEMMA DecodeBad ==
    ASSUME NEW len, NEW str, NEW c, c = ValuesRead(len, str), NEW first \in Int,
           BadAt(c) = {first}
    PROVE  base64_decode(len, str) = Decoded(FALSE, 3 * ((first - 1) \div 4), c)
<1>1. (CHOOSE i \in {first} : \A j \in {first} : i <= j) = first
  OBVIOUS
<1>2. ~({first} = {})
  OBVIOUS
<1>3. base64_decode(len, str) = Outcome(len, c, {first})
  BY DecodeIs, Zenon
<1> QED  BY <1>1, <1>2, <1>3 DEF Outcome, Decoded

LEMMA EncodeFacts ==
    ASSUME NEW t \in Seq(0 .. 255), NEW str, str = base64_encode(t)
    PROVE  /\ str \in Seq(0 .. 122)
           /\ Len(str) = Chars(Len(t)) + 1
           /\ \A k \in 1 .. Chars(Len(t)) : decode64(str[k]) = Sextet(t, k)
           /\ decode64(str[Chars(Len(t)) + 1]) = 255
<1>1. PICK n \in Nat : n = Chars(Len(t))
  <2>1. Len(t) \in Nat
    OBVIOUS
  <2> QED  BY <2>1, CharsFacts
<1>2. PICK s : s = [i \in 1 .. n |-> base64(Sextet(t, i))]
  BY Zenon
<1>3. ASSUME NEW i \in 1 .. n
      PROVE  base64(Sextet(t, i)) \in 0 .. 122 /\ decode64(base64(Sextet(t, i))) = Sextet(t, i)
  <2>1. i \in Nat \ {0}
    OBVIOUS
  <2>2. PICK v \in 0 .. 63 : v = Sextet(t, i)
    BY <2>1, SextetType
  <2>3. base64(v) \in 46 .. 122 /\ decode64(base64(v)) = v
    BY Base64Table
  <2> QED  BY <2>2, <2>3
<1>4. s \in [1 .. n -> 0 .. 122]
  BY <1>2, <1>3, Zenon
<1>5. s \in Seq(0 .. 122) /\ Len(s) = n
  BY <1>4
<1>6. str = Append(s, 0)
  BY <1>1, <1>2, Zenon DEF base64_encode
<1>7. str \in Seq(0 .. 122) /\ Len(str) = n + 1 /\ str[n + 1] = 0
      /\ \A k \in 1 .. n : str[k] = s[k]
  BY <1>5, <1>6
<1>8. \A k \in 1 .. n : s[k] = base64(Sextet(t, k))
  BY <1>2, Zenon
<1>9. ASSUME NEW k \in 1 .. n PROVE decode64(str[k]) = Sextet(t, k)
  BY <1>3, <1>7, <1>8, Zenon
<1>10. decode64(str[n + 1]) = 255
  BY <1>7, Base64Table, Zenon
<1> QED  BY <1>1, <1>7, <1>9, <1>10

\* What is encoded is decoded again.
LEMMA DecodeEncoded ==
    ASSUME NEW t \in Seq(0 .. 255)
    PROVE  base64_decode(Len(t), base64_encode(t)) = [ret |-> TRUE, out |-> t]
<1>1. PICK str : str = base64_encode(t)
  BY Zenon
<1>2. PICK n \in Nat : n = Chars(Len(t))
  <2>1. Len(t) \in Nat
    OBVIOUS
  <2> QED  BY <2>1, CharsFacts
<1>3. Len(str) = n + 1 /\ \A k \in 1 .. n : decode64(str[k]) = Sextet(t, k)
  BY <1>1, <1>2, EncodeFacts
<1>4. PICK c : c = ValuesRead(Len(t), str)
  BY Zenon
<1>5. DOMAIN c = 1 .. n /\ \A k \in 1 .. n : c[k] = Sextet(t, k)
  BY <1>2, <1>3, <1>4 DEF ValuesRead
<1>6. BadAt(c) = {}
  <2>1. ASSUME NEW i \in 1 .. n PROVE Sextet(t, i) # 255
    <3>1. i \in Nat \ {0}
      OBVIOUS
    <3>2. PICK v \in 0 .. 63 : v = Sextet(t, i)
      BY <3>1, SextetType
    <3>3. v # 255
      OBVIOUS
    <3> QED  BY <3>2, <3>3, Zenon
  <2> QED  BY <1>5, <2>1 DEF BadAt
<1>7. base64_decode(Len(t), str) = Decoded(TRUE, Len(t), c)
  BY <1>4, <1>6, DecodeGood
<1>8. \A i \in 1 .. Len(t) : Octet(c, i) = t[i]
  BY <1>2, <1>5, OctetIs
<1>9. [i \in 1 .. Len(t) |-> Octet(c, i)] = t
  BY <1>8
<1> QED  BY <1>1, <1>7, <1>9 DEF Decoded

\* A string that is too short is refused at its terminator.
LEMMA DecodeShort ==
    ASSUME NEW t \in Seq(0 .. 255), NEW more \in 1 .. 4
    PROVE  base64_decode(Len(t) + more, base64_encode(t)) =
             [ret |-> FALSE, out |-> SubSeq(t, 1, Len(t) - (Len(t) % 3))]
<1>1. PICK str : str = base64_encode(t)
  BY Zenon
<1>2. PICK len \in Nat : len = Len(t)
  OBVIOUS
<1>3. PICK n \in Nat : n = Chars(Len(t))
  BY <1>2, CharsFacts
<1>4. PICK m \in Nat : m = Chars(len + more)
  <2>1. len + more \in Nat
    OBVIOUS
  <2> QED  BY <2>1, CharsFacts
<1>5. m > n /\ 3 * (n \div 4) = len - (len % 3)
  BY <1>2, <1>3, <1>4, CharsFacts
<1>6. /\ Len(str) = n + 1 /\ decode64(str[n + 1]) = 255
      /\ \A k \in 1 .. n : decode64(str[k]) = Sextet(t, k)
  BY <1>1, <1>3, EncodeFacts
<1>7. PICK c : c = ValuesRead(len + more, str)
  BY Zenon
<1>8. /\ DOMAIN c = 1 .. m
      /\ \A k \in 1 .. m : c[k] = IF k > n + 1 THEN 0 ELSE decode64(str[k])
  BY <1>4, <1>6, <1>7 DEF ValuesRead
<1>9. \A k \in 1 .. n : c[k] = Sextet(t, k)
  BY <1>5, <1>6, <1>8
<1>10. BadAt(c) = {n + 1}
  <2>1. ASSUME NEW i \in 1 .. n PROVE Sextet(t, i) # 255
    <3>1. i \in Nat \ {0}
      OBVIOUS
    <3>2. PICK v \in 0 .. 63 : v = Sextet(t, i)
      BY <3>1, SextetType
    <3>3. v # 255
      OBVIOUS
    <3> QED  BY <3>2, <3>3, Zenon
  <2>2. c[n + 1] = 255 /\ n + 1 \in 1 .. m
    BY <1>5, <1>6, <1>8
  <2>3. ASSUME NEW i \in 1 .. m, c[i] = 255 PROVE i = n + 1
    <3>1. ~(i > n + 1)
      BY <1>8, <2>3
    <3>2. ~(i \in 1 .. n)
      BY <1>9, <2>1, <2>3
    <3> QED  BY <3>1, <3>2
  <2> QED  BY <1>8, <2>2, <2>3 DEF BadAt
<1>11. base64_decode(len + more, str) = Decoded(FALSE, 3 * (((n + 1) - 1) \div 4), c)
  <2>1. PICK f \in Int : f = n + 1
    OBVIOUS
  <2>2. base64_decode(len + more, str) = Decoded(FALSE, 3 * ((f - 1) \div 4), c)
    BY <1>7, <1>10, <2>1, DecodeBad, Zenon
  <2> QED  BY <2>1, <2>2
<1>12. PICK d \in Nat : d = len - (len % 3) /\ d <= len
  OBVIOUS
<1>13. 3 * (((n + 1) - 1) \div 4) = d
  BY <1>5, <1>12
<1>14. \A i \in 1 .. d : Octet(c, i) = t[i]
  <2>1. \A i \in 1 .. Len(t) : Octet(c, i) = t[i]
    BY <1>3, <1>9, OctetIs
  <2> QED  BY <1>2, <1>12, <2>1
<1>15. [i \in 1 .. d |-> Octet(c, i)] = SubSeq(t, 1, d)
  BY <1>2, <1>12, <1>14
<1> QED  BY <1>1, <1>2, <1>11, <1>12, <1>13, <1>15 DEF Decoded

\* Every text comes back from its encoding (crypto/base64.c), and no string
\* is read beyond its end: the round trip holds for texts of every length
\* and every byte, not only for those that fit the model's bounds.
THEOREM Base64Exact == TextInit /\ [][TextNext]_text => []Base64RoundTrip
<1> DEFINE Typed == text \in Seq(0 .. 255)
<1>1. TextInit => Typed
  BY DEF TextInit
<1>2. Typed /\ [TextNext]_text => Typed'
  <2>1. ASSUME Typed, TextNext PROVE Typed'
    <3>1. PICK b \in Sample : text' = Append(text, b)
      BY <2>1 DEF TextNext
    <3>2. b \in 0 .. 255
      BY <3>1, Base64Assumption
    <3> QED  BY <2>1, <3>1, <3>2
  <2> QED  BY <2>1
<1>3. Typed => Base64RoundTrip
  BY DecodeEncoded, DecodeShort, Zenon DEF Base64RoundTrip
<1> QED  BY <1>1, <1>2, <1>3, PTL

-----------------------------------------------------------------------------
(***************************************************************************)
(* Password hashes.                                                        *)
(***************************************************************************)

\* w is made of the key of the password p: of p itself, and of a zero where p
\* ends before the key does.
WordsOf(p, w) ==
    /\ w = [i \in 1 .. KeyBytes |-> w[i]]
    /\ \A i \in 1 .. KeyBytes : i <= Len(p) => w[i] = p[i]
    /\ Len(p) < KeyBytes => w[Len(p) + 1] = 0

LEMMA KeyWordsOf ==
    ASSUME NEW p \in Seq(1 .. 255)
    PROVE  WordsOf(p, KeyWords(KeyOf(p, "b")))
<1>1. KeyBytes \in Nat /\ KeyBytes > 0
  BY BcryptAssumption
<1>2. PICK n \in Nat : n = Len(p)
  OBVIOUS
<1>3. PICK app : app = Append(p, 0)
  BY Zenon
<1>4. app \in Seq(0 .. 255) /\ Len(app) = n + 1 /\ app[n + 1] = 0
      /\ \A i \in 1 .. n : app[i] = p[i]
  BY <1>2, <1>3
<1>5. PICK key : key = KeyOf(p, "b")
  BY Zenon
<1>6. key = IF n + 1 > KeyBytes THEN SubSeq(app, 1, KeyBytes) ELSE app
  BY <1>3, <1>4, <1>5 DEF KeyOf
<1>7. PICK k \in 1 .. KeyBytes :
        /\ k = Len(key) /\ k = IF n + 1 > KeyBytes THEN KeyBytes ELSE n + 1
        /\ \A i \in 1 .. k : key[i] = app[i]
  <2>1. CASE n + 1 > KeyBytes
    BY <1>1, <1>4, <1>6, <2>1
  <2>2. CASE ~(n + 1 > KeyBytes)
    BY <1>1, <1>4, <1>6, <2>2
  <2> QED  BY <2>1, <2>2
<1>8. PICK w : w = KeyWords(key)
  BY Zenon
<1>9. w = [i \in 1 .. KeyBytes |-> key[1 + ((i - 1) % k)]]
  BY <1>7, <1>8, Zenon DEF KeyWords
<1>10. ASSUME NEW i \in 1 .. k PROVE w[i] = app[i]
  <2>1. PICK j \in Nat : j = i - 1 /\ j < k
    BY <1>1
  <2>2. j % k = j
    BY <1>1, <2>1
  <2>3. 1 + ((i - 1) % k) = i
    BY <2>1, <2>2
  <2>4. w[i] = key[1 + ((i - 1) % k)]
    BY <1>9, <1>1
  <2> QED  BY <1>7, <2>3, <2>4
<1>11. w = [i \in 1 .. KeyBytes |-> w[i]]
  BY <1>9
<1>12. ASSUME NEW i \in 1 .. KeyBytes, i <= n PROVE w[i] = p[i]
  BY <1>1, <1>4, <1>7, <1>10, <1>12
<1>13. n < KeyBytes => w[n + 1] = 0
  BY <1>1, <1>4, <1>7, <1>10
<1> QED  BY <1>2, <1>5, <1>8, <1>11, <1>12, <1>13 DEF WordsOf

\* The passwords that bcrypt cannot tell apart.
SamePassword(p, q) ==
    IF Len(p) < KeyBytes \/ Len(q) < KeyBytes THEN p = q
    ELSE SubSeq(p, 1, KeyBytes) = SubSeq(q, 1, KeyBytes)

LEMMA PasswordByte ==
    ASSUME NEW p \in Seq(1 .. 255), NEW i \in 1 .. Len(p)
    PROVE  p[i] # 0
<1>1. PICK b \in 1 .. 255 : b = p[i]
  BY SeqElement
<1>2. b # 0
  OBVIOUS
<1> QED  BY <1>1, <1>2, Zenon

LEMMA SameSeq ==
    ASSUME NEW S, NEW p \in Seq(S), NEW q \in Seq(S), Len(p) = Len(q),
           \A i \in 1 .. Len(p) : p[i] = q[i]
    PROVE  p = q
OBVIOUS

\* The words of two passwords agree for those only.
LEMMA WordsTell ==
    ASSUME NEW p \in Seq(1 .. 255), NEW q \in Seq(1 .. 255),
           NEW v, v = KeyWords(KeyOf(p, "b")), NEW w, w = KeyWords(KeyOf(q, "b"))
    PROVE  v = w <=> SamePassword(p, q)
<1>0. WordsOf(p, v) /\ WordsOf(q, w)
  BY KeyWordsOf
<1>1. KeyBytes \in Nat /\ KeyBytes > 0
  BY BcryptAssumption
<1>2. PICK m \in Nat, n \in Nat : m = Len(p) /\ n = Len(q)
  OBVIOUS
<1>3. /\ v = [i \in 1 .. KeyBytes |-> v[i]]
      /\ \A i \in 1 .. KeyBytes : i <= m => v[i] = p[i]
      /\ m < KeyBytes => v[m + 1] = 0
  BY <1>0, <1>2 DEF WordsOf
<1>4. /\ w = [i \in 1 .. KeyBytes |-> w[i]]
      /\ \A i \in 1 .. KeyBytes : i <= n => w[i] = q[i]
      /\ n < KeyBytes => w[n + 1] = 0
  BY <1>0, <1>2 DEF WordsOf
<1>5. /\ \A i \in 1 .. m : p[i] # 0
      /\ \A i \in 1 .. n : q[i] # 0
  BY <1>2, PasswordByte
<1>6. CASE m < KeyBytes \/ n < KeyBytes
  <2>1. ASSUME v = w PROVE m = n
    <3>1. ~(m < n)
      <4>1. ASSUME m < n PROVE FALSE
        <5>1. CASE m < KeyBytes
          <6>1. m + 1 \in 1 .. KeyBytes /\ m + 1 \in 1 .. n
            BY <1>1, <4>1, <5>1
          <6>2. w[m + 1] = q[m + 1] /\ v[m + 1] = 0
            BY <1>3, <1>4, <5>1, <6>1
          <6> QED  BY <1>5, <2>1, <6>1, <6>2
        <5>2. CASE ~(m < KeyBytes)
          BY <1>1, <1>6, <4>1, <5>2
        <5> QED  BY <5>1, <5>2
      <4> QED  BY <4>1
    <3>2. ~(n < m)
      <4>1. ASSUME n < m PROVE FALSE
        <5>1. CASE n < KeyBytes
          <6>1. n + 1 \in 1 .. KeyBytes /\ n + 1 \in 1 .. m
            BY <1>1, <4>1, <5>1
          <6>2. v[n + 1] = p[n + 1] /\ w[n + 1] = 0
            BY <1>3, <1>4, <5>1, <6>1
          <6> QED  BY <1>5, <2>1, <6>1, <6>2
        <5>2. CASE ~(n < KeyBytes)
          BY <1>1, <1>6, <4>1, <5>2
        <5> QED  BY <5>1, <5>2
      <4> QED  BY <4>1
    <3> QED  BY <3>1, <3>2
  <2>2. ASSUME v = w PROVE p = q
    <3>1. m = n /\ m < KeyBytes
      BY <1>6, <2>1, <2>2
    <3>2. ASSUME NEW i \in 1 .. m PROVE p[i] = q[i]
      <4>1. i \in 1 .. KeyBytes /\ i <= m /\ i <= n
        BY <1>1, <3>1
      <4>2. v[i] = p[i] /\ w[i] = q[i]
        BY <1>3, <1>4, <4>1
      <4> QED  BY <2>2, <4>2
    <3> QED  BY <1>2, <3>1, <3>2, SameSeq
  <2>3. ASSUME p = q PROVE v = w
    BY <2>3
  <2> QED  BY <1>2, <1>6, <2>2, <2>3 DEF SamePassword
<1>7. CASE ~(m < KeyBytes \/ n < KeyBytes)
  <2>1. \A i \in 1 .. KeyBytes : v[i] = p[i] /\ w[i] = q[i]
    BY <1>1, <1>3, <1>4, <1>7
  <2>2. v = SubSeq(p, 1, KeyBytes)
    BY <1>1, <1>2, <1>3, <1>7, <2>1
  <2>3. w = SubSeq(q, 1, KeyBytes)
    BY <1>1, <1>2, <1>4, <1>7, <2>1
  <2> QED  BY <1>2, <1>7, <2>2, <2>3 DEF SamePassword
<1> QED  BY <1>6, <1>7

\* The hash of a password, for a cost and a salt.
HashOf(pass, logr, csalt) ==
    [minor |-> "b", logr |-> logr, salt |-> base64_encode(csalt),
     hash |-> Blowfish(KeyWords(KeyOf(pass, "b")), csalt, logr)]

\* A hash, like a salt, gives back the salt and the cost to hash with.
LEMMA HashIs ==
    ASSUME NEW pass, NEW csalt \in Salts, NEW logr \in 4 .. 31,
           NEW s, s.minor = "b", s.logr = logr, s.salt = base64_encode(csalt)
    PROVE  generate_hash(pass, s) = [ret |-> TRUE, str |-> HashOf(pass, logr, csalt)]
<1>1. csalt \in Seq(0 .. 255) /\ Len(csalt) = SaltLen
  <2>1. SaltLen \in Nat /\ csalt \in [1 .. SaltLen -> 0 .. 255]
    BY BcryptAssumption
  <2> QED  BY <2>1
<1>2. PICK salt : salt = base64_decode(SaltLen, s.salt)
  BY Zenon
<1>3. salt = [ret |-> TRUE, out |-> csalt]
  BY <1>1, <1>2, DecodeEncoded
<1>4. salt.ret = TRUE /\ salt.out = csalt
  BY <1>3
<1>5. s.minor \in {"a", "b"} /\ s.logr \in 4 .. 31 /\ salt.ret
  BY <1>4
<1>6. generate_hash(pass, s) =
        [ret |-> TRUE,
         str |-> [minor |-> s.minor, logr |-> s.logr,
                  salt |-> base64_encode(salt.out),
                  hash |-> Blowfish(KeyWords(KeyOf(pass, s.minor)),
                                    salt.out, s.logr)]]
  BY <1>2, <1>5, Zenon DEF generate_hash
<1> QED  BY <1>4, <1>6 DEF HashOf

LEMMA SaltIs ==
    ASSUME NEW logr \in Int, NEW csalt
    PROVE  \E lg \in 4 .. 31 :
             generate_salt(logr, csalt) =
               [minor |-> "b", salt |-> base64_encode(csalt), hash |-> <<>>, logr |-> lg]
<1>1. PICK lg \in 4 .. 31 : lg = IF logr < 4 THEN 4 ELSE IF logr > 31 THEN 31 ELSE logr
  OBVIOUS
<1> QED  BY <1>1 DEF generate_salt

\* What is stored is the hash of a password.
HashStored ==
    \/ stored = NoHash
    \/ \E pass \in Passwords, lg \in 4 .. 31, csalt \in Salts :
          stored = [pass |-> pass, ok |-> TRUE, str |-> HashOf(pass, lg, csalt)]

LEMMA NewHash ==
    ASSUME HashNext PROVE HashStored'
<1>1. PICK pass \in Passwords, logr \in Costs, csalt \in Salts :
        bcrypt_newhash(pass, logr, csalt)
  BY DEF HashNext
<1>2. logr \in Int
  BY BcryptAssumption
<1>3. PICK lg \in 4 .. 31 :
        generate_salt(logr, csalt) =
          [minor |-> "b", salt |-> base64_encode(csalt), hash |-> <<>>, logr |-> lg]
  BY <1>2, SaltIs
<1>4. PICK s : s = generate_salt(logr, csalt)
  BY Zenon
<1>5. s.minor = "b" /\ s.logr = lg /\ s.salt = base64_encode(csalt)
  BY <1>3, <1>4
<1>6. generate_hash(pass, s) = [ret |-> TRUE, str |-> HashOf(pass, lg, csalt)]
  BY <1>5, HashIs
<1>7. PICK made : made = generate_hash(pass, s)
  BY Zenon
<1>8. made.ret = TRUE /\ made.str = HashOf(pass, lg, csalt)
  BY <1>6, <1>7
<1>9. stored' = [pass |-> pass, ok |-> made.ret,
                 str |-> IF made.ret THEN made.str ELSE <<>>]
  BY <1>1, <1>4, <1>7, Zenon DEF bcrypt_newhash
<1>10. stored' = [pass |-> pass, ok |-> TRUE, str |-> HashOf(pass, lg, csalt)]
  BY <1>8, <1>9
<1> QED  BY <1>10 DEF HashStored

\* A hash accepts the passwords whose key words are those it was made from.
LEMMA HashAccepts ==
    ASSUME NEW p \in Passwords, NEW q \in Passwords, NEW csalt \in Salts,
           NEW lg \in 4 .. 31
    PROVE  bcrypt_checkpass(p, HashOf(q, lg, csalt)) <=> SamePassword(p, q)
<1>1. PICK s : s = HashOf(q, lg, csalt)
  BY Zenon
<1>2. s.minor = "b" /\ s.logr = lg /\ s.salt = base64_encode(csalt)
  BY <1>1 DEF HashOf
<1>3. PICK test : test = generate_hash(p, s)
  BY Zenon
<1>4. test = [ret |-> TRUE, str |-> HashOf(p, lg, csalt)]
  BY <1>2, <1>3, HashIs
<1>5. test.ret = TRUE /\ test.str = HashOf(p, lg, csalt)
  BY <1>4
<1>6. bcrypt_checkpass(p, s) <=> s = test.str
  BY <1>3, <1>5, Zenon DEF bcrypt_checkpass, hash_cmp
<1>7. PICK v, w : v = KeyWords(KeyOf(p, "b")) /\ w = KeyWords(KeyOf(q, "b"))
  BY Zenon
<1>8. HashOf(q, lg, csalt) = HashOf(p, lg, csalt) <=> v = w
  <2>1. HashOf(q, lg, csalt).hash = <<w, csalt, lg>> /\ HashOf(p, lg, csalt).hash = <<v, csalt, lg>>
    BY <1>7 DEF HashOf, Blowfish
  <2>2. ASSUME HashOf(q, lg, csalt) = HashOf(p, lg, csalt) PROVE v = w
    BY <2>1, <2>2
  <2>3. ASSUME v = w PROVE HashOf(q, lg, csalt) = HashOf(p, lg, csalt)
    BY <1>7, <2>3, Zenon DEF HashOf
  <2> QED  BY <2>2, <2>3
<1>9. p \in Seq(1 .. 255) /\ q \in Seq(1 .. 255)
  BY BcryptAssumption
<1>10. v = w <=> SamePassword(p, q)
  BY <1>7, <1>9, WordsTell
<1> QED  BY <1>1, <1>5, <1>6, <1>8, <1>10, Zenon

\* A hash is made whatever the cost asked for (crypto/bcrypt.c clamps it),
\* and tells the passwords apart up to their first 72 bytes, whatever the
\* passwords, the salts and the length of the key: generate_hash reads from
\* the stored hash the salt and the cost that it was made with, and the
\* terminator in the key keeps a password from standing for a repetition of
\* itself.
THEOREM HashesTell == HashInit /\ [][HashNext]_stored => []HashTellsPasswords
<1>1. HashInit => HashStored
  BY DEF HashInit, HashStored
<1>2. HashStored /\ [HashNext]_stored => HashStored'
  <2>1. ASSUME HashStored, UNCHANGED stored PROVE HashStored'
    BY <2>1 DEF HashStored
  <2> QED  BY <2>1, NewHash
<1>3. HashStored => HashTellsPasswords
  <2>1. SUFFICES ASSUME HashStored, stored # NoHash
                 PROVE  /\ stored.ok
                        /\ \A pass \in Passwords :
                             bcrypt_checkpass(pass, stored.str) <=> SamePassword(pass, stored.pass)
    BY Zenon DEF HashTellsPasswords, SamePassword
  <2>2. PICK pass \in Passwords, lg \in 4 .. 31, csalt \in Salts :
          stored = [pass |-> pass, ok |-> TRUE, str |-> HashOf(pass, lg, csalt)]
    BY <2>1 DEF HashStored
  <2>3. stored.ok = TRUE /\ stored.pass = pass /\ stored.str = HashOf(pass, lg, csalt)
    BY <2>2
  <2>4. ASSUME NEW p \in Passwords
        PROVE  bcrypt_checkpass(p, stored.str) <=> SamePassword(p, stored.pass)
    BY <2>3, HashAccepts, Zenon
  <2> QED  BY <2>3, <2>4, Zenon
<1> QED  BY <1>1, <1>2, <1>3, PTL

-----------------------------------------------------------------------------
(***************************************************************************)
(* RSA: iterated steps.                                                    *)
(***************************************************************************)

\* The value that n steps of G lead to from c.
Iterate(V, c, G, n) == (CHOOSE f : Recursion(f, n, V, c, G))[n]

\* Two recursions with the same start and steps agree.
LEMMA RecursionUnique ==
    ASSUME NEW V, NEW c, NEW G, NEW n \in Nat, NEW m \in Nat, NEW f, NEW g, m <= n,
           Recursion(f, n, V, c, G), Recursion(g, m, V, c, G)
    PROVE  f[m] = g[m]
<1> DEFINE S == {i \in 0 .. m : f[i] = g[i]}
<1>1. 0 \in S
  BY DEF Recursion
<1>2. ASSUME NEW i \in 1 .. m, i - 1 \in S PROVE i \in S
  <2>1. i \in 1 .. n
    OBVIOUS
  <2>2. f[i] = G[i][f[i - 1]] /\ g[i] = G[i][g[i - 1]] /\ f[i - 1] = g[i - 1]
    BY <1>2, <2>1 DEF Recursion
  <2> QED  BY <2>2
<1>3. m \in S
  <2> HIDE DEF S
  <2>1. \A i \in 0 .. m : i \in S
    BY <1>1, <1>2, InductionTo
  <2> QED  BY <2>1
<1> QED  BY <1>3

\* Iterate starts at c and takes one step of G at a time.
LEMMA IterateFacts ==
    ASSUME NEW V, NEW c \in V, NEW G \in [Nat -> [V -> V]], NEW n \in Nat
    PROVE  /\ Iterate(V, c, G, 0) = c
           /\ Iterate(V, c, G, n) \in V
           /\ Iterate(V, c, G, n + 1) = G[n + 1][Iterate(V, c, G, n)]
<1>1. ASSUME NEW k \in Nat PROVE \E f : Recursion(f, k, V, c, G)
  <2>1. PICK H : H = [i \in 1 .. k |-> G[i]]
    BY Zenon
  <2>2. H \in [1 .. k -> [V -> V]]
    BY <2>1
  <2>3. PICK f : Recursion(f, k, V, c, H)
    BY <2>2, RecursionTo
  <2>4. Recursion(f, k, V, c, G)
    BY <2>1, <2>3 DEF Recursion
  <2> QED  BY <2>4
<1>2. ASSUME NEW k \in Nat
      PROVE  \E f : Recursion(f, k, V, c, G) /\ Iterate(V, c, G, k) = f[k]
  <2>1. PICK f : f = CHOOSE h : Recursion(h, k, V, c, G)
    BY Zenon
  <2>2. Recursion(f, k, V, c, G)
    BY <1>1, <2>1, Zenon
  <2> QED  BY <2>1, <2>2, Zenon DEF Iterate
<1>3. PICK f : Recursion(f, n, V, c, G) /\ Iterate(V, c, G, n) = f[n]
  BY <1>2
<1>4. PICK g : Recursion(g, n + 1, V, c, G) /\ Iterate(V, c, G, n + 1) = g[n + 1]
  <2>1. n + 1 \in Nat
    OBVIOUS
  <2> QED  BY <1>2, <2>1, Zenon
<1>5. PICK h : Recursion(h, 0, V, c, G) /\ Iterate(V, c, G, 0) = h[0]
  BY <1>2
<1>6. g[n] = f[n]
  <2>1. n + 1 \in Nat /\ n <= n + 1
    OBVIOUS
  <2> QED  BY <1>3, <1>4, <2>1, RecursionUnique
<1>7. h[0] = c
  BY <1>5 DEF Recursion
<1>8. f[n] \in V
  BY <1>3 DEF Recursion
<1>9. g[n + 1] = G[n + 1][g[n]]
  <2>1. n + 1 \in 1 .. n + 1 /\ (n + 1) - 1 = n
    OBVIOUS
  <2> QED  BY <1>4, <2>1 DEF Recursion
<1> QED  BY <1>3, <1>4, <1>5, <1>6, <1>7, <1>8, <1>9

-----------------------------------------------------------------------------
(***************************************************************************)
(* Numbers with the same remainder.                                        *)
(***************************************************************************)

\* a and b leave the same remainder after division by n.
Cong(n, a, b) == \E k \in Int : a = b + n * k

\* Equal numbers are congruent.
LEMMA CongEq ==
    ASSUME NEW n \in Nat, NEW a \in Int
    PROVE  Cong(n, a, a)
<1>1. a = a + n * 0
  OBVIOUS
<1> QED  BY <1>1 DEF Cong

\* Congruence is symmetric.
LEMMA CongSym ==
    ASSUME NEW n \in Nat, NEW a \in Int, NEW b \in Int, Cong(n, a, b)
    PROVE  Cong(n, b, a)
<1>1. PICK k \in Int : a = b + n * k
  BY DEF Cong
<1>2. n * (-k) = -(n * k) /\ n * k \in Int
  OBVIOUS
<1>3. b = a + n * (-k)
  BY <1>1, <1>2
<1>4. -k \in Int
  OBVIOUS
<1> QED  BY <1>3, <1>4 DEF Cong

\* Congruence is transitive.
LEMMA CongTrans ==
    ASSUME NEW n \in Nat, NEW a \in Int, NEW b \in Int, NEW c \in Int,
           Cong(n, a, b), Cong(n, b, c)
    PROVE  Cong(n, a, c)
<1>1. PICK k \in Int : a = b + n * k
  BY DEF Cong
<1>2. PICK j \in Int : b = c + n * j
  BY DEF Cong
<1>3. n * (k + j) = n * k + n * j /\ n * k \in Int /\ n * j \in Int
  OBVIOUS
<1>4. a = c + n * (k + j)
  BY <1>1, <1>2, <1>3
<1>5. k + j \in Int
  OBVIOUS
<1> QED  BY <1>4, <1>5 DEF Cong

\* Sums of congruent numbers are congruent.
LEMMA CongAdd ==
    ASSUME NEW n \in Nat, NEW a \in Int, NEW b \in Int, NEW c \in Int, NEW d \in Int,
           Cong(n, a, b), Cong(n, c, d)
    PROVE  Cong(n, a + c, b + d)
<1>1. PICK k \in Int : a = b + n * k
  BY DEF Cong
<1>2. PICK j \in Int : c = d + n * j
  BY DEF Cong
<1>3. n * (k + j) = n * k + n * j /\ n * k \in Int /\ n * j \in Int
  OBVIOUS
<1>4. a + c = (b + d) + n * (k + j)
  BY <1>1, <1>2, <1>3
<1>5. k + j \in Int
  OBVIOUS
<1> QED  BY <1>4, <1>5 DEF Cong

\* Multiples of congruent numbers are congruent.
LEMMA CongScale ==
    ASSUME NEW n \in Nat, NEW a \in Int, NEW b \in Int, NEW c \in Int, Cong(n, a, b)
    PROVE  Cong(n, a * c, b * c)
<1>1. PICK k \in Int : a = b + n * k
  BY DEF Cong
<1>2. a * c = b * c + n * (k * c)
  BY <1>1
<1>3. k * c \in Int
  OBVIOUS
<1> QED  BY <1>2, <1>3 DEF Cong

\* Products of congruent numbers are congruent.
LEMMA CongMul ==
    ASSUME NEW n \in Nat, NEW a \in Int, NEW b \in Int, NEW c \in Int, NEW d \in Int,
           Cong(n, a, b), Cong(n, c, d)
    PROVE  Cong(n, a * c, b * d)
<1>1. Cong(n, a * c, b * c)
  BY CongScale
<1>2. Cong(n, c * b, d * b)
  BY CongScale
<1>3. c * b = b * c /\ d * b = b * d /\ a * c \in Int /\ b * c \in Int /\ b * d \in Int
  OBVIOUS
<1>4. Cong(n, b * c, b * d)
  BY <1>2, <1>3, Zenon
<1> QED  BY <1>1, <1>3, <1>4, CongTrans, Zenon

\* A number is congruent to its remainder.
LEMMA CongRest ==
    ASSUME NEW n \in Nat, n > 0, NEW a \in Int
    PROVE  a % n \in 0 .. n - 1 /\ Cong(n, a % n, a) /\ Cong(n, a, a % n)
<1>1. PICK q, r : q = a \div n /\ r = a % n
  BY Zenon
<1>2. q \in Int /\ r \in 0 .. n - 1 /\ a = n * q + r
  BY <1>1, DivMod
<1>3. a = r + n * q
  BY <1>2
<1>4. Cong(n, a, r)
  BY <1>2, <1>3 DEF Cong
<1>5. r \in Int
  BY <1>2
<1>6. Cong(n, r, a)
  BY <1>4, <1>5, CongSym
<1> QED  BY <1>1, <1>2, <1>4, <1>6

\* What is congruent and smaller than n is the remainder.
LEMMA CongIs ==
    ASSUME NEW n \in Nat, n > 0, NEW a \in Int, NEW r \in 0 .. n - 1, Cong(n, a, r)
    PROVE  a % n = r
<1>1. PICK k \in Int : a = r + n * k
  BY DEF Cong
<1>2. a = n * k + r
  BY <1>1
<1> QED  BY <1>2, DivModUnique

\* Congruent numbers have the same remainder.
LEMMA CongSame ==
    ASSUME NEW n \in Nat, n > 0, NEW a \in Int, NEW b \in Int, Cong(n, a, b)
    PROVE  a % n = b % n
<1>1. PICK r \in 0 .. n - 1 : r = b % n /\ Cong(n, b, r)
  BY CongRest
<1>2. r \in Int
  OBVIOUS
<1>3. Cong(n, a, r)
  BY <1>1, <1>2, CongTrans
<1> QED  BY <1>1, <1>3, CongIs

\* A divisor of the modulus will do.
LEMMA CongDivisor ==
    ASSUME NEW n \in Nat, NEW p \in Nat, NEW q \in Nat, n = p * q,
           NEW a \in Int, NEW b \in Int, Cong(n, a, b)
    PROVE  Cong(p, a, b)
<1>1. PICK k \in Int : a = b + n * k
  BY DEF Cong
<1>2. n * k = p * (q * k) /\ q * k \in Int
  OBVIOUS
<1> QED  BY <1>1, <1>2 DEF Cong

-----------------------------------------------------------------------------
(***************************************************************************)
(* Inverses modulo a number (mpz_invert).                                  *)
(***************************************************************************)

\* s is a multiple of e, up to multiples of m.
Combination(m, e, s) == \E y \in Nat, z \in Nat : e * y = s + m * z

\* The remainder of one combination after division by another is a third.
LEMMA CombinationRest ==
    ASSUME NEW m \in Nat, m > 0, NEW e \in Nat, NEW s \in Nat, NEW g \in Nat,
           NEW k \in Nat, NEW r \in Nat, s = g * k + r,
           Combination(m, e, s), Combination(m, e, g)
    PROVE  Combination(m, e, r)
<1>1. PICK y \in Nat, z \in Nat : e * y = s + m * z
  BY DEF Combination
<1>2. PICK u \in Nat, v \in Nat : e * u = g + m * v
  BY DEF Combination
<1>3. PICK j \in Nat : j = k * (m - 1)
  <2>1. m - 1 \in Nat
    OBVIOUS
  <2> QED  BY <2>1
<1>4. e * (y + j * u) = e * y + j * (e * u)
  OBVIOUS
<1>5. j * (e * u) = j * g + j * (m * v)
  BY <1>2
<1>6. j * g = m * (k * g) - g * k
  BY <1>3
<1>7. j * (m * v) = m * (j * v)
  OBVIOUS
<1>8. e * (y + j * u) = (s + m * z) + (m * (k * g) - g * k) + m * (j * v)
  <2>1. j * (e * u) = (m * (k * g) - g * k) + m * (j * v)
    BY <1>5, <1>6, <1>7, Zenon
  <2>2. e * (y + j * u) = (s + m * z) + ((m * (k * g) - g * k) + m * (j * v))
    BY <1>1, <1>4, <2>1, Zenon
  <2>3. PICK a \in Int, b \in Int, c \in Int : a = s + m * z /\ b = m * (k * g) - g * k /\ c = m * (j * v)
    OBVIOUS
  <2>4. a + (b + c) = a + b + c
    OBVIOUS
  <2> QED  BY <2>2, <2>3, <2>4
<1>9. m * (z + k * g + j * v) = m * z + m * (k * g) + m * (j * v)
  OBVIOUS
<1>10. e * (y + j * u) = r + m * (z + k * g + j * v)
  <2>1. PICK a \in Int, b \in Int, c \in Int, d \in Int :
          a = m * z /\ b = m * (k * g) /\ c = m * (j * v) /\ d = g * k
    OBVIOUS
  <2>2. e * (y + j * u) = (s + a) + (b - d) + c
    BY <1>8, <2>1, Zenon
  <2>3. s = d + r
    BY <2>1
  <2>4. (s + a) + (b - d) + c = r + (a + b + c)
    BY <2>3
  <2>5. m * (z + k * g + j * v) = a + b + c
    BY <1>9, <2>1, Zenon
  <2> QED  BY <2>2, <2>4, <2>5, Zenon
<1>11. y + j * u \in Nat /\ z + k * g + j * v \in Nat
  OBVIOUS
<1> QED  BY <1>10, <1>11 DEF Combination

\* Numbers without a common factor have inverses modulo each other.
LEMMA InverseExists ==
    ASSUME NEW m \in Nat, m > 1, NEW e \in Nat, Coprime(m, e)
    PROVE  \E y \in 0 .. m - 1 : Cong(m, e * y, 1)
<1>1. e > 0
  <2>1. ASSUME e = 0 PROVE FALSE
    <3>1. m \in 2 .. m /\ m % m = 0 /\ 0 % m = 0
      <4>1. m * 1 + 0 = m /\ m * 0 + 0 = 0 /\ 0 \in 0 .. m - 1 /\ 1 \in Int /\ 0 \in Int /\ m > 0
        OBVIOUS
      <4>2. (m * 1 + 0) % m = 0 /\ (m * 0 + 0) % m = 0
        BY <4>1, DivModUnique
      <4> QED  BY <4>1, <4>2
    <3> QED  BY <2>1, <3>1 DEF Coprime, Divides
  <2> QED  BY <2>1
<1> DEFINE S == {s \in Nat : s > 0 /\ Combination(m, e, s)}
<1>2. e \in S
  <2>1. e * 1 = e + m * 0 /\ 1 \in Nat /\ 0 \in Nat
    OBVIOUS
  <2> QED  BY <1>1, <2>1 DEF Combination
<1>3. m \in S
  <2>1. e * m = m + m * (e - 1) /\ e - 1 \in Nat
    BY <1>1
  <2> QED  BY <2>1 DEF Combination
<1>4. PICK g \in S : \A o \in S : g <= o
  <2>1. S \in SUBSET Nat /\ S # {}
    BY <1>2
  <2> HIDE DEF S
  <2> QED  BY <2>1, LeastElement
<1>5. ASSUME NEW s \in S PROVE s % g = 0
  <2>1. g \in Nat /\ g > 0 /\ s \in Nat /\ Combination(m, e, g) /\ Combination(m, e, s)
    OBVIOUS
  <2>2. PICK k, r : k = s \div g /\ r = s % g
    BY Zenon
  <2>3. k \in Int /\ r \in 0 .. g - 1 /\ s = g * k + r
    BY <2>1, <2>2, DivMod
  <2>4. k \in Nat
    <3>1. CASE k < 0
      <4>1. g * k <= g * (-1)
        BY <2>1, <2>3, <3>1
      <4>2. g * k \in Int /\ g * (-1) = -g
        BY <2>1, <2>3
      <4> QED  BY <2>1, <2>3, <4>1, <4>2
    <3> QED  BY <2>3, <3>1
  <2>5. r \in Nat
    BY <2>3
  <2>6. Combination(m, e, r)
    BY <2>1, <2>3, <2>4, <2>5, CombinationRest
  <2>7. r = 0
    <3>1. ASSUME r > 0 PROVE FALSE
      <4>1. r \in S
        BY <2>5, <2>6, <3>1
      <4> QED  BY <1>4, <2>1, <2>3, <4>1
    <3> QED  BY <2>5, <3>1
  <2> QED  BY <2>2, <2>7
<1>6. g = 1
  <2>1. m % g = 0 /\ e % g = 0 /\ g <= m /\ g \in Nat /\ g > 0
    BY <1>2, <1>3, <1>4, <1>5
  <2>2. ~(g \in 2 .. m)
    BY <2>1 DEF Coprime, Divides
  <2> QED  BY <2>1, <2>2
<1>7. PICK y \in Nat, z \in Nat : e * y = 1 + m * z
  BY <1>4, <1>6 DEF Combination
<1>8. Cong(m, e * y, 1)
  BY <1>7 DEF Cong
<1>9. PICK r \in 0 .. m - 1 : r = y % m /\ Cong(m, r, y)
  BY CongRest
<1>10. r \in Int /\ e \in Int /\ y \in Int /\ 1 \in Int /\ e * y \in Int /\ e * r \in Int
  OBVIOUS
<1>11. Cong(m, r * e, y * e)
  BY <1>9, <1>10, CongScale
<1>12. r * e = e * r /\ y * e = e * y
  OBVIOUS
<1>13. Cong(m, e * r, e * y)
  BY <1>11, <1>12, Zenon
<1>14. Cong(m, e * r, 1)
  BY <1>8, <1>10, <1>13, CongTrans, Zenon
<1> QED  BY <1>14

-----------------------------------------------------------------------------
(***************************************************************************)
(* Powers, and mpz_powm.                                                   *)
(***************************************************************************)

\* The e-th power of x.
Power(x, e) == Iterate(Nat, 1, [i \in Nat |-> [v \in Nat |-> v * x]], e)

\* Power is a natural number, and follows the usual recursion.
LEMMA PowerFacts ==
    ASSUME NEW x \in Nat, NEW e \in Nat
    PROVE  /\ Power(x, 0) = 1
           /\ Power(x, e) \in Nat
           /\ Power(x, e + 1) = Power(x, e) * x
<1>1. PICK G : G = [i \in Nat |-> [v \in Nat |-> v * x]]
  BY Zenon
<1>2. \A v \in Nat : v * x \in Nat
  OBVIOUS
<1>3. G \in [Nat -> [Nat -> Nat]]
  BY <1>1, <1>2
<1>4. 1 \in Nat
  OBVIOUS
<1>5. /\ Iterate(Nat, 1, G, 0) = 1
      /\ Iterate(Nat, 1, G, e) \in Nat
      /\ Iterate(Nat, 1, G, e + 1) = G[e + 1][Iterate(Nat, 1, G, e)]
  <2>1. PICK V, c : V = Nat /\ c = 1
    BY Zenon
  <2>2. c \in V /\ G \in [Nat -> [V -> V]]
    BY <1>3, <2>1
  <2>3. /\ Iterate(V, c, G, 0) = c
        /\ Iterate(V, c, G, e) \in V
        /\ Iterate(V, c, G, e + 1) = G[e + 1][Iterate(V, c, G, e)]
    BY <2>2, IterateFacts, Zenon
  <2> QED  BY <2>1, <2>3, Zenon
<1>6. e + 1 \in Nat
  OBVIOUS
<1>7. G[e + 1][Iterate(Nat, 1, G, e)] = Iterate(Nat, 1, G, e) * x
  BY <1>1, <1>5, <1>6
<1> QED  BY <1>1, <1>5, <1>7, Zenon DEF Power

\* One more factor.
LEMMA PowerStep ==
    ASSUME NEW x \in Nat, NEW i \in Nat, i > 0
    PROVE  i - 1 \in Nat /\ Power(x, i - 1) \in Nat /\ Power(x, i) = Power(x, i - 1) * x
<1>1. PICK j \in Nat : j = i - 1
  OBVIOUS
<1>2. Power(x, j) \in Nat /\ Power(x, j + 1) = Power(x, j) * x
  BY PowerFacts
<1>3. j + 1 = i
  BY <1>1
<1> QED  BY <1>1, <1>2, <1>3, Zenon

\* The first power.
LEMMA PowerOne ==
    ASSUME NEW x \in Nat
    PROVE  Power(x, 1) = x
<1>1. Power(x, 0) = 1 /\ Power(x, 1) = Power(x, 0) * x
  <2>1. 0 \in Nat /\ 0 + 1 = 1
    OBVIOUS
  <2> QED  BY <2>1, PowerFacts
<1> QED  BY <1>1

\* Exponents add up.
LEMMA PowerAdd ==
    ASSUME NEW x \in Nat, NEW a \in Nat, NEW b \in Nat
    PROVE  Power(x, a + b) = Power(x, a) * Power(x, b)
<1> DEFINE S == {i \in 0 .. b : Power(x, a + i) = Power(x, a) * Power(x, i)}
<1>1. 0 \in S
  <2>1. Power(x, 0) = 1 /\ Power(x, a) \in Nat
    BY PowerFacts
  <2>2. a + 0 = a /\ Power(x, a) * 1 = Power(x, a)
    BY <2>1
  <2> QED  BY <2>1, <2>2
<1>2. ASSUME NEW i \in 1 .. b, i - 1 \in S PROVE i \in S
  <2>1. PICK p, q, r : p = Power(x, a + (i - 1)) /\ q = Power(x, a) /\ r = Power(x, i - 1)
    BY Zenon
  <2>2. Power(x, i) = r * x /\ r \in Nat
    <3>1. i \in Nat /\ i > 0
      OBVIOUS
    <3> QED  BY <2>1, <3>1, PowerStep, Zenon
  <2>3. q \in Nat /\ p \in Nat
    <3>1. a + (i - 1) \in Nat
      OBVIOUS
    <3> QED  BY <2>1, <3>1, PowerFacts
  <2>4. Power(x, a + i) = p * x
    <3>1. PICK j \in Nat : j = a + i /\ j > 0
      OBVIOUS
    <3>2. Power(x, j) = Power(x, j - 1) * x
      BY <3>1, PowerStep
    <3>3. j - 1 = a + (i - 1)
      BY <3>1
    <3> QED  BY <2>1, <3>1, <3>2, <3>3, Zenon
  <2>5. p = q * r
    BY <1>2, <2>1
  <2>6. (q * r) * x = q * (r * x)
    BY <2>2, <2>3
  <2>7. Power(x, a + i) = Power(x, a) * Power(x, i)
    BY <2>1, <2>2, <2>4, <2>5, <2>6, Zenon
  <2> QED  BY <2>7
<1>3. b \in S
  <2> HIDE DEF S
  <2>1. \A i \in 0 .. b : i \in S
    BY <1>1, <1>2, InductionTo
  <2> QED  BY <2>1
<1> QED  BY <1>3

\* Exponents multiply.
LEMMA PowerPower ==
    ASSUME NEW x \in Nat, NEW a \in Nat, NEW b \in Nat
    PROVE  Power(Power(x, a), b) = Power(x, a * b)
<1>1. PICK p \in Nat : p = Power(x, a)
  BY PowerFacts
<1> DEFINE S == {i \in 0 .. b : Power(p, i) = Power(x, a * i)}
<1>2. 0 \in S
  <2>1. Power(p, 0) = 1 /\ Power(x, 0) = 1 /\ a * 0 = 0
    <3>1. 0 \in Nat
      OBVIOUS
    <3> QED  BY <3>1, PowerFacts
  <2> QED  BY <2>1
<1>3. ASSUME NEW i \in 1 .. b, i - 1 \in S PROVE i \in S
  <2>1. PICK j \in Nat : j = i - 1
    OBVIOUS
  <2>2. Power(p, i) = Power(p, j) * p
    BY <2>1, PowerStep
  <2>3. Power(p, j) = Power(x, a * j)
    BY <1>3, <2>1
  <2>4. a * j \in Nat /\ a * i = a * j + a
    BY <2>1
  <2>5. Power(x, a * j + a) = Power(x, a * j) * p
    BY <1>1, <2>4, PowerAdd
  <2>6. Power(p, i) = Power(x, a * i)
    BY <2>2, <2>3, <2>4, <2>5, Zenon
  <2> QED  BY <2>6
<1>4. b \in S
  <2> HIDE DEF S
  <2>1. \A i \in 0 .. b : i \in S
    BY <1>2, <1>3, InductionTo
  <2> QED  BY <2>1
<1> QED  BY <1>1, <1>4

\* Powers of congruent numbers are congruent.
LEMMA PowerCong ==
    ASSUME NEW n \in Nat, NEW x \in Nat, NEW y \in Nat, NEW e \in Nat, Cong(n, x, y)
    PROVE  Cong(n, Power(x, e), Power(y, e))
<1> DEFINE S == {i \in 0 .. e : Cong(n, Power(x, i), Power(y, i))}
<1>1. 0 \in S
  <2>1. Power(x, 0) = 1 /\ Power(y, 0) = 1 /\ 1 \in Int
    BY PowerFacts
  <2>2. Cong(n, Power(x, 0), Power(y, 0))
    BY <2>1, CongEq, Zenon
  <2> QED  BY <2>2
<1>2. ASSUME NEW i \in 1 .. e, i - 1 \in S PROVE i \in S
  <2>1. PICK p, q : p = Power(x, i - 1) /\ q = Power(y, i - 1)
    BY Zenon
  <2>2. p \in Nat /\ q \in Nat /\ Power(x, i) = p * x /\ Power(y, i) = q * y
    BY <2>1, PowerStep
  <2>3. Cong(n, p, q)
    BY <1>2, <2>1
  <2>4. p \in Int /\ q \in Int /\ x \in Int /\ y \in Int
    BY <2>2
  <2>5. Cong(n, p * x, q * y)
    BY <2>3, <2>4, CongMul
  <2>6. Cong(n, Power(x, i), Power(y, i))
    BY <2>2, <2>5, Zenon
  <2> QED  BY <2>6
<1>3. e \in S
  <2> HIDE DEF S
  <2>1. \A i \in 0 .. e : i \in S
    BY <1>1, <1>2, InductionTo
  <2> QED  BY <2>1
<1> QED  BY <1>3

\* mpz_powm computes the power modulo n.
IsPow(f, x, e, n) ==
    f = [i \in 0 .. e |-> IF i = 0 THEN 1 % n ELSE (f[i - 1] * x) % n]

\* The function that mpz_powm chooses.
LEMMA PowmIs ==
    ASSUME NEW x, NEW e, NEW n
    PROVE  mpz_powm(x, e, n) = (CHOOSE f : IsPow(f, x, e, n))[e]
BY DEF mpz_powm, IsPow

\* mpz_powm is the remainder of the power.
LEMMA PowmPower ==
    ASSUME NEW x \in Nat, NEW e \in Nat, NEW n \in Nat, n > 0
    PROVE  mpz_powm(x, e, n) = Power(x, e) % n
<1>1. PICK g : g = [i \in 0 .. e |-> Power(x, i) % n]
  BY Zenon
<1>2. ASSUME NEW i \in 1 .. e
      PROVE  Power(x, i) % n = ((Power(x, i - 1) % n) * x) % n
  <2>1. PICK p \in Nat : p = Power(x, i - 1) /\ Power(x, i) = p * x
    BY PowerStep
  <2>2. PICK r \in 0 .. n - 1 : r = p % n /\ Cong(n, p, r)
    BY CongRest
  <2>3. Cong(n, p * x, r * x)
    <3>1. p \in Int /\ r \in Int /\ x \in Int
      OBVIOUS
    <3> QED  BY <2>2, <3>1, CongScale, Zenon
  <2>4. p * x \in Int /\ r * x \in Int
    OBVIOUS
  <2>5. (p * x) % n = (r * x) % n
    BY <2>3, <2>4, CongSame
  <2> QED  BY <2>1, <2>2, <2>5, Zenon
<1>3. Power(x, 0) = 1
  BY PowerFacts
<1>4. IsPow(g, x, e, n)
  <2>1. ASSUME NEW i \in 0 .. e
        PROVE  g[i] = IF i = 0 THEN 1 % n ELSE (g[i - 1] * x) % n
    <3>1. CASE i = 0
      BY <1>1, <1>3, <3>1
    <3>2. CASE i # 0
      <4>1. i \in 1 .. e /\ i - 1 \in 0 .. e
        BY <3>2
      <4>2. g[i] = Power(x, i) % n /\ g[i - 1] = Power(x, i - 1) % n
        BY <1>1, <4>1
      <4> QED  BY <1>2, <3>2, <4>1, <4>2
    <3> QED  BY <3>1, <3>2
  <2> QED  BY <1>1, <2>1 DEF IsPow
<1>5. PICK f : f = CHOOSE h : IsPow(h, x, e, n)
  BY Zenon
<1>6. IsPow(f, x, e, n)
  BY <1>4, <1>5, Zenon
<1> DEFINE S == {i \in 0 .. e : f[i] = g[i]}
<1>7. 0 \in S
  <2>1. f[0] = 1 % n /\ g[0] = 1 % n
    BY <1>4, <1>6 DEF IsPow
  <2> QED  BY <2>1
<1>8. ASSUME NEW i \in 1 .. e, i - 1 \in S PROVE i \in S
  <2>1. i \in 0 .. e /\ i # 0
    OBVIOUS
  <2>2. f[i] = (f[i - 1] * x) % n
    BY <1>6, <2>1 DEF IsPow
  <2>3. g[i] = (g[i - 1] * x) % n
    BY <1>4, <2>1 DEF IsPow
  <2> QED  BY <1>8, <2>1, <2>2, <2>3
<1>9. e \in S
  <2> HIDE DEF S
  <2>1. \A i \in 0 .. e : i \in S
    BY <1>7, <1>8, InductionTo
  <2> QED  BY <2>1
<1>10. f[e] = Power(x, e) % n
  BY <1>1, <1>9
<1> QED  BY <1>5, <1>10, PowmIs

-----------------------------------------------------------------------------
(***************************************************************************)
(* Binomials.                                                              *)
(***************************************************************************)

\* a[0] + ... + a[n - 1]
SumTo(a, n) ==
    Iterate(Nat, 0, [i \in Nat |-> [v \in Nat |-> IF i = 0 THEN v ELSE v + a[i - 1]]], n)

\* Sums are natural numbers, taken one term at a time.
LEMMA SumFacts ==
    ASSUME NEW a \in [Nat -> Nat], NEW n \in Nat
    PROVE  /\ SumTo(a, 0) = 0
           /\ SumTo(a, n) \in Nat
           /\ SumTo(a, n + 1) = SumTo(a, n) + a[n]
<1>1. PICK G : G = [i \in Nat |-> [v \in Nat |-> IF i = 0 THEN v ELSE v + a[i - 1]]]
  BY Zenon
<1>2. ASSUME NEW i \in Nat, NEW v \in Nat
      PROVE  (IF i = 0 THEN v ELSE v + a[i - 1]) \in Nat
  <2>1. CASE i = 0
    BY <2>1
  <2>2. CASE i # 0
    <3>1. PICK j \in Nat : j = i - 1
      BY <2>2
    <3>2. a[j] \in Nat
      OBVIOUS
    <3> QED  BY <2>2, <3>1, <3>2
  <2> QED  BY <2>1, <2>2
<1>3. PICK V, c : V = Nat /\ c = 0
  BY Zenon
<1>4. c \in V /\ G \in [Nat -> [V -> V]]
  BY <1>1, <1>2, <1>3
<1>5. /\ Iterate(V, c, G, 0) = c
      /\ Iterate(V, c, G, n) \in V
      /\ Iterate(V, c, G, n + 1) = G[n + 1][Iterate(V, c, G, n)]
  BY <1>4, IterateFacts, Zenon
<1>6. PICK s \in Nat : s = Iterate(V, c, G, n)
  BY <1>3, <1>5
<1>7. n + 1 \in Nat /\ n + 1 # 0 /\ (n + 1) - 1 = n
  OBVIOUS
<1>8. G[n + 1][s] = s + a[n]
  BY <1>1, <1>7
<1> QED  BY <1>1, <1>3, <1>5, <1>6, <1>8, Zenon DEF SumTo

\* The rows of Pascal's triangle.
Row(n) ==
    Iterate([Nat -> Nat], [k \in Nat |-> IF k = 0 THEN 1 ELSE 0],
            [i \in Nat |-> [r \in [Nat -> Nat] |->
               [k \in Nat |-> IF k = 0 THEN 1 ELSE r[k] + r[k - 1]]]], n)

\* The first row, and how a row follows from the one above.
LEMMA RowFacts ==
    ASSUME NEW n \in Nat
    PROVE  /\ Row(0) = [k \in Nat |-> IF k = 0 THEN 1 ELSE 0]
           /\ Row(n) \in [Nat -> Nat]
           /\ Row(n + 1) = [k \in Nat |-> IF k = 0 THEN 1 ELSE Row(n)[k] + Row(n)[k - 1]]
<1>1. PICK G : G = [i \in Nat |-> [r \in [Nat -> Nat] |->
                      [k \in Nat |-> IF k = 0 THEN 1 ELSE r[k] + r[k - 1]]]]
  BY Zenon
<1>2. ASSUME NEW r \in [Nat -> Nat]
      PROVE  [k \in Nat |-> IF k = 0 THEN 1 ELSE r[k] + r[k - 1]] \in [Nat -> Nat]
  <2>1. ASSUME NEW k \in Nat PROVE (IF k = 0 THEN 1 ELSE r[k] + r[k - 1]) \in Nat
    <3>1. CASE k = 0
      BY <3>1
    <3>2. CASE k # 0
      <4>1. PICK j \in Nat : j = k - 1
        BY <3>2
      <4>2. r[j] \in Nat /\ r[k] \in Nat
        OBVIOUS
      <4> QED  BY <3>2, <4>1, <4>2
    <3> QED  BY <3>1, <3>2
  <2> QED  BY <2>1
<1>3. PICK V, c : V = [Nat -> Nat] /\ c = [k \in Nat |-> IF k = 0 THEN 1 ELSE 0]
  BY Zenon
<1>4. c \in V /\ G \in [Nat -> [V -> V]]
  <2>1. c \in V
    BY <1>3
  <2>2. G = [i \in Nat |-> [r \in V |->
               [k \in Nat |-> IF k = 0 THEN 1 ELSE r[k] + r[k - 1]]]]
    BY <1>1, <1>3, Zenon
  <2>3. \A r \in V : [k \in Nat |-> IF k = 0 THEN 1 ELSE r[k] + r[k - 1]] \in V
    BY <1>2, <1>3, Zenon
  <2>4. [r \in V |-> [k \in Nat |-> IF k = 0 THEN 1 ELSE r[k] + r[k - 1]]] \in [V -> V]
    BY <2>3, Zenon
  <2> QED  BY <2>1, <2>2, <2>4, Zenon
<1>5. /\ Iterate(V, c, G, 0) = c
      /\ Iterate(V, c, G, n) \in V
      /\ Iterate(V, c, G, n + 1) = G[n + 1][Iterate(V, c, G, n)]
  BY <1>4, IterateFacts, Zenon
<1>6. PICK s : s = Iterate(V, c, G, n)
  BY Zenon
<1>7. s \in [Nat -> Nat] /\ n + 1 \in Nat
  <2>1. n + 1 \in Nat
    OBVIOUS
  <2> QED  BY <1>3, <1>5, <1>6, <2>1, Zenon
<1>8. G[n + 1][s] = [k \in Nat |-> IF k = 0 THEN 1 ELSE s[k] + s[k - 1]]
  BY <1>1, <1>7, Zenon
<1>9. Row(n) = s /\ Row(0) = Iterate(V, c, G, 0) /\ Row(n + 1) = Iterate(V, c, G, n + 1)
  BY <1>1, <1>3, <1>6, Zenon DEF Row
<1> QED  BY <1>3, <1>5, <1>6, <1>7, <1>8, <1>9, Zenon

\* Pascal's rule, element by element.
LEMMA RowElements ==
    ASSUME NEW n \in Nat, NEW k \in Nat
    PROVE  /\ Row(n)[k] \in Nat
           /\ Row(0)[k] = IF k = 0 THEN 1 ELSE 0
           /\ Row(n)[0] = 1
           /\ Row(n + 1)[k + 1] = Row(n)[k + 1] + Row(n)[k]
<1>1. Row(n)[k] \in Nat
  BY RowFacts
<1>2. Row(0)[k] = IF k = 0 THEN 1 ELSE 0
  BY RowFacts
<1>3. Row(n)[0] = 1
  <2>1. CASE n = 0
    BY <2>1, RowFacts
  <2>2. CASE n # 0
    <3>1. PICK m \in Nat : n = m + 1
      <4>1. n - 1 \in Nat /\ n = (n - 1) + 1
        BY <2>2
      <4> QED  BY <4>1
    <3>2. Row(m + 1)[0] = 1
      BY RowFacts
    <3> QED  BY <3>1, <3>2
  <2> QED  BY <2>1, <2>2
<1>4. Row(n + 1)[k + 1] = Row(n)[k + 1] + Row(n)[k]
  <2>1. PICK r : r = Row(n)
    BY Zenon
  <2>2. Row(n + 1) = [j \in Nat |-> IF j = 0 THEN 1 ELSE r[j] + r[j - 1]]
    BY <2>1, RowFacts, Zenon
  <2>3. k + 1 \in Nat /\ k + 1 # 0 /\ (k + 1) - 1 = k
    OBVIOUS
  <2> QED  BY <2>1, <2>2, <2>3
<1> QED  BY <1>1, <1>2, <1>3, <1>4

\* Nothing lies to the right of the triangle, and its edge is 1.
LEMMA RowEdge ==
    ASSUME NEW n \in Nat
    PROVE  Row(n)[n] = 1 /\ \A k \in Nat : k > n => Row(n)[k] = 0
<1> DEFINE S == {i \in 0 .. n : Row(i)[i] = 1 /\ \A k \in Nat : k > i => Row(i)[k] = 0}
<1>1. 0 \in S
  BY RowElements
<1>2. ASSUME NEW i \in 1 .. n, i - 1 \in S PROVE i \in S
  <2>1. PICK j \in Nat : j = i - 1 /\ i = j + 1
    <3>1. i - 1 \in Nat /\ i = (i - 1) + 1
      OBVIOUS
    <3> QED  BY <3>1
  <2>2. Row(j)[j] = 1 /\ \A k \in Nat : k > j => Row(j)[k] = 0
    BY <1>2, <2>1
  <2>3. ASSUME NEW k \in Nat, k >= j
        PROVE  Row(i)[k + 1] = Row(j)[k]
    <3>1. k + 1 \in Nat /\ k + 1 > j
      BY <2>3
    <3>2. Row(j)[k + 1] = 0
      BY <2>2, <3>1
    <3>3. Row(i)[k + 1] = Row(j)[k + 1] + Row(j)[k] /\ Row(j)[k] \in Nat
      BY <2>1, RowElements
    <3> QED  BY <3>2, <3>3
  <2>4. Row(i)[i] = 1
    <3>1. j >= j
      OBVIOUS
    <3> QED  BY <2>1, <2>2, <2>3, <3>1
  <2>5. ASSUME NEW k \in Nat, k > i PROVE Row(i)[k] = 0
    <3>1. PICK l \in Nat : l = k - 1 /\ k = l + 1 /\ l >= j /\ l > j
      <4>1. k - 1 \in Nat /\ k = (k - 1) + 1 /\ k - 1 >= j /\ k - 1 > j
        BY <2>1, <2>5
      <4> QED  BY <4>1
    <3> QED  BY <2>2, <2>3, <3>1
  <2> QED  BY <2>4, <2>5
<1>3. n \in S
  <2> HIDE DEF S
  <2>1. \A i \in 0 .. n : i \in S
    BY <1>1, <1>2, InductionTo
  <2> QED  BY <2>1
<1> QED  BY <1>3

\* (k + 1) * C(n + 1, k + 1) = (n + 1) * C(n, k)
LEMMA RowAbsorb ==
    ASSUME NEW n \in Nat
    PROVE  \A k \in Nat : (k + 1) * Row(n + 1)[k + 1] = (n + 1) * Row(n)[k]
<1> DEFINE S == {i \in 0 .. n : \A k \in Nat : (k + 1) * Row(i + 1)[k + 1] = (i + 1) * Row(i)[k]}
<1>1. 0 \in S
  <2>1. ASSUME NEW k \in Nat PROVE (k + 1) * Row(0 + 1)[k + 1] = (0 + 1) * Row(0)[k]
    <3>1. PICK a \in Nat, b \in Nat, c \in Nat :
            a = Row(0)[k] /\ b = Row(0)[k + 1] /\ c = Row(0 + 1)[k + 1]
      <4>1. 0 \in Nat /\ 0 + 1 \in Nat /\ k + 1 \in Nat
        OBVIOUS
      <4> QED  BY <4>1, RowElements
    <3>2. c = b + a
      <4>1. 0 \in Nat
        OBVIOUS
      <4> QED  BY <3>1, <4>1, RowElements
    <3>3. b = 0 /\ a = IF k = 0 THEN 1 ELSE 0
      <4>1. k + 1 \in Nat /\ k + 1 # 0
        OBVIOUS
      <4> QED  BY <3>1, <4>1, RowElements
    <3>4. (k + 1) * c = (0 + 1) * a
      <4>1. CASE k = 0
        BY <3>2, <3>3, <4>1
      <4>2. CASE k # 0
        <5>1. a = 0 /\ c = 0
          BY <3>2, <3>3, <4>2
        <5>2. (k + 1) * 0 = (0 + 1) * 0
          OBVIOUS
        <5> QED  BY <5>1, <5>2
      <4> QED  BY <4>1, <4>2
    <3> QED  BY <3>1, <3>4, Zenon
  <2> QED  BY <2>1
<1>2. ASSUME NEW i \in 1 .. n, i - 1 \in S PROVE i \in S
  <2>1. PICK j \in Nat : j = i - 1 /\ i = j + 1
    <3>1. i - 1 \in Nat /\ i = (i - 1) + 1
      OBVIOUS
    <3> QED  BY <3>1
  <2>2. ASSUME NEW k \in Nat PROVE (k + 1) * Row(i)[k + 1] = i * Row(j)[k]
    BY <1>2, <2>1
  <2>3. ASSUME NEW k \in Nat PROVE (k + 1) * Row(i + 1)[k + 1] = (i + 1) * Row(i)[k]
    <3>1. PICK a \in Nat, b \in Nat, c \in Nat, d \in Nat :
            a = Row(i)[k] /\ b = Row(i)[k + 1] /\ c = Row(i + 1)[k + 1] /\ d = Row(j)[k]
      <4>1. i \in Nat /\ i + 1 \in Nat /\ k + 1 \in Nat
        OBVIOUS
      <4> QED  BY <4>1, RowElements
    <3>2. c = b + a
      <4>1. i \in Nat
        OBVIOUS
      <4> QED  BY <3>1, <4>1, RowElements
    <3>3. (k + 1) * b = i * d
      BY <2>2, <3>1
    <3>4. k * a + i * d = i * a
      <4>1. CASE k = 0
        <5>1. a = 1 /\ d = 1
          <6>1. i \in Nat
            OBVIOUS
          <6> QED  BY <3>1, <4>1, <6>1, RowElements
        <5> QED  BY <4>1, <5>1
      <4>2. CASE k # 0
        <5>1. PICK l \in Nat : l = k - 1 /\ k = l + 1
          <6>1. k - 1 \in Nat /\ k = (k - 1) + 1
            BY <4>2
          <6> QED  BY <6>1
        <5>2. PICK f \in Nat : f = Row(j)[l]
          BY RowElements
        <5>3. k * a = i * f
          <6>1. (l + 1) * Row(i)[l + 1] = i * Row(j)[l]
            BY <2>2
          <6> QED  BY <3>1, <5>1, <5>2, <6>1
        <5>4. a = d + f
          BY <2>1, <3>1, <5>1, <5>2, RowElements
        <5>5. i * (d + f) = i * d + i * f
          OBVIOUS
        <5>6. i * d \in Int /\ i * f \in Int
          OBVIOUS
        <5> QED  BY <5>3, <5>4, <5>5, <5>6
      <4> QED  BY <4>1, <4>2
    <3>5. (k + 1) * (b + a) = (k + 1) * b + k * a + a
      OBVIOUS
    <3>6. (i + 1) * a = i * a + a
      OBVIOUS
    <3>7. (k + 1) * c = (i + 1) * a
      <4>1. PICK u \in Int, v \in Int, w \in Int : u = i * d /\ v = k * a /\ w = i * a
        OBVIOUS
      <4>2. (k + 1) * c = u + v + a
        BY <3>2, <3>3, <3>5, <4>1, Zenon
      <4>3. v + u = w
        BY <3>4, <4>1, Zenon
      <4>4. u + v + a = w + a
        BY <4>3
      <4> QED  BY <3>6, <4>1, <4>2, <4>4, Zenon
    <3> QED  BY <3>1, <3>7, Zenon
  <2> QED  BY <2>3
<1>3. n \in S
  <2> HIDE DEF S
  <2>1. \A i \in 0 .. n : i \in S
    BY <1>1, <1>2, InductionTo
  <2> QED  BY <2>1
<1> QED  BY <1>3

-----------------------------------------------------------------------------
(***************************************************************************)
(* The powers of x + 1.                                                    *)
(***************************************************************************)

\* The terms of (x + 1)^n.
Term(n, x) == [k \in Nat |-> Row(n)[k] * Power(x, k)]

\* The terms are natural numbers.
LEMMA TermFacts ==
    ASSUME NEW n \in Nat, NEW x \in Nat
    PROVE  /\ Term(n, x) \in [Nat -> Nat]
           /\ \A k \in Nat : Term(n, x)[k] = Row(n)[k] * Power(x, k)
<1>1. ASSUME NEW k \in Nat PROVE Row(n)[k] * Power(x, k) \in Nat
  <2>1. PICK a \in Nat, b \in Nat : a = Row(n)[k] /\ b = Power(x, k)
    BY RowElements, PowerFacts
  <2>2. a * b \in Nat
    OBVIOUS
  <2> QED  BY <2>1, <2>2
<1> QED  BY <1>1 DEF Term

\* One term.
LEMMA TermAt ==
    ASSUME NEW n \in Nat, NEW x \in Nat, NEW k \in Nat
    PROVE  Term(n, x)[k] = Row(n)[k] * Power(x, k)
BY TermFacts

\* A term of the next power, by Pascal's rule.
LEMMA TermPascal ==
    ASSUME NEW n \in Nat, NEW x \in Nat, NEW k \in Nat
    PROVE  Term(n + 1, x)[k + 1] = Term(n, x)[k + 1] + x * Term(n, x)[k]
<1>1. PICK a \in Nat, b \in Nat, q \in Nat :
        a = Row(n)[k] /\ b = Row(n)[k + 1] /\ q = Power(x, k)
  <2>1. k + 1 \in Nat
    OBVIOUS
  <2> QED  BY <2>1, RowElements, PowerFacts
<1>2. Row(n + 1)[k + 1] = b + a
  BY <1>1, RowElements
<1>3. Power(x, k + 1) = q * x
  BY <1>1, PowerFacts
<1>4. /\ Term(n + 1, x)[k + 1] = (b + a) * (q * x)
      /\ Term(n, x)[k + 1] = b * (q * x)
      /\ Term(n, x)[k] = a * q
  <2>1. n + 1 \in Nat /\ k + 1 \in Nat
    OBVIOUS
  <2>2. /\ Term(n + 1, x)[k + 1] = Row(n + 1)[k + 1] * Power(x, k + 1)
        /\ Term(n, x)[k + 1] = Row(n)[k + 1] * Power(x, k + 1)
        /\ Term(n, x)[k] = Row(n)[k] * Power(x, k)
    <3>1. Term(n + 1, x)[k + 1] = Row(n + 1)[k + 1] * Power(x, k + 1)
      BY <2>1, TermAt, Zenon
    <3>2. Term(n, x)[k + 1] = Row(n)[k + 1] * Power(x, k + 1)
      BY <2>1, TermAt, Zenon
    <3> QED  BY <3>1, <3>2, TermAt, Zenon
  <2> QED  BY <1>1, <1>2, <1>3, <2>2, Zenon
<1>5. (b + a) * (q * x) = b * (q * x) + x * (a * q)
  OBVIOUS
<1> QED  BY <1>4, <1>5, Zenon

\* The sum of the terms of the next power.
LEMMA SumPascal ==
    ASSUME NEW n \in Nat, NEW x \in Nat, NEW m \in Nat
    PROVE  SumTo(Term(n + 1, x), m + 1) = SumTo(Term(n, x), m + 1) + x * SumTo(Term(n, x), m)
<1>1. PICK s, t : s = Term(n, x) /\ t = Term(n + 1, x)
  BY Zenon
<1>2. s \in [Nat -> Nat] /\ t \in [Nat -> Nat]
  <2>1. n + 1 \in Nat
    OBVIOUS
  <2> QED  BY <1>1, <2>1, TermFacts
<1> DEFINE S == {i \in 0 .. m : SumTo(t, i + 1) = SumTo(s, i + 1) + x * SumTo(s, i)}
<1>3. 0 \in S
  <2>1. s[0] = 1 /\ t[0] = 1
    <3>1. Row(n)[0] = 1 /\ Row(n + 1)[0] = 1 /\ Power(x, 0) = 1
      <4>1. n + 1 \in Nat /\ 0 \in Nat
        OBVIOUS
      <4> QED  BY <4>1, RowElements, PowerFacts
    <3>2. s[0] = Row(n)[0] * Power(x, 0) /\ t[0] = Row(n + 1)[0] * Power(x, 0)
      <4>1. n + 1 \in Nat /\ 0 \in Nat
        OBVIOUS
      <4>2. Term(n, x)[0] = Row(n)[0] * Power(x, 0)
        BY <4>1, TermAt, Zenon
      <4>3. Term(n + 1, x)[0] = Row(n + 1)[0] * Power(x, 0)
        BY <4>1, TermAt, Zenon
      <4> QED  BY <1>1, <4>2, <4>3, Zenon
    <3> QED  BY <3>1, <3>2
  <2>2. /\ SumTo(s, 0) = 0 /\ SumTo(s, 0 + 1) = SumTo(s, 0) + s[0]
        /\ SumTo(t, 0) = 0 /\ SumTo(t, 0 + 1) = SumTo(t, 0) + t[0]
    <3>1. 0 \in Nat
      OBVIOUS
    <3> QED  BY <1>2, <3>1, SumFacts
  <2>3. SumTo(s, 0 + 1) = 1 /\ SumTo(t, 0 + 1) = 1
    BY <2>1, <2>2
  <2>4. x * 0 = 0
    OBVIOUS
  <2>5. SumTo(t, 0 + 1) = SumTo(s, 0 + 1) + x * SumTo(s, 0)
    BY <2>2, <2>3, <2>4
  <2> QED  BY <2>5
<1>4. ASSUME NEW i \in 1 .. m, i - 1 \in S PROVE i \in S
  <2>1. PICK j \in Nat : j = i - 1 /\ i = j + 1
    <3>1. i - 1 \in Nat /\ i = (i - 1) + 1
      OBVIOUS
    <3> QED  BY <3>1
  <2>2. SumTo(t, i) = SumTo(s, i) + x * SumTo(s, j)
    BY <1>4, <2>1
  <2>3. PICK a \in Nat, b \in Nat, c \in Nat : a = SumTo(t, i) /\ b = SumTo(s, i) /\ c = SumTo(s, j)
    <3>1. i \in Nat
      OBVIOUS
    <3> QED  BY <1>2, <3>1, SumFacts
  <2>4. PICK u \in Nat, v \in Nat, w \in Nat : u = t[i] /\ v = s[i] /\ w = s[j]
    <3>1. i \in Nat
      OBVIOUS
    <3>2. t[i] \in Nat /\ s[i] \in Nat /\ s[j] \in Nat
      BY <1>2, <3>1
    <3> QED  BY <3>2, Zenon
  <2>5. u = v + x * w
    BY <1>1, <2>1, <2>4, TermPascal
  <2>6. SumTo(t, i + 1) = a + u /\ SumTo(s, i + 1) = b + v
    <3>1. i \in Nat
      OBVIOUS
    <3> QED  BY <1>2, <2>3, <2>4, <3>1, SumFacts
  <2>7. b = c + w
    <3>1. SumTo(s, j + 1) = SumTo(s, j) + s[j]
      BY <1>2, SumFacts, Zenon
    <3> QED  BY <2>1, <2>3, <2>4, <3>1, Zenon
  <2>8. a + u = (b + v) + x * b
    <3>1. x * (c + w) = x * c + x * w /\ x * c \in Int /\ x * w \in Int
      OBVIOUS
    <3>2. a = b + x * c
      BY <2>2, <2>3
    <3> QED  BY <2>5, <2>7, <3>1, <3>2
  <2>9. SumTo(t, i + 1) = SumTo(s, i + 1) + x * SumTo(s, i)
    BY <2>3, <2>6, <2>8, Zenon
  <2> QED  BY <2>9
<1>5. m \in S
  <2> HIDE DEF S
  <2>1. \A i \in 0 .. m : i \in S
    BY <1>3, <1>4, InductionTo
  <2> QED  BY <2>1
<1> QED  BY <1>1, <1>5

\* The binomial theorem: the terms add up to (x + 1)^n.
LEMMA Binomial ==
    ASSUME NEW n \in Nat, NEW x \in Nat
    PROVE  Power(x + 1, n) = SumTo(Term(n, x), n + 1)
<1>0. x + 1 \in Nat
  OBVIOUS
<1> DEFINE S == {i \in 0 .. n : Power(x + 1, i) = SumTo(Term(i, x), i + 1)}
<1>1. 0 \in S
  <2>1. PICK s : s = Term(0, x)
    BY Zenon
  <2>2. s \in [Nat -> Nat] /\ s[0] = Row(0)[0] * Power(x, 0)
    <3>1. 0 \in Nat
      OBVIOUS
    <3> QED  BY <2>1, <3>1, TermFacts
  <2>3. Row(0)[0] = 1 /\ Power(x, 0) = 1 /\ Power(x + 1, 0) = 1
    BY <1>0, RowElements, PowerFacts
  <2>4. SumTo(s, 0) = 0 /\ SumTo(s, 0 + 1) = SumTo(s, 0) + s[0]
    <3>1. 0 \in Nat
      OBVIOUS
    <3> QED  BY <2>2, <3>1, SumFacts
  <2>5. SumTo(s, 0 + 1) = 1
    BY <2>2, <2>3, <2>4
  <2>6. Power(x + 1, 0) = SumTo(Term(0, x), 0 + 1)
    BY <2>1, <2>3, <2>5, Zenon
  <2> QED  BY <2>6
<1>2. ASSUME NEW i \in 1 .. n, i - 1 \in S PROVE i \in S
  <2>1. PICK j \in Nat : j = i - 1 /\ i = j + 1
    <3>1. i - 1 \in Nat /\ i = (i - 1) + 1
      OBVIOUS
    <3> QED  BY <3>1
  <2>2. PICK s : s = Term(j, x)
    BY Zenon
  <2>3. s \in [Nat -> Nat]
    BY <2>2, TermFacts
  <2>4. PICK b \in Nat : b = SumTo(s, i)
    BY <2>3, SumFacts
  <2>5. Power(x + 1, j) = b
    BY <1>2, <2>1, <2>2, <2>4
  <2>6. Power(x + 1, i) = b * (x + 1)
    BY <1>0, <2>1, <2>5, PowerFacts, Zenon
  <2>7. s[i] = 0
    <3>1. i \in Nat /\ i > j
      BY <2>1
    <3>2. Row(j)[i] = 0
      BY <3>1, RowEdge
    <3>3. PICK q \in Nat : q = Power(x, i)
      BY <3>1, PowerFacts
    <3>4. s[i] = 0 * q
      <4>1. Term(j, x)[i] = Row(j)[i] * Power(x, i)
        BY <3>1, TermAt, Zenon
      <4> QED  BY <2>2, <3>2, <3>3, <4>1, Zenon
    <3> QED  BY <3>4
  <2>8. SumTo(s, i + 1) = b
    <3>1. i \in Nat
      OBVIOUS
    <3>2. SumTo(s, i + 1) = b + s[i]
      BY <2>3, <2>4, <3>1, SumFacts, Zenon
    <3> QED  BY <2>7, <3>2
  <2>9. SumTo(Term(i, x), i + 1) = SumTo(s, i + 1) + x * SumTo(s, i)
    <3>1. i \in Nat
      OBVIOUS
    <3>2. SumTo(Term(j + 1, x), i + 1) = SumTo(Term(j, x), i + 1) + x * SumTo(Term(j, x), i)
      BY <3>1, SumPascal
    <3>3. Term(j + 1, x) = Term(i, x)
      BY <2>1, Zenon
    <3> QED  BY <2>2, <3>2, <3>3, Zenon
  <2>10. SumTo(Term(i, x), i + 1) = b + x * b
    BY <2>4, <2>8, <2>9, Zenon
  <2>11. b * (x + 1) = b + x * b
    OBVIOUS
  <2>12. Power(x + 1, i) = SumTo(Term(i, x), i + 1)
    BY <2>6, <2>10, <2>11, Zenon
  <2> QED  BY <2>12
<1>3. n \in S
  <2> HIDE DEF S
  <2>1. \A i \in 0 .. n : i \in S
    BY <1>1, <1>2, InductionTo
  <2> QED  BY <2>1
<1> QED  BY <1>3

-----------------------------------------------------------------------------
(***************************************************************************)
(* Fermat's theorem.                                                       *)
(***************************************************************************)

\* No number from 2 to p - 1 divides p.
Prime(p) == p \in Nat /\ p > 1 /\ \A k \in 2 .. p - 1 : p % k # 0

\* A prime and a number that it does not divide are coprime.
LEMMA PrimeCoprime ==
    ASSUME NEW p, Prime(p), NEW k \in Nat, k % p # 0
    PROVE  Coprime(p, k)
<1>1. SUFFICES ASSUME NEW j \in 2 .. p, p % j = 0, k % j = 0 PROVE FALSE
  BY DEF Coprime, Divides
<1>2. p \in Nat /\ p > 1
  BY DEF Prime
<1>3. j = p
  <2>1. ~(j \in 2 .. p - 1)
    BY <1>1 DEF Prime
  <2> QED  BY <1>1, <1>2, <2>1
<1> QED  BY <1>1, <1>3

\* A prime divides the inner elements of its row.
LEMMA PrimeRow ==
    ASSUME NEW p, Prime(p), NEW k \in 1 .. p - 1
    PROVE  Cong(p, Row(p)[k], 0)
<1>1. p \in Nat /\ p > 1 /\ p \in Int
  BY DEF Prime
<1>2. k \in Nat /\ k \in Int
  BY <1>1
<1>3. k % p # 0
  BY <1>1, <1>2, SmallMod
<1>4. PICK y \in 0 .. p - 1 : Cong(p, k * y, 1)
  BY <1>1, <1>2, <1>3, PrimeCoprime, InverseExists
<1>5. PICK n \in Nat, j \in Nat : p = n + 1 /\ k = j + 1
  <2>1. p - 1 \in Nat /\ k - 1 \in Nat /\ p = (p - 1) + 1 /\ k = (k - 1) + 1
    BY <1>1, <1>2
  <2> QED  BY <2>1
<1>6. PICK c \in Nat, d \in Nat : c = Row(p)[k] /\ d = Row(n)[j]
  BY <1>1, <1>2, RowElements
<1>7. k * c = p * d
  <2>1. (j + 1) * Row(n + 1)[j + 1] = (n + 1) * Row(n)[j]
    BY RowAbsorb
  <2> QED  BY <1>5, <1>6, <2>1, Zenon
<1>8. y \in Int /\ c \in Int /\ k * y \in Int /\ (k * y) * c \in Int /\ 1 \in Int /\ 1 * c = c
  BY <1>2
<1>9. Cong(p, (k * y) * c, 1 * c)
  BY <1>1, <1>4, <1>8, CongScale, Zenon
<1>10. (k * y) * c = 0 + p * (d * y)
  <2>1. (k * y) * c = (k * c) * y
    BY <1>2
  <2>2. (p * d) * y = 0 + p * (d * y)
    BY <1>1
  <2> QED  BY <1>7, <2>1, <2>2, Zenon
<1>11. Cong(p, (k * y) * c, 0)
  <2>1. d * y \in Int
    OBVIOUS
  <2> QED  BY <1>10, <2>1 DEF Cong
<1>12. Cong(p, c, (k * y) * c)
  BY <1>1, <1>8, <1>9, CongSym, Zenon
<1>13. 0 \in Int
  OBVIOUS
<1> QED  BY <1>1, <1>6, <1>8, <1>11, <1>12, <1>13, CongTrans, Zenon

\* (x + 1)^p and x^p + 1 leave the same remainder.
LEMMA PrimePower ==
    ASSUME NEW p, Prime(p), NEW x \in Nat
    PROVE  Cong(p, Power(x + 1, p), Power(x, p) + 1)
<1>1. p \in Nat /\ p > 1
  BY DEF Prime
<1>2. PICK s : s = Term(p, x)
  BY Zenon
<1>3. s \in [Nat -> Nat] /\ \A k \in Nat : s[k] = Row(p)[k] * Power(x, k)
  BY <1>1, <1>2, TermFacts
<1> DEFINE S == {i \in 0 .. p - 1 : Cong(p, SumTo(s, i + 1), 1)}
<1>4. 0 \in S
  <2>1. s[0] = 1
    <3>1. Row(p)[0] = 1 /\ Power(x, 0) = 1 /\ 0 \in Nat
      BY <1>1, RowElements, PowerFacts
    <3> QED  BY <1>3, <3>1
  <2>2. SumTo(s, 0) = 0 /\ SumTo(s, 0 + 1) = SumTo(s, 0) + s[0]
    <3>1. 0 \in Nat
      OBVIOUS
    <3> QED  BY <1>3, <3>1, SumFacts
  <2>3. SumTo(s, 0 + 1) = 1 /\ 1 \in Int
    BY <2>1, <2>2
  <2>4. Cong(p, SumTo(s, 0 + 1), 1)
    BY <1>1, <2>3, CongEq
  <2>5. 0 \in 0 .. p - 1
    BY <1>1
  <2> QED  BY <2>4, <2>5
<1>5. ASSUME NEW i \in 1 .. p - 1, i - 1 \in S PROVE i \in S
  <2>1. PICK j \in Nat : j = i - 1 /\ i = j + 1
    <3>1. i - 1 \in Nat /\ i = (i - 1) + 1
      BY <1>1
    <3> QED  BY <3>1
  <2>2. i \in Nat /\ i \in 0 .. p - 1
    BY <1>1
  <2>3. Cong(p, SumTo(s, i), 1)
    BY <1>5, <2>1
  <2>4. PICK a \in Nat, c \in Nat, q \in Nat : a = SumTo(s, i) /\ c = Row(p)[i] /\ q = Power(x, i)
    BY <1>1, <1>3, <2>2, SumFacts, RowElements, PowerFacts
  <2>5. Cong(p, c * q, 0 * q)
    <3>1. Cong(p, c, 0)
      BY <2>4, PrimeRow
    <3>2. c \in Int /\ 0 \in Int /\ q \in Int
      OBVIOUS
    <3> QED  BY <1>1, <3>1, <3>2, CongScale, Zenon
  <2>6. SumTo(s, i + 1) = a + c * q
    BY <1>3, <2>2, <2>4, SumFacts
  <2>7. a \in Int /\ c * q \in Int /\ 1 \in Int /\ 0 * q = 0 /\ 0 \in Int /\ 1 + 0 = 1
    OBVIOUS
  <2>8. Cong(p, a + c * q, 1 + 0)
    BY <1>1, <2>3, <2>4, <2>5, <2>7, CongAdd, Zenon
  <2>9. Cong(p, SumTo(s, i + 1), 1)
    BY <2>6, <2>7, <2>8, Zenon
  <2> QED  BY <2>2, <2>9
<1>6. p - 1 \in S
  <2>1. p - 1 \in Nat /\ p - 1 \in 0 .. p - 1
    BY <1>1
  <2> HIDE DEF S
  <2>2. \A i \in 0 .. p - 1 : i \in S
    BY <1>4, <1>5, <2>1, InductionTo
  <2> QED  BY <2>1, <2>2
<1>7. Cong(p, SumTo(s, p), 1)
  <2>1. (p - 1) + 1 = p
    BY <1>1
  <2> QED  BY <1>6, <2>1
<1>8. PICK a \in Nat, q \in Nat : a = SumTo(s, p) /\ q = Power(x, p)
  BY <1>1, <1>3, SumFacts, PowerFacts
<1>9. s[p] = q
  <2>1. Row(p)[p] = 1
    BY <1>1, RowEdge
  <2> QED  BY <1>1, <1>3, <1>8, <2>1
<1>10. SumTo(s, p + 1) = a + q
  BY <1>1, <1>3, <1>8, <1>9, SumFacts
<1>11. Power(x + 1, p) = a + q
  BY <1>1, <1>2, <1>10, Binomial
<1>12. a \in Int /\ q \in Int /\ 1 \in Int /\ 1 + q = q + 1
  OBVIOUS
<1>13. Cong(p, q, q)
  BY <1>1, <1>12, CongEq
<1>14. Cong(p, a + q, 1 + q)
  BY <1>1, <1>7, <1>8, <1>12, <1>13, CongAdd, Zenon
<1> QED  BY <1>8, <1>11, <1>12, <1>14, Zenon

\* Fermat: x^p and x leave the same remainder.
LEMMA Fermat ==
    ASSUME NEW p, Prime(p), NEW x \in Nat
    PROVE  Cong(p, Power(x, p), x)
<1>1. p \in Nat /\ p > 1
  BY DEF Prime
<1> DEFINE S == {i \in 0 .. x : Cong(p, Power(i, p), i)}
<1>2. 0 \in S
  <2>1. Power(0, p) = Power(0, p - 1) * 0 /\ Power(0, p - 1) \in Nat
    <3>1. 0 \in Nat /\ p > 0
      BY <1>1
    <3> QED  BY <1>1, <3>1, PowerStep
  <2>2. Power(0, p) = 0 /\ 0 \in Int
    BY <2>1
  <2>3. Cong(p, Power(0, p), 0)
    BY <1>1, <2>2, CongEq
  <2> QED  BY <2>3
<1>3. ASSUME NEW i \in 1 .. x, i - 1 \in S PROVE i \in S
  <2>1. PICK j \in Nat : j = i - 1 /\ i = j + 1
    <3>1. i - 1 \in Nat /\ i = (i - 1) + 1
      OBVIOUS
    <3> QED  BY <3>1
  <2>2. Cong(p, Power(j, p), j)
    BY <1>3, <2>1
  <2>3. PICK a \in Nat, b \in Nat : a = Power(j, p) /\ b = Power(i, p)
    <3>1. i \in Nat
      OBVIOUS
    <3> QED  BY <1>1, <3>1, PowerFacts
  <2>4. Cong(p, b, a + 1)
    BY <2>1, <2>3, PrimePower
  <2>5. a \in Int /\ b \in Int /\ 1 \in Int /\ j \in Int /\ a + 1 \in Int /\ j + 1 \in Int
    OBVIOUS
  <2>6. Cong(p, 1, 1)
    BY <1>1, <2>5, CongEq
  <2>7. Cong(p, a + 1, j + 1)
    BY <1>1, <2>2, <2>3, <2>5, <2>6, CongAdd, Zenon
  <2>8. Cong(p, b, j + 1)
    BY <1>1, <2>4, <2>5, <2>7, CongTrans, Zenon
  <2>9. Cong(p, Power(i, p), i)
    BY <2>1, <2>3, <2>8, Zenon
  <2> QED  BY <2>9
<1>4. x \in S
  <2> HIDE DEF S
  <2>1. \A i \in 0 .. x : i \in S
    BY <1>2, <1>3, InductionTo
  <2> QED  BY <2>1
<1> QED  BY <1>4

\* The exponents that give x back.
LEMMA FermatRounds ==
    ASSUME NEW p, Prime(p), NEW x \in Nat, NEW k \in Nat
    PROVE  Cong(p, Power(x, 1 + k * (p - 1)), x)
<1>1. p \in Nat /\ p > 1 /\ p - 1 \in Nat
  BY DEF Prime
<1>2. x \in Int
  OBVIOUS
<1> DEFINE S == {i \in 0 .. k : Cong(p, Power(x, 1 + i * (p - 1)), x)}
<1>3. 0 \in S
  <2>1. 1 + 0 * (p - 1) = 1
    BY <1>1
  <2>2. Power(x, 1) = x
    BY PowerOne
  <2>3. Cong(p, Power(x, 1 + 0 * (p - 1)), x)
    BY <1>1, <1>2, <2>1, <2>2, CongEq, Zenon
  <2> QED  BY <2>3
<1>4. ASSUME NEW i \in 1 .. k, i - 1 \in S PROVE i \in S
  <2>1. PICK j \in Nat : j = 1 + (i - 1) * (p - 1)
    <3>1. i - 1 \in Nat
      OBVIOUS
    <3>2. (i - 1) * (p - 1) \in Nat
      BY <1>1, <3>1
    <3> QED  BY <3>2
  <2>2. Cong(p, Power(x, j), x)
    BY <1>4, <2>1
  <2>3. 1 + i * (p - 1) = j + (p - 1)
    BY <1>1, <2>1
  <2>4. PICK a \in Nat, b \in Nat : a = Power(x, j) /\ b = Power(x, p - 1)
    BY <1>1, PowerFacts
  <2>5. Power(x, 1 + i * (p - 1)) = a * b
    <3>1. Power(x, j + (p - 1)) = a * b
      BY <1>1, <2>4, PowerAdd
    <3> QED  BY <2>3, <3>1, Zenon
  <2>6. Cong(p, a * b, x * b)
    <3>1. a \in Int /\ b \in Int
      OBVIOUS
    <3> QED  BY <1>1, <1>2, <2>2, <2>4, <3>1, CongScale, Zenon
  <2>7. Power(x, p) = x * b
    <3>1. Power(x, p) = Power(x, p - 1) * x
      BY <1>1, PowerStep
    <3>2. b * x = x * b
      OBVIOUS
    <3> QED  BY <2>4, <3>1, <3>2, Zenon
  <2>8. Cong(p, x * b, x)
    BY <2>7, Fermat
  <2>9. a * b \in Int /\ x * b \in Int
    OBVIOUS
  <2>10. Cong(p, a * b, x)
    BY <1>1, <1>2, <2>6, <2>8, <2>9, CongTrans, Zenon
  <2>11. Cong(p, Power(x, 1 + i * (p - 1)), x)
    BY <2>5, <2>10, Zenon
  <2> QED  BY <2>11
<1>5. k \in S
  <2> HIDE DEF S
  <2>1. \A i \in 0 .. k : i \in S
    BY <1>3, <1>4, InductionTo
  <2> QED  BY <2>1
<1> QED  BY <1>5

\* Encoding with e and decoding with an inverse of it, modulo one prime.
LEMMA PowerInverts ==
    ASSUME NEW p, Prime(p), p > 2, NEW x \in Nat, NEW e \in Nat, NEW d \in Nat,
           Cong(p - 1, e * d, 1), NEW y \in Nat, Cong(p, y, Power(x, e))
    PROVE  mpz_powm(y, d, p) = x % p
<1>1. p \in Nat /\ p > 0 /\ p - 1 \in Nat /\ p - 1 > 1
  BY DEF Prime
<1>2. PICK k \in Int : e * d = 1 + (p - 1) * k
  BY DEF Cong
<1>3. k \in Nat
  <2>1. e * d >= 0
    OBVIOUS
  <2>2. CASE k < 0
    <3>1. (p - 1) * k <= (p - 1) * (-1)
      BY <1>1, <2>2
    <3>2. (p - 1) * (-1) = -(p - 1) /\ (p - 1) * k \in Int
      BY <1>1
    <3> QED  BY <1>1, <1>2, <2>1, <3>1, <3>2
  <2> QED  BY <2>2
<1>4. e * d = 1 + k * (p - 1)
  <2>1. (p - 1) * k = k * (p - 1)
    BY <1>1
  <2> QED  BY <1>2, <2>1
<1>5. PICK a \in Nat, b \in Nat, c \in Nat :
        a = Power(x, e) /\ b = Power(y, d) /\ c = Power(a, d)
  BY PowerFacts
<1>6. Cong(p, c, x)
  <2>1. c = Power(x, e * d)
    BY <1>5, PowerPower
  <2>2. Cong(p, Power(x, 1 + k * (p - 1)), x)
    BY <1>3, FermatRounds
  <2> QED  BY <1>4, <2>1, <2>2, Zenon
<1>7. Cong(p, b, c)
  BY <1>1, <1>5, PowerCong
<1>8. b \in Int /\ c \in Int /\ x \in Int
  OBVIOUS
<1>9. Cong(p, b, x)
  BY <1>1, <1>6, <1>7, <1>8, CongTrans, Zenon
<1>10. b % p = x % p
  BY <1>1, <1>8, <1>9, CongSame
<1> QED  BY <1>1, <1>5, <1>10, PowmPower

-----------------------------------------------------------------------------
(***************************************************************************)
(* The key (rsa_setkey).                                                   *)
(***************************************************************************)

\* The least common multiple is a multiple of both.
LEMMA LcmFacts ==
    ASSUME NEW m \in Nat, m > 0, NEW n \in Nat, n > 0
    PROVE  /\ mpz_lcm(m, n) \in Nat /\ mpz_lcm(m, n) > 0
           /\ \E a \in Int : mpz_lcm(m, n) = m * a
           /\ \E a \in Int : mpz_lcm(m, n) = n * a
<1> DEFINE C(k) == k % m = 0 /\ k % n = 0
           S == {k \in Nat : k > 0 /\ C(k)}
<1>1. m * n \in Nat /\ m * n > 0
  OBVIOUS
<1>2. m * n \in S
  <2>1. (m * n + 0) % m = 0 /\ (n * m + 0) % n = 0
    <3>1. 0 \in 0 .. m - 1 /\ 0 \in 0 .. n - 1 /\ m \in Int /\ n \in Int
      OBVIOUS
    <3> QED  BY <3>1, DivModUnique
  <2>2. m * n + 0 = m * n /\ n * m + 0 = m * n
    OBVIOUS
  <2> QED  BY <1>1, <2>1, <2>2
<1>3. PICK l \in S : \A o \in S : l <= o
  <2>1. S \in SUBSET Nat /\ S # {}
    BY <1>2
  <2> HIDE DEF S
  <2> QED  BY <2>1, LeastElement
<1> DEFINE P(k) == Divides(m, k) /\ Divides(n, k) /\ \A j \in 1 .. k - 1 : ~(Divides(m, j) /\ Divides(n, j))
<1>4. l \in 1 .. m * n /\ P(l)
  <2>1. l \in 1 .. m * n
    BY <1>1, <1>2, <1>3
  <2>2. ASSUME NEW j \in 1 .. l - 1, Divides(m, j), Divides(n, j) PROVE FALSE
    <3>1. j \in S
      BY <2>1, <2>2 DEF Divides
    <3> QED  BY <1>3, <2>1, <3>1
  <2> QED  BY <1>3, <2>1, <2>2 DEF Divides
<1>5. PICK k : k = mpz_lcm(m, n)
  BY Zenon
<1>6. k \in 1 .. m * n /\ P(k)
  <2>1. k = CHOOSE j \in 1 .. m * n : P(j)
    BY <1>5 DEF mpz_lcm
  <2> HIDE DEF P
  <2> QED  BY <1>4, <2>1, Zenon
<1>7. k \in Nat /\ k > 0
  BY <1>1, <1>6
<1>8. k % m = 0 /\ k % n = 0
  BY <1>6 DEF Divides
<1>9. \E a \in Int : k = m * a
  <2>1. k \div m \in Int /\ k = m * (k \div m) + (k % m)
    BY <1>7, DivMod
  <2>2. PICK a \in Int : a = k \div m
    BY <2>1
  <2>3. m * a \in Int /\ k = m * a + 0
    BY <1>8, <2>1, <2>2
  <2> QED  BY <2>3
<1>10. \E a \in Int : k = n * a
  <2>1. k \div n \in Int /\ k = n * (k \div n) + (k % n)
    BY <1>7, DivMod
  <2>2. PICK a \in Int : a = k \div n
    BY <2>1
  <2>3. n * a \in Int /\ k = n * a + 0
    BY <1>8, <2>1, <2>2
  <2> QED  BY <2>3
<1> QED  BY <1>5, <1>7, <1>9, <1>10, Zenon

\* mpz_invert finds an inverse where there is one.
LEMMA InvertFacts ==
    ASSUME NEW n \in Nat, n > 1, NEW x \in Nat, Coprime(n, x)
    PROVE  mpz_invert(x, n) \in 0 .. n - 1 /\ Cong(n, x * mpz_invert(x, n), 1)
<1> DEFINE P(y) == (x * y) % n = 1 % n
<1>1. PICK z \in 0 .. n - 1 : Cong(n, x * z, 1)
  BY InverseExists
<1>2. P(z)
  <2>1. x * z \in Int /\ 1 \in Int /\ n > 0
    OBVIOUS
  <2> QED  BY <1>1, <2>1, CongSame
<1>3. PICK y : y = mpz_invert(x, n)
  BY Zenon
<1>4. y \in 0 .. n - 1 /\ P(y)
  <2>1. y = CHOOSE j \in 0 .. n - 1 : P(j)
    BY <1>3 DEF mpz_invert
  <2> HIDE DEF P
  <2> QED  BY <1>2, <2>1, Zenon
<1>5. PICK w \in Int : w = x * y
  <2>1. y \in Int
    BY <1>4
  <2> QED  BY <2>1
<1>6. w % n = 1
  <2>1. 1 \in 0 .. n - 1
    OBVIOUS
  <2>2. 1 % n = 1
    BY <2>1, SmallMod
  <2> QED  BY <1>4, <1>5, <2>2
<1>7. Cong(n, w, w % n)
  BY CongRest
<1> QED  BY <1>3, <1>4, <1>5, <1>6, <1>7, Zenon

\* The exponent that rsa_setkey computes for one of the primes.
LEMMA ExponentInverts ==
    ASSUME NEW n \in Nat, n > 1, NEW l \in Nat, l > 0, \E a \in Int : l = n * a,
           NEW e \in Nat, NEW d \in Nat, Cong(l, e * d, 1)
    PROVE  d % n \in Nat /\ Cong(n, e * (d % n), 1)
<1>1. PICK a \in Int : l = n * a
  OBVIOUS
<1>2. a \in Nat
  <2>1. CASE a < 0
    <3>1. n * a <= n * (-1)
      BY <2>1
    <3>2. n * (-1) = -n /\ n * a \in Int
      OBVIOUS
    <3> QED  BY <1>1, <3>1, <3>2
  <2> QED  BY <2>1
<1>3. Cong(n, e * d, 1)
  <2>1. e * d \in Int /\ 1 \in Int
    OBVIOUS
  <2> QED  BY <1>1, <1>2, <2>1, CongDivisor
<1>4. PICK r \in 0 .. n - 1 : r = d % n /\ Cong(n, r, d)
  <2>1. n > 0 /\ d \in Int
    OBVIOUS
  <2> QED  BY <2>1, CongRest
<1>5. r \in Int /\ d \in Int /\ e \in Int /\ r * e = e * r /\ d * e = e * d
      /\ e * r \in Int /\ e * d \in Int /\ 1 \in Int
  OBVIOUS
<1>6. Cong(n, r * e, d * e)
  BY <1>4, <1>5, CongScale, Zenon
<1>7. Cong(n, e * r, e * d)
  BY <1>5, <1>6, Zenon
<1>8. Cong(n, e * r, 1)
  BY <1>3, <1>5, <1>7, CongTrans, Zenon
<1>9. r \in Nat
  OBVIOUS
<1> QED  BY <1>4, <1>8, <1>9, Zenon

\* What an accepted key consists of.
KeyRight(p, q, e, k) ==
    /\ k.p = p /\ k.q = q /\ k.n = p * q /\ k.e = e
    /\ k.dp \in Nat /\ Cong(p - 1, e * k.dp, 1)
    /\ k.dq \in Nat /\ Cong(q - 1, e * k.dq, 1)
    /\ k.qi \in Nat /\ Cong(p, q * k.qi, 1)
    /\ k.encoding_limit = Len(mpz_export(p * q))

\* rsa_setkey, for every two primes and exponent that it accepts.
LEMMA SetKeyRight ==
    ASSUME NEW p, Prime(p), p > 2, NEW q, Prime(q), q > 2, p # q, NEW e \in Nat,
           Accepted(p, q, e)
    PROVE  KeyRight(p, q, e, rsa_setkey(p, q, e))
<1>1. p \in Nat /\ q \in Nat /\ p - 1 \in Nat /\ p - 1 > 1 /\ q - 1 \in Nat /\ q - 1 > 1
      /\ p - 1 > 0 /\ q - 1 > 0 /\ p > 1
  BY DEF Prime
<1>2. PICK l : l = mpz_lcm(p - 1, q - 1)
  BY Zenon
<1>3. /\ l \in Nat /\ l > 0
      /\ \E a \in Int : l = (p - 1) * a
      /\ \E a \in Int : l = (q - 1) * a
  BY <1>1, <1>2, LcmFacts
<1>4. l > e /\ Coprime(l, e)
  BY <1>2 DEF Accepted
<1>5. l > 1
  <2>1. PICK a \in Int : l = (p - 1) * a
    BY <1>3
  <2>2. ASSUME l = 1 PROVE FALSE
    <3>1. CASE a <= 0
      <4>1. (p - 1) * a <= 0
        BY <1>1, <3>1
      <4> QED  BY <1>3, <2>1, <4>1
    <3>2. CASE a >= 1
      <4>1. (p - 1) * a >= (p - 1) * 1
        BY <1>1, <3>2
      <4>2. (p - 1) * 1 = p - 1
        BY <1>1
      <4> QED  BY <1>1, <2>1, <2>2, <4>1, <4>2
    <3> QED  BY <3>1, <3>2
  <2> QED  BY <1>3, <2>2
<1>6. PICK d : d = mpz_invert(e, l)
  BY Zenon
<1>7. d \in 0 .. l - 1 /\ Cong(l, e * d, 1)
  BY <1>3, <1>4, <1>5, <1>6, InvertFacts, Zenon
<1>8. d \in Nat
  BY <1>7
<1>9. d % (p - 1) \in Nat /\ Cong(p - 1, e * (d % (p - 1)), 1)
  BY <1>1, <1>3, <1>7, <1>8, ExponentInverts
<1>10. d % (q - 1) \in Nat /\ Cong(q - 1, e * (d % (q - 1)), 1)
  BY <1>1, <1>3, <1>7, <1>8, ExponentInverts
<1>11. q % p # 0
  <2>1. CASE q < p
    <3>1. q \in 0 .. p - 1
      BY <1>1, <2>1
    <3>2. q % p = q
      BY <1>1, <3>1, SmallMod
    <3> QED  BY <1>1, <3>2
  <2>2. CASE q > p
    <3>1. p \in 2 .. q - 1
      BY <1>1, <2>2
    <3> QED  BY <3>1 DEF Prime
  <2> QED  BY <1>1, <2>1, <2>2
<1>12. Coprime(p, q)
  BY <1>1, <1>11, PrimeCoprime
<1>13. PICK i : i = mpz_invert(q, p)
  BY Zenon
<1>14. i \in 0 .. p - 1 /\ Cong(p, q * i, 1)
  BY <1>1, <1>12, <1>13, InvertFacts, Zenon
<1>15. i \in Nat
  BY <1>14
<1>16. rsa_setkey(p, q, e) =
         [p |-> p, q |-> q, n |-> p * q, e |-> e,
          dp |-> d % (p - 1), dq |-> d % (q - 1), qi |-> i,
          encoding_limit |-> Len(mpz_export(p * q))]
  BY <1>2, <1>6, <1>13, Zenon DEF rsa_setkey
<1>17. PICK k : k = rsa_setkey(p, q, e)
  BY Zenon
<1>18. /\ k.p = p /\ k.q = q /\ k.n = p * q /\ k.e = e
       /\ k.dp = d % (p - 1) /\ k.dq = d % (q - 1) /\ k.qi = i
       /\ k.encoding_limit = Len(mpz_export(p * q))
  <2>1. PICK a, b, c, f : a = p * q /\ b = d % (p - 1) /\ c = d % (q - 1) /\ f = Len(mpz_export(p * q))
    BY Zenon
  <2>2. k = [p |-> p, q |-> q, n |-> a, e |-> e, dp |-> b, dq |-> c, qi |-> i,
             encoding_limit |-> f]
    BY <1>16, <1>17, <2>1, Zenon
  <2>3. /\ k.p = p /\ k.q = q /\ k.n = a /\ k.e = e
        /\ k.dp = b /\ k.dq = c /\ k.qi = i /\ k.encoding_limit = f
    BY <2>2
  <2> QED  BY <2>1, <2>3, Zenon
<1> QED  BY <1>9, <1>10, <1>14, <1>15, <1>17, <1>18, Zenon DEF KeyRight

-----------------------------------------------------------------------------
(***************************************************************************)
(* Chinese remainders (the end of rsa_decode).                             *)
(***************************************************************************)

\* Numbers below p * q are told apart by their remainders.
LEMMA ChineseUnique ==
    ASSUME NEW p \in Nat, p > 1, NEW q \in Nat, q > 1, NEW i \in Nat, Cong(p, q * i, 1),
           NEW x \in 0 .. p * q - 1, NEW v \in 0 .. p * q - 1,
           Cong(p, v, x), Cong(q, v, x)
    PROVE  v = x
<1>1. PICK a \in Int : v = x + q * a
  BY DEF Cong
<1>2. PICK b \in Int : v = x + p * b
  BY DEF Cong
<1>3. PICK c \in Int : q * i = 1 + p * c
  BY DEF Cong
<1>4. p * q \in Nat /\ q * a \in Int /\ p * b \in Int /\ x \in Int /\ v \in Int
  OBVIOUS
<1>5. q * a = p * b
  BY <1>1, <1>2, <1>4
<1>6. a = p * (b * i - c * a)
  <2>1. (q * i) * a = a + p * (c * a)
    <3>1. (1 + p * c) * a = a + p * (c * a)
      OBVIOUS
    <3> QED  BY <1>3, <3>1, Zenon
  <2>2. (q * i) * a = (q * a) * i
    OBVIOUS
  <2>3. (p * b) * i = p * (b * i)
    OBVIOUS
  <2>4. a + p * (c * a) = p * (b * i)
    BY <1>5, <2>1, <2>2, <2>3, Zenon
  <2>5. p * (b * i - c * a) = p * (b * i) - p * (c * a)
    OBVIOUS
  <2>6. PICK u \in Int, w \in Int : u = p * (b * i) /\ w = p * (c * a)
    OBVIOUS
  <2>7. a + w = u /\ p * (b * i - c * a) = u - w
    BY <2>4, <2>5, <2>6, Zenon
  <2> QED  BY <2>6, <2>7
<1>7. PICK k \in Int : k = b * i - c * a
  OBVIOUS
<1>8. a = p * k
  BY <1>6, <1>7
<1>9. v = x + (p * q) * k
  <2>1. q * (p * k) = (p * q) * k
    OBVIOUS
  <2> QED  BY <1>1, <1>8, <2>1
<1>10. PICK n \in Nat : n = p * q /\ n > 0
  <2>1. p * q > 0
    OBVIOUS
  <2> QED  BY <1>4, <2>1
<1>11. v = n * k + x /\ x \in 0 .. n - 1 /\ v \in 0 .. n - 1
  BY <1>9, <1>10
<1>12. (n * k + x) % n = x
  BY <1>10, <1>11, DivModUnique
<1>13. v % n = v
  BY <1>10, <1>11, SmallMod
<1> QED  BY <1>11, <1>12, <1>13

\* How rsa_decode puts the two results together.
Combined(x1, x2, i, p, q) ==
    LET x3 == IF x1 < x2 THEN x1 - x2 + p ELSE x1 - x2
    IN  x2 + ((x3 * i) % p) * q

\* A number is put together again from its two remainders.
LEMMA ChineseIs ==
    ASSUME NEW p \in Nat, p > 1, NEW q \in Nat, q > 1, NEW i \in Nat, Cong(p, q * i, 1),
           NEW x \in 0 .. p * q - 1
    PROVE  Combined(x % p, x % q, i, p, q) = x
<1>0. PICK x1, x2, x3 :
        x1 = x % p /\ x2 = x % q /\ x3 = IF x1 < x2 THEN x1 - x2 + p ELSE x1 - x2
  <2>1. PICK x1, x2 : x1 = x % p /\ x2 = x % q
    BY Zenon
  <2>2. PICK x3 : x3 = IF x1 < x2 THEN x1 - x2 + p ELSE x1 - x2
    BY Zenon
  <2> QED  BY <2>1, <2>2, Zenon
<1>1. x \in Int /\ p \in Int /\ q \in Int /\ i \in Int /\ p > 0 /\ q > 0
  OBVIOUS
<1>2. x1 \in 0 .. p - 1 /\ Cong(p, x1, x) /\ x2 \in 0 .. q - 1 /\ Cong(q, x2, x)
  BY <1>0, <1>1, CongRest
<1>3. x1 \in Int /\ x2 \in Int /\ x3 \in Int /\ x3 * i \in Int
  <2>1. x1 \in Int /\ x2 \in Int
    BY <1>2
  <2>2. x3 \in Int
    BY <1>0, <1>1, <2>1
  <2> QED  BY <1>1, <2>1, <2>2
<1>4. PICK h \in 0 .. p - 1 : h = (x3 * i) % p /\ Cong(p, h, x3 * i)
  BY <1>1, <1>3, CongRest
<1>5. h \in Int /\ h * q \in Int /\ (x3 * i) * q \in Int /\ x3 * (q * i) \in Int
  BY <1>1, <1>3
<1>6. PICK v \in Int : v = x2 + h * q
  BY <1>3, <1>5
<1>7. v \in 0 .. p * q - 1
  <2>1. h \in 0 .. p - 1 /\ x2 \in 0 .. q - 1
    BY <1>2
  <2>2. x2 + q * h \in 0 .. q * p - 1
    BY <1>1, <2>1, TwoDigits
  <2>3. q * h = h * q /\ q * p = p * q
    BY <1>1
  <2> QED  BY <1>6, <2>2, <2>3
<1>8. Cong(q, v, x)
  <2>1. Cong(q, v, x2)
    <3>1. v = x2 + q * h
      BY <1>1, <1>5, <1>6
    <3> QED  BY <1>5, <3>1 DEF Cong
  <2> QED  BY <1>1, <1>2, <1>3, <2>1, CongTrans
<1>9. Cong(p, h * q, x3)
  <2>1. Cong(p, h * q, (x3 * i) * q)
    BY <1>1, <1>3, <1>4, <1>5, CongScale, Zenon
  <2>2. Cong(p, (q * i) * x3, 1 * x3)
    <3>1. q * i \in Int /\ 1 \in Int
      BY <1>1
    <3> QED  BY <1>3, <3>1, CongScale, Zenon
  <2>3. (q * i) * x3 = (x3 * i) * q /\ 1 * x3 = x3
    BY <1>1, <1>3
  <2>4. Cong(p, (x3 * i) * q, x3)
    BY <2>2, <2>3, Zenon
  <2> QED  BY <1>3, <1>5, <2>1, <2>4, CongTrans, Zenon
<1>10. Cong(p, x3, x1 - x2)
  <2>1. CASE x1 < x2
    <3>1. PICK o \in Int : o = 1
      OBVIOUS
    <3>2. x3 = (x1 - x2) + p * o
      BY <1>0, <1>1, <1>3, <2>1, <3>1
    <3> QED  BY <3>2 DEF Cong
  <2>2. CASE ~(x1 < x2)
    <3>1. PICK o \in Int : o = 0
      OBVIOUS
    <3>2. x3 = (x1 - x2) + p * o
      BY <1>0, <1>1, <1>3, <2>2, <3>1
    <3> QED  BY <3>2 DEF Cong
  <2> QED  BY <2>1, <2>2
<1>11. Cong(p, v, x)
  <2>1. x1 - x2 \in Int
    BY <1>3
  <2>2. Cong(p, h * q, x1 - x2)
    BY <1>3, <1>5, <1>9, <1>10, <2>1, CongTrans, Zenon
  <2>3. Cong(p, x2, x2)
    BY <1>3, CongEq
  <2>4. Cong(p, x2 + h * q, x2 + (x1 - x2))
    BY <1>3, <1>5, <2>1, <2>2, <2>3, CongAdd, Zenon
  <2>5. x2 + (x1 - x2) = x1
    BY <1>3
  <2>6. Cong(p, v, x1)
    BY <1>6, <2>4, <2>5, Zenon
  <2> QED  BY <1>1, <1>2, <1>3, <2>6, CongTrans
<1>12. v = x
  BY <1>7, <1>8, <1>11, ChineseUnique
<1>13. Combined(x1, x2, i, p, q) = x2 + ((x3 * i) % p) * q
  BY <1>0, Zenon DEF Combined
<1> QED  BY <1>0, <1>4, <1>6, <1>12, <1>13, Zenon

\* Encoding and decoding as numbers.
LEMMA NumbersInvert ==
    ASSUME NEW p, Prime(p), p > 2, NEW q, Prime(q), q > 2, NEW e \in Nat, NEW k,
           KeyRight(p, q, e, k), NEW x \in 0 .. p * q - 1,
           NEW y, y = mpz_powm(x, e, p * q),
           NEW x1, x1 = mpz_powm(y, k.dp, p), NEW x2, x2 = mpz_powm(y, k.dq, q)
    PROVE  y \in 0 .. p * q - 1 /\ Combined(x1, x2, k.qi, p, q) = x
<1>1. p \in Nat /\ p > 1 /\ q \in Nat /\ q > 1
  BY DEF Prime
<1>2. PICK n \in Nat : n = p * q /\ n > 0
  <2>1. p * q \in Nat /\ p * q > 0
    BY <1>1
  <2> QED  BY <2>1
<1>3. x \in Nat
  OBVIOUS
<1>4. PICK a \in Nat : a = Power(x, e)
  BY <1>3, PowerFacts
<1>5. y = a % n
  BY <1>2, <1>3, <1>4, PowmPower
<1>6. y \in 0 .. n - 1 /\ Cong(n, y, a)
  <2>1. a \in Int
    OBVIOUS
  <2> QED  BY <1>2, <1>5, <2>1, CongRest, Zenon
<1>7. y \in Nat /\ y \in Int /\ a \in Int
  BY <1>6
<1>8. Cong(p, y, a) /\ Cong(q, y, a)
  <2>1. n = q * p
    BY <1>1, <1>2
  <2> QED  BY <1>1, <1>2, <1>6, <1>7, <2>1, CongDivisor
<1>9. PICK dp \in Nat, dq \in Nat, i \in Nat :
        /\ dp = k.dp /\ dq = k.dq /\ i = k.qi
        /\ Cong(p - 1, e * dp, 1) /\ Cong(q - 1, e * dq, 1) /\ Cong(p, q * i, 1)
  BY Zenon DEF KeyRight
<1>10. x1 = x % p
  <2>1. mpz_powm(y, dp, p) = x % p
    BY <1>3, <1>4, <1>7, <1>8, <1>9, PowerInverts
  <2> QED  BY <1>9, <2>1, Zenon
<1>11. x2 = x % q
  <2>1. mpz_powm(y, dq, q) = x % q
    BY <1>3, <1>4, <1>7, <1>8, <1>9, PowerInverts
  <2> QED  BY <1>9, <2>1, Zenon
<1>12. Combined(x % p, x % q, i, p, q) = x
  BY <1>1, <1>9, ChineseIs
<1> QED  BY <1>2, <1>6, <1>9, <1>10, <1>11, <1>12, Zenon

-----------------------------------------------------------------------------
(***************************************************************************)
(* The bytes of a number (mpz_import).                                     *)
(***************************************************************************)

\* The values of the first bytes of s.
ValuesOf(f, s) ==
    /\ f \in [0 .. Len(s) -> Nat] /\ f[0] = 0
    /\ \A i \in 1 .. Len(s) : f[i] = f[i - 1] * ByteMod + s[i]

\* What mpz_import chooses.
IsImport(f, data) ==
    f = [i \in 0 .. Len(data) |-> IF i = 0 THEN 0 ELSE f[i - 1] * ByteMod + data[i]]

\* The function that mpz_import chooses.
LEMMA ImportChosen ==
    ASSUME NEW data
    PROVE  mpz_import(data) = (CHOOSE f : IsImport(f, data))[Len(data)]
BY DEF mpz_import, IsImport

\* Bytes are natural numbers.
LEMMA ByteNat ==
    ASSUME NEW s \in Seq(Byte), NEW i \in 1 .. Len(s)
    PROVE  s[i] \in Byte /\ s[i] \in Nat
<1>1. s[i] \in Byte
  BY ElementOf
<1>2. Byte \subseteq Nat
  BY ByteFacts DEF Byte
<1> QED  BY <1>1, <1>2

\* mpz_import is the last value.
LEMMA ImportIs ==
    ASSUME NEW s \in Seq(Byte)
    PROVE  \E f : ValuesOf(f, s) /\ mpz_import(s) = f[Len(s)]
<1>1. PICK n \in Nat : n = Len(s)
  OBVIOUS
<1>2. ByteMod \in Nat
  BY ByteFacts
<1>3. PICK G : G = [i \in 1 .. n |-> [v \in Nat |-> v * ByteMod + s[i]]]
  BY Zenon
<1>4. G \in [1 .. n -> [Nat -> Nat]]
  <2>1. ASSUME NEW i \in 1 .. n, NEW v \in Nat PROVE v * ByteMod + s[i] \in Nat
    <3>1. s[i] \in Nat
      BY <1>1, ByteNat
    <3> QED  BY <1>2, <3>1
  <2> QED  BY <1>3, <2>1
<1>5. PICK g : Recursion(g, n, Nat, 0, G)
  <2>1. 0 \in Nat
    OBVIOUS
  <2> QED  BY <1>4, <2>1, RecursionTo
<1>6. g \in [0 .. n -> Nat] /\ g[0] = 0
  BY <1>5 DEF Recursion
<1>7. ASSUME NEW i \in 1 .. n PROVE g[i] = g[i - 1] * ByteMod + s[i]
  <2>1. g[i - 1] \in Nat
    BY <1>6
  <2>2. g[i] = G[i][g[i - 1]]
    BY <1>5 DEF Recursion
  <2> QED  BY <1>3, <2>1, <2>2
<1>8. IsImport(g, s)
  <2>1. ASSUME NEW i \in 0 .. n
        PROVE  g[i] = IF i = 0 THEN 0 ELSE g[i - 1] * ByteMod + s[i]
    BY <1>6, <1>7
  <2> QED  BY <1>1, <1>6, <2>1 DEF IsImport
<1>9. PICK f : f = CHOOSE h : IsImport(h, s)
  BY Zenon
<1>10. IsImport(f, s)
  BY <1>8, <1>9, Zenon
<1> DEFINE S == {i \in 0 .. n : f[i] = g[i]}
<1>11. f = [i \in 0 .. n |-> IF i = 0 THEN 0 ELSE f[i - 1] * ByteMod + s[i]]
  BY <1>1, <1>10 DEF IsImport
<1>12. 0 \in S
  BY <1>6, <1>11
<1>13. ASSUME NEW i \in 1 .. n, i - 1 \in S PROVE i \in S
  <2>1. i \in 0 .. n /\ i # 0 /\ f[i - 1] = g[i - 1]
    BY <1>13
  <2>2. f[i] = f[i - 1] * ByteMod + s[i]
    BY <1>11, <2>1
  <2> QED  BY <1>7, <2>1, <2>2
<1>14. \A i \in 0 .. n : f[i] = g[i]
  <2> HIDE DEF S
  <2>1. \A i \in 0 .. n : i \in S
    BY <1>12, <1>13, InductionTo
  <2> QED  BY <2>1 DEF S
<1>15. f[n] = g[n]
  BY <1>14
<1>16. ValuesOf(g, s)
  BY <1>1, <1>6, <1>7 DEF ValuesOf
<1>17. mpz_import(s) = f[n]
  BY <1>1, <1>9, ImportChosen, Zenon
<1> QED  BY <1>1, <1>15, <1>16, <1>17, Zenon

\* The values are determined by the bytes.
LEMMA ValuesUnique ==
    ASSUME NEW s \in Seq(Byte), NEW f, NEW g, ValuesOf(f, s), ValuesOf(g, s)
    PROVE  f[Len(s)] = g[Len(s)]
<1>1. PICK n \in Nat : n = Len(s)
  OBVIOUS
<1> DEFINE S == {i \in 0 .. n : f[i] = g[i]}
<1>2. 0 \in S
  BY DEF ValuesOf
<1>3. ASSUME NEW i \in 1 .. n, i - 1 \in S PROVE i \in S
  <2>1. f[i] = f[i - 1] * ByteMod + s[i] /\ g[i] = g[i - 1] * ByteMod + s[i]
    BY <1>1 DEF ValuesOf
  <2>2. f[i - 1] = g[i - 1] /\ i \in 0 .. n
    BY <1>3
  <2> QED  BY <2>1, <2>2
<1>4. n \in S
  <2> HIDE DEF S
  <2>1. \A i \in 0 .. n : i \in S
    BY <1>2, <1>3, InductionTo
  <2> QED  BY <2>1
<1> QED  BY <1>1, <1>4

\* mpz_import, from any function that has the values.
LEMMA ImportBy ==
    ASSUME NEW s \in Seq(Byte), NEW g, ValuesOf(g, s)
    PROVE  mpz_import(s) = g[Len(s)]
<1>1. PICK f : ValuesOf(f, s) /\ mpz_import(s) = f[Len(s)]
  BY ImportIs
<1>2. f[Len(s)] = g[Len(s)]
  BY <1>1, ValuesUnique
<1> QED  BY <1>1, <1>2, Zenon

\* Sequences with the same length and elements are equal.
LEMMA SameSeqs ==
    ASSUME NEW S, NEW s \in Seq(S), NEW t \in Seq(S), Len(s) = Len(t),
           \A i \in 1 .. Len(s) : s[i] = t[i]
    PROVE  s = t
OBVIOUS

\* Powers of a positive number are positive.
LEMMA PowerPositive ==
    ASSUME NEW x \in Nat, x > 0, NEW e \in Nat
    PROVE  Power(x, e) >= 1
<1> DEFINE S == {i \in 0 .. e : Power(x, i) >= 1}
<1>1. 0 \in S
  <2>1. Power(x, 0) = 1
    BY PowerFacts
  <2> QED  BY <2>1
<1>2. ASSUME NEW i \in 1 .. e, i - 1 \in S PROVE i \in S
  <2>1. PICK a \in Nat : a = Power(x, i - 1) /\ Power(x, i) = a * x
    <3>1. i \in Nat /\ i > 0
      OBVIOUS
    <3> QED  BY <3>1, PowerStep
  <2>2. a >= 1
    BY <1>2, <2>1
  <2>3. a * x >= 1
    BY <2>2
  <2> QED  BY <2>1, <2>3
<1>3. e \in S
  <2> HIDE DEF S
  <2>1. \A i \in 0 .. e : i \in S
    BY <1>1, <1>2, InductionTo
  <2> QED  BY <2>1
<1> QED  BY <1>3

\* Powers grow with the exponent.
LEMMA PowerGrows ==
    ASSUME NEW x \in Nat, x > 0, NEW a \in Nat, NEW b \in Nat, a <= b
    PROVE  Power(x, a) <= Power(x, b)
<1>1. PICK c \in Nat : b = a + c
  <2>1. b - a \in Nat /\ b = a + (b - a)
    OBVIOUS
  <2> QED  BY <2>1
<1>2. PICK u \in Nat, v \in Nat : u = Power(x, a) /\ v = Power(x, c)
  BY PowerFacts
<1>3. v >= 1
  BY <1>2, PowerPositive
<1>4. Power(x, b) = u * v
  BY <1>1, <1>2, PowerAdd
<1>5. u * v >= u * 1
  BY <1>3
<1> QED  BY <1>2, <1>4, <1>5

\* No zero byte in front.
Compact(s) == Len(s) > 0 => s[1] # 0

\* A number has the size that its bytes allow.
LEMMA ImportBounds ==
    ASSUME NEW s \in Seq(Byte)
    PROVE  /\ mpz_import(s) \in Nat
           /\ mpz_import(s) < Power(ByteMod, Len(s))
           /\ Len(s) > 0 /\ Compact(s) => mpz_import(s) >= Power(ByteMod, Len(s) - 1)
<1>1. PICK n \in Nat : n = Len(s)
  OBVIOUS
<1>2. PICK f : ValuesOf(f, s) /\ mpz_import(s) = f[n]
  BY <1>1, ImportIs
<1>3. /\ f \in [0 .. n -> Nat] /\ f[0] = 0
      /\ \A i \in 1 .. n : f[i] = f[i - 1] * ByteMod + s[i]
  BY <1>1, <1>2 DEF ValuesOf
<1>4. ByteMod \in Nat /\ ByteMod > 0
  BY ByteFacts
<1>5. ASSUME NEW i \in 1 .. n PROVE s[i] \in 0 .. ByteMod - 1
  BY <1>1, ByteNat DEF Byte
<1> DEFINE S == {i \in 0 .. n : f[i] < Power(ByteMod, i)}
           T == {i \in 0 .. n : i = 0 \/ f[i] >= Power(ByteMod, i - 1)}
<1>6. 0 \in S
  <2>1. Power(ByteMod, 0) = 1
    BY <1>4, PowerFacts
  <2> QED  BY <1>3, <2>1
<1>7. ASSUME NEW i \in 1 .. n, i - 1 \in S PROVE i \in S
  <2>1. PICK a \in Nat : a = Power(ByteMod, i - 1) /\ Power(ByteMod, i) = a * ByteMod
    <3>1. i \in Nat /\ i > 0
      OBVIOUS
    <3> QED  BY <1>4, <3>1, PowerStep
  <2>2. PICK v \in Nat : v = f[i - 1]
    BY <1>3
  <2>3. v <= a - 1
    BY <1>7, <2>1, <2>2
  <2>4. v * ByteMod <= (a - 1) * ByteMod
    BY <1>4, <2>3
  <2>5. (a - 1) * ByteMod = a * ByteMod - ByteMod /\ v * ByteMod \in Nat /\ a * ByteMod \in Nat
    BY <1>4
  <2>6. f[i] = v * ByteMod + s[i] /\ s[i] \in 0 .. ByteMod - 1
    BY <1>3, <1>5, <2>2
  <2>7. f[i] < a * ByteMod
    BY <1>4, <2>4, <2>5, <2>6
  <2> QED  BY <2>1, <2>7
<1>8. f[n] < Power(ByteMod, n)
  <2> HIDE DEF S
  <2>1. \A i \in 0 .. n : i \in S
    BY <1>6, <1>7, InductionTo
  <2> QED  BY <2>1 DEF S
<1>9. ASSUME n > 0, Compact(s) PROVE f[n] >= Power(ByteMod, n - 1)
  <2>1. 0 \in T
    OBVIOUS
  <2>2. ASSUME NEW i \in 1 .. n, i - 1 \in T PROVE i \in T
    <3>1. CASE i = 1
      <4>1. s[1] # 0 /\ s[1] \in 0 .. ByteMod - 1
        BY <1>1, <1>5, <1>9 DEF Compact
      <4>2. f[1] = 0 * ByteMod + s[1]
        BY <1>3, <3>1
      <4>3. f[1] >= 1
        BY <1>4, <4>1, <4>2
      <4>4. Power(ByteMod, 0) = 1
        BY <1>4, PowerFacts
      <4> QED  BY <3>1, <4>3, <4>4
    <3>2. CASE i # 1
      <4>1. PICK j \in Nat : j = i - 1 /\ j > 0
        BY <3>2
      <4>2. PICK a \in Nat : a = Power(ByteMod, j - 1) /\ Power(ByteMod, j) = a * ByteMod
        BY <1>4, <4>1, PowerStep
      <4>3. PICK v \in Nat : v = f[j]
        BY <1>3, <4>1
      <4>4. v >= a
        BY <2>2, <4>1, <4>2, <4>3
      <4>5. v * ByteMod >= a * ByteMod
        BY <1>4, <4>4
      <4>6. f[i] = v * ByteMod + s[i] /\ s[i] \in 0 .. ByteMod - 1
        BY <1>3, <1>5, <4>1, <4>3
      <4>7. v * ByteMod \in Nat /\ a * ByteMod \in Nat
        BY <1>4
      <4>8. f[i] >= a * ByteMod
        BY <1>4, <4>5, <4>6, <4>7
      <4> QED  BY <4>1, <4>2, <4>8
    <3> QED  BY <3>1, <3>2
  <2>3. n \in T
    <3> HIDE DEF T
    <3>1. \A i \in 0 .. n : i \in T
      BY <2>1, <2>2, InductionTo
    <3> QED  BY <3>1
  <2> QED  BY <1>9, <2>3
<1>10. f[n] \in Nat
  BY <1>3
<1> QED  BY <1>1, <1>2, <1>8, <1>9, <1>10

\* Fewer bytes make a smaller number.
LEMMA ShorterSmaller ==
    ASSUME NEW x \in Seq(Byte), NEW y \in Seq(Byte), Compact(y), Len(x) < Len(y)
    PROVE  mpz_import(x) < mpz_import(y)
<1>0. ByteMod \in Nat /\ ByteMod > 0
  BY ByteFacts
<1>1. PICK m \in Nat, n \in Nat : m = Len(x) /\ n = Len(y) - 1 /\ m <= n
  <2>1. Len(x) \in Nat /\ Len(y) \in Nat
    OBVIOUS
  <2>2. Len(y) - 1 \in Nat /\ Len(x) <= Len(y) - 1
    BY <2>1
  <2> QED  BY <2>1, <2>2
<1>2. PICK a \in Nat, b \in Nat : a = Power(ByteMod, m) /\ b = Power(ByteMod, n)
  BY <1>0, PowerFacts
<1>3. a <= b
  BY <1>0, <1>1, <1>2, PowerGrows
<1>4. PICK u \in Nat, v \in Nat : u = mpz_import(x) /\ v = mpz_import(y)
  BY ImportBounds
<1>5. u < a
  BY <1>1, <1>2, <1>4, ImportBounds
<1>6. v >= b
  <2>1. Len(y) > 0
    BY <1>1
  <2> QED  BY <1>1, <1>2, <1>4, <2>1, ImportBounds
<1> QED  BY <1>3, <1>4, <1>5, <1>6

\* The bytes of a number, the highest one first, are unique.
LEMMA ImportInjective ==
    ASSUME NEW s \in Seq(Byte), NEW t \in Seq(Byte), Compact(s), Compact(t),
           mpz_import(s) = mpz_import(t)
    PROVE  s = t
<1>1. ByteMod \in Nat /\ ByteMod > 0
  BY ByteFacts
<1>3. Len(s) = Len(t)
  <2>1. mpz_import(s) \in Nat
    BY ImportBounds
  <2>2. ~(Len(s) < Len(t))
    BY <2>1, ShorterSmaller
  <2>3. ~(Len(t) < Len(s))
    BY <2>1, ShorterSmaller
  <2> QED  BY <2>2, <2>3
<1>4. PICK n \in Nat : n = Len(s) /\ n = Len(t)
  BY <1>3
<1>5. PICK f : ValuesOf(f, s) /\ mpz_import(s) = f[n]
  BY <1>4, ImportIs
<1>6. PICK g : ValuesOf(g, t) /\ mpz_import(t) = g[n]
  BY <1>4, ImportIs
<1>7. ASSUME NEW i \in 1 .. n, f[i] = g[i] PROVE f[i - 1] = g[i - 1] /\ s[i] = t[i]
  <2>1. PICK u \in Nat, v \in Nat : u = f[i - 1] /\ v = g[i - 1]
    <3>1. f \in [0 .. n -> Nat] /\ g \in [0 .. n -> Nat] /\ i - 1 \in 0 .. n
      BY <1>4, <1>5, <1>6 DEF ValuesOf
    <3> QED  BY <3>1
  <2>2. PICK a \in 0 .. ByteMod - 1, b \in 0 .. ByteMod - 1 : a = s[i] /\ b = t[i]
    BY <1>4, ByteNat DEF Byte
  <2>3. f[i] = u * ByteMod + a /\ g[i] = v * ByteMod + b
    BY <1>4, <1>5, <1>6, <2>1, <2>2 DEF ValuesOf
  <2>4. ByteMod * u + a = ByteMod * v + b
    <3>1. u * ByteMod + a = v * ByteMod + b
      BY <1>7, <2>3
    <3>2. u * ByteMod = ByteMod * u /\ v * ByteMod = ByteMod * v
      BY <1>1
    <3> QED  BY <3>1, <3>2, Zenon
  <2>5. /\ (ByteMod * u + a) \div ByteMod = u /\ (ByteMod * u + a) % ByteMod = a
        /\ (ByteMod * v + b) \div ByteMod = v /\ (ByteMod * v + b) % ByteMod = b
    <3>1. u \in Int /\ v \in Int
      OBVIOUS
    <3> QED  BY <1>1, <3>1, DivModUnique
  <2>6. u = v /\ a = b
    BY <2>4, <2>5, Zenon
  <2> QED  BY <2>1, <2>2, <2>6
<1> DEFINE S == {i \in 0 .. n : f[n - i] = g[n - i]}
<1>8. 0 \in S
  <2>1. n - 0 = n /\ 0 \in 0 .. n
    OBVIOUS
  <2>2. f[n] = g[n]
    BY <1>5, <1>6, Zenon
  <2> QED  BY <2>1, <2>2
<1>9. ASSUME NEW i \in 1 .. n, i - 1 \in S PROVE i \in S
  <2>1. PICK j \in 1 .. n : j = n - (i - 1)
    OBVIOUS
  <2>2. f[j] = g[j]
    BY <1>9, <2>1
  <2>3. n - i = j - 1
    BY <2>1
  <2> QED  BY <1>7, <2>2, <2>3
<1>10. \A i \in 0 .. n : i \in S
  <2> HIDE DEF S
  <2> QED  BY <1>8, <1>9, InductionTo
<1>11. ASSUME NEW k \in 1 .. n PROVE s[k] = t[k]
  <2>1. PICK i \in 0 .. n : i = n - k /\ n - i = k
    <3>1. n - k \in 0 .. n /\ n - (n - k) = k
      OBVIOUS
    <3> QED  BY <3>1
  <2>2. f[k] = g[k]
    BY <1>10, <2>1
  <2> QED  BY <1>7, <2>2
<1> QED  BY <1>4, <1>11, SameSeqs

-----------------------------------------------------------------------------
(***************************************************************************)
(* Leading zeros, and the bytes that mpz_export writes.                    *)
(***************************************************************************)

\* Where the significant bytes begin.
LEMMA SignificantIs ==
    ASSUME NEW s \in Seq(Byte)
    PROVE  \/ Significant(s) = <<>> /\ \A i \in 1 .. Len(s) : s[i] = 0
           \/ \E z \in 1 .. Len(s) :
                /\ Significant(s) = SubSeq(s, z, Len(s)) /\ s[z] # 0
                /\ \A i \in 1 .. z - 1 : s[i] = 0
<1> DEFINE I == {i \in 1 .. Len(s) : s[i] # 0}
<1>1. PICK z : z = SelectInSeq(s, LAMBDA b : b # 0)
  BY Zenon
<1>2. z = IF I # {} THEN Min(I) ELSE 0
  BY <1>1 DEF SelectInSeq
<1>3. Significant(s) = IF z = 0 THEN <<>> ELSE SubSeq(s, z, Len(s))
  BY <1>1 DEF Significant
<1>4. CASE I = {}
  BY <1>2, <1>3, <1>4
<1>5. CASE I # {}
  <2>1. I \subseteq Nat
    OBVIOUS
  <2>2. z \in I /\ \A j \in I : z <= j
    BY <1>2, <1>5, <2>1, LeastElement DEF Min
  <2>3. z \in 1 .. Len(s) /\ s[z] # 0 /\ z # 0
    BY <2>2
  <2>4. ASSUME NEW i \in 1 .. z - 1 PROVE s[i] = 0
    BY <2>2, <2>3
  <2> QED  BY <1>3, <2>3, <2>4
<1> QED  BY <1>4, <1>5

\* Leading zeros do not count.
LEMMA SignificantFacts ==
    ASSUME NEW s \in Seq(Byte)
    PROVE  /\ Significant(s) \in Seq(Byte) /\ Compact(Significant(s))
           /\ mpz_import(Significant(s)) = mpz_import(s)
<1>1. PICK n \in Nat : n = Len(s)
  OBVIOUS
<1>2. PICK f : ValuesOf(f, s) /\ mpz_import(s) = f[n]
  BY <1>1, ImportIs
<1>3. /\ f \in [0 .. n -> Nat] /\ f[0] = 0
      /\ \A i \in 1 .. n : f[i] = f[i - 1] * ByteMod + s[i]
  BY <1>1, <1>2 DEF ValuesOf
<1>4. ByteMod \in Nat
  BY ByteFacts
<1>5. ASSUME NEW k \in 0 .. n, \A i \in 1 .. k : s[i] = 0 PROVE f[k] = 0
  <2> DEFINE S == {i \in 0 .. k : f[i] = 0}
  <2>1. 0 \in S
    BY <1>3
  <2>2. ASSUME NEW i \in 1 .. k, i - 1 \in S PROVE i \in S
    <3>1. f[i] = f[i - 1] * ByteMod + s[i] /\ f[i - 1] = 0 /\ s[i] = 0
      BY <1>3, <1>5, <2>2
    <3>2. 0 * ByteMod + 0 = 0
      BY <1>4
    <3>3. f[i] = 0
      BY <3>1, <3>2
    <3> QED  BY <3>3
  <2>3. k \in S
    <3> HIDE DEF S
    <3>1. \A i \in 0 .. k : i \in S
      BY <2>1, <2>2, InductionTo
    <3> QED  BY <3>1
  <2> QED  BY <2>3
<1>6. CASE Significant(s) = <<>> /\ \A i \in 1 .. n : s[i] = 0
  <2>1. f[n] = 0
    BY <1>5, <1>6
  <2>2. PICK e : e = <<>>
    BY Zenon
  <2>3. e \in Seq(Byte) /\ Len(e) = 0
    BY <2>2
  <2>4. Compact(e)
    BY <2>3 DEF Compact
  <2>5. PICK g : ValuesOf(g, e) /\ mpz_import(e) = g[0]
    BY <2>3, ImportIs
  <2>6. mpz_import(e) = 0
    BY <2>5 DEF ValuesOf
  <2> QED  BY <1>2, <1>6, <2>1, <2>2, <2>3, <2>4, <2>6
<1>7. CASE \E z \in 1 .. n :
             /\ Significant(s) = SubSeq(s, z, n) /\ s[z] # 0
             /\ \A i \in 1 .. z - 1 : s[i] = 0
  <2>1. PICK z \in 1 .. n :
          /\ Significant(s) = SubSeq(s, z, n) /\ s[z] # 0
          /\ \A i \in 1 .. z - 1 : s[i] = 0
    BY <1>7
  <2>2. PICK t : t = Significant(s)
    BY Zenon
  <2>3. Part(t, Byte, s, z, n)
    <3>1. z \in Nat /\ 1 <= z /\ z <= n + 1 /\ n <= Len(s)
      BY <1>1
    <3> QED  BY <2>1, <2>2, <3>1, PartFacts
  <2>4. PICK m \in Nat : m = n - z + 1 /\ m > 0
    OBVIOUS
  <2>5. t \in Seq(Byte) /\ Len(t) = m /\ \A i \in 1 .. m : t[i] = s[z + i - 1]
    BY <2>3, <2>4 DEF Part
  <2>6. Compact(t)
    <3>1. t[1] = s[z]
      <4>1. 1 \in 1 .. m /\ z + 1 - 1 = z
        BY <2>4
      <4> QED  BY <2>5, <4>1
    <3> QED  BY <2>1, <3>1 DEF Compact
  <2>7. PICK g : g = [i \in 0 .. m |-> f[(z - 1) + i]]
    BY Zenon
  <2>8. ValuesOf(g, t)
    <3>1. ASSUME NEW i \in 0 .. m PROVE f[(z - 1) + i] \in Nat
      <4>1. (z - 1) + i \in 0 .. n
        BY <2>4
      <4> QED  BY <1>3, <4>1
    <3>2. g \in [0 .. m -> Nat]
      BY <2>7, <3>1
    <3>3. g[0] = 0
      <4>1. z - 1 \in 0 .. n /\ (z - 1) + 0 = z - 1 /\ 0 \in 0 .. m
        OBVIOUS
      <4>2. f[z - 1] = 0
        BY <1>5, <2>1, <4>1
      <4> QED  BY <2>7, <4>1, <4>2
    <3>4. ASSUME NEW i \in 1 .. m PROVE g[i] = g[i - 1] * ByteMod + t[i]
      <4>1. PICK k \in 1 .. n : k = z + i - 1
        BY <2>4
      <4>2. i \in 0 .. m /\ i - 1 \in 0 .. m /\ (z - 1) + i = k /\ (z - 1) + (i - 1) = k - 1
        BY <4>1
      <4>3. g[i] = f[k] /\ g[i - 1] = f[k - 1]
        BY <2>7, <4>2
      <4>4. t[i] = s[k]
        BY <2>5, <4>1
      <4>5. f[k] = f[k - 1] * ByteMod + s[k]
        BY <1>3
      <4> QED  BY <4>3, <4>4, <4>5
    <3> QED  BY <2>5, <3>2, <3>3, <3>4 DEF ValuesOf
  <2>9. mpz_import(t) = g[m]
    BY <2>5, <2>8, ImportBy
  <2>10. g[m] = f[n]
    <3>1. (z - 1) + m = n /\ m \in 0 .. m
      BY <2>4
    <3> QED  BY <2>7, <3>1
  <2> QED  BY <1>2, <2>2, <2>5, <2>6, <2>9, <2>10
<1> QED  BY <1>1, <1>6, <1>7, SignificantIs

\* Four bytes, as a number.
LEMMA ImportBigEndian ==
    ASSUME NEW v \in 0 .. U32 - 1
    PROVE  BigEndian(v) \in Seq(Byte) /\ mpz_import(BigEndian(v)) = v
<1>1. PICK x : x = BigEndian(v)
  BY Zenon
<1>2. x \in Seq(Byte) /\ decode_u32_be(x, 0) = v
  BY <1>1, DecodeU32Be
<1>3. Len(x) = 4
  <2>1. v \in Int
    BY ByteFacts
  <2>2. PICK w : w = encode_u32_le(v)
    BY Zenon
  <2>3. w \in Seq(Byte) /\ Len(w) = 4
    BY <2>1, <2>2, EncodeU32
  <2>4. x = [i \in 1 .. 4 |-> w[(4 - i) + 1]]
    BY <1>1, <2>2, <2>3 DEF BigEndian, Reverse
  <2> QED  BY <2>4
<1>4. PICK a \in Nat, b \in Nat, c \in Nat, d \in Nat :
        a = x[1] /\ b = x[2] /\ c = x[3] /\ d = x[4]
  <2>1. x[1] \in Nat /\ x[2] \in Nat /\ x[3] \in Nat /\ x[4] \in Nat
    <3>1. 1 \in 1 .. Len(x) /\ 2 \in 1 .. Len(x) /\ 3 \in 1 .. Len(x) /\ 4 \in 1 .. Len(x)
      BY <1>3
    <3> QED  BY <1>2, <3>1, ByteNat
  <2> QED  BY <2>1
<1>5. ByteMod \in Nat /\ U16 = ByteMod * ByteMod
  BY ByteFacts
<1>6. v = d + ByteMod * c + U16 * (b + ByteMod * a)
  <2>1. ByteAt(x, 0) = a /\ ByteAt(x, 0 + 1) = b /\ ByteAt(x, 0 + 2) = c /\ ByteAt(x, 0 + 3) = d
    BY <1>3, <1>4 DEF ByteAt
  <2> QED  BY <1>2, <2>1, Zenon DEF decode_u32_be
<1>7. PICK f : ValuesOf(f, x) /\ mpz_import(x) = f[4]
  BY <1>2, <1>3, ImportIs
<1>8. /\ f[0] = 0
      /\ f[1] = f[0] * ByteMod + a
      /\ f[2] = f[1] * ByteMod + b
      /\ f[3] = f[2] * ByteMod + c
      /\ f[4] = f[3] * ByteMod + d
  BY <1>3, <1>4, <1>7 DEF ValuesOf
<1>9. f[1] = a
  BY <1>5, <1>8
<1>10. f[4] = ((a * ByteMod + b) * ByteMod + c) * ByteMod + d
  BY <1>8, <1>9, Zenon
<1>11. ((a * ByteMod + b) * ByteMod + c) * ByteMod + d
         = d + ByteMod * c + (ByteMod * ByteMod) * (b + ByteMod * a)
  BY <1>5
<1> QED  BY <1>1, <1>2, <1>5, <1>6, <1>7, <1>10, <1>11, Zenon

\* What mpz_export writes reads back as the number.
LEMMA ExportFacts ==
    ASSUME NEW v \in 0 .. U32 - 1
    PROVE  /\ mpz_export(v) \in Seq(Byte) /\ Compact(mpz_export(v))
           /\ mpz_import(mpz_export(v)) = v
BY ImportBigEndian, SignificantFacts DEF mpz_export

\* Reading bytes and writing them drops the leading zeros.
LEMMA ExportImport ==
    ASSUME NEW s \in Seq(Byte), mpz_import(s) < U32
    PROVE  mpz_export(mpz_import(s)) = Significant(s)
<1>1. PICK v \in Nat : v = mpz_import(s)
  BY ImportBounds
<1>2. v \in 0 .. U32 - 1
  BY <1>1, ByteFacts
<1>3. PICK x : x = mpz_export(v)
  BY Zenon
<1>4. x \in Seq(Byte) /\ Compact(x) /\ mpz_import(x) = v
  BY <1>2, <1>3, ExportFacts
<1>5. PICK y : y = Significant(s)
  BY Zenon
<1>6. y \in Seq(Byte) /\ Compact(y) /\ mpz_import(y) = v
  BY <1>1, <1>5, SignificantFacts
<1>7. x = y
  BY <1>4, <1>6, ImportInjective
<1> QED  BY <1>1, <1>3, <1>5, <1>7, Zenon

\* A smaller number has no more bytes, and fewer bytes make a smaller number.
LEMMA SizesFollow ==
    ASSUME NEW n \in 1 .. U32 - 1
    PROVE  /\ Len(mpz_export(n)) \in Nat
           /\ \A v \in 0 .. n - 1 : Len(mpz_export(v)) <= Len(mpz_export(n))
           /\ \A s \in Seq(Byte) : Len(s) < Len(mpz_export(n)) => mpz_import(s) < n
<1>0. U32 \in Nat /\ ByteMod \in Nat /\ ByteMod > 0 /\ n \in 0 .. U32 - 1
  BY ByteFacts
<1>1. PICK x : x = mpz_export(n)
  BY Zenon
<1>2. x \in Seq(Byte) /\ Compact(x) /\ mpz_import(x) = n
  BY <1>0, <1>1, ExportFacts
<1>4. ASSUME NEW v \in 0 .. n - 1 PROVE Len(mpz_export(v)) <= Len(x)
  <2>1. v \in 0 .. U32 - 1
    BY <1>0
  <2>2. PICK y : y = mpz_export(v)
    BY Zenon
  <2>3. y \in Seq(Byte) /\ Compact(y) /\ mpz_import(y) = v
    BY <2>1, <2>2, ExportFacts
  <2>4. ~(Len(x) < Len(y))
    <3>1. ASSUME Len(x) < Len(y) PROVE FALSE
      <4>1. mpz_import(x) < mpz_import(y)
        BY <1>2, <2>3, <3>1, ShorterSmaller
      <4>2. n < v
        BY <1>2, <2>3, <4>1
      <4> QED  BY <4>2
    <3> QED  BY <3>1
  <2>5. Len(x) \in Nat /\ Len(y) \in Nat
    BY <1>2, <2>3
  <2> QED  BY <2>2, <2>4, <2>5
<1>5. ASSUME NEW s \in Seq(Byte), Len(s) < Len(x) PROVE mpz_import(s) < n
  BY <1>2, <1>5, ShorterSmaller
<1>6. Len(x) \in Nat
  BY <1>2
<1> QED  BY <1>1, <1>4, <1>5, <1>6

-----------------------------------------------------------------------------
(***************************************************************************)
(* Every message comes back.                                               *)
(***************************************************************************)

\* What ctx holds: no key, or the numbers of one that was accepted.
KeyHeld ==
    \/ ctx = NoKey
    \/ \E p, q \in Primes, e \in Exponents : p # q /\ KeyRight(p, q, e, ctx)

\* The primes of the model are odd primes.
LEMMA PrimesPrime ==
    ASSUME NEW p \in Primes
    PROVE  Prime(p) /\ p > 2
BY RsaAssumption DEF Prime

\* Every call keeps it.
LEMMA KeyNext == KeyHeld /\ [RsaNext]_ctx => KeyHeld'
<1>1. ASSUME KeyHeld, UNCHANGED ctx PROVE KeyHeld'
  BY <1>1 DEF KeyHeld
<1>2. ASSUME NEW p \in Primes, NEW q \in Primes, NEW e \in Exponents, p # q,
             tibia_rsa_init(p, q, e)
      PROVE  KeyHeld'
  <2>1. CASE Accepted(p, q, e)
    <3>1. ctx' = rsa_setkey(p, q, e)
      BY <1>2, <2>1 DEF tibia_rsa_init
    <3>2. e \in Nat
      BY RsaAssumption
    <3>3. KeyRight(p, q, e, rsa_setkey(p, q, e))
      BY <1>2, <2>1, <3>2, PrimesPrime, SetKeyRight
    <3>4. KeyRight(p, q, e, ctx')
      BY <3>1, <3>3, Zenon
    <3> QED  BY <1>2, <3>4, Zenon DEF KeyHeld
  <2>2. CASE ~Accepted(p, q, e)
    BY <1>2, <2>2 DEF tibia_rsa_init, KeyHeld
  <2> QED  BY <2>1, <2>2
<1>3. ASSUME tibia_rsa_shutdown PROVE KeyHeld'
  BY <1>3 DEF tibia_rsa_shutdown, KeyHeld
<1> QED  BY <1>1, <1>2, <1>3 DEF RsaNext

\* One message, with a key.
LEMMA KeyInverts ==
    ASSUME NEW p \in Primes, NEW q \in Primes, p # q, NEW e \in Exponents,
           KeyRight(p, q, e, ctx), NEW m \in Messages,
           mpz_import(m) < ctx.n \/ Len(m) < ctx.encoding_limit
    PROVE  LET sent == tibia_rsa_encode(m)
           IN  /\ sent.ret
               /\ tibia_rsa_decode(sent.out) = [ret |-> TRUE, out |-> Significant(m)]
<1>1. Prime(p) /\ p > 2 /\ Prime(q) /\ q > 2 /\ p \in Nat /\ q \in Nat
  BY PrimesPrime DEF Prime
<1>2. e \in Nat
  BY RsaAssumption
<1>3. PICK n \in Nat : n = p * q
  <2>1. p * q \in Nat
    BY <1>1
  <2> QED  BY <2>1
<1>4. n \in 1 .. U32 - 1 /\ U32 \in Nat
  <2>1. p * q < U32
    BY RsaAssumption
  <2>2. p * q > 0
    BY <1>1
  <2> QED  BY <1>3, <2>1, <2>2, ByteFacts
<1>5. PICK l \in Nat : l = ctx.encoding_limit /\ l = Len(mpz_export(n))
  <2>1. Len(mpz_export(n)) \in Nat
    BY <1>4, SizesFollow
  <2>2. ctx.encoding_limit = Len(mpz_export(n))
    BY <1>3, Zenon DEF KeyRight
  <2> QED  BY <2>1, <2>2
<1>6. ctx.n = n /\ ctx.e = e /\ ctx.p = p /\ ctx.q = q
  BY <1>3, Zenon DEF KeyRight
<1>7. PICK len \in 1 .. l : m \in [1 .. len -> Byte]
  BY <1>5 DEF Messages
<1>8. m \in Seq(Byte) /\ Len(m) = len
  <2>1. len \in Nat
    OBVIOUS
  <2> QED  BY <1>7, <2>1, FunctionIsSeq
<1>9. PICK x \in Nat : x = mpz_import(m)
  BY <1>8, ImportBounds
<1>10. x \in 0 .. n - 1
  <2>1. CASE mpz_import(m) < ctx.n
    BY <1>6, <1>9, <2>1
  <2>2. CASE Len(m) < ctx.encoding_limit
    <3>1. mpz_import(m) < n
      BY <1>4, <1>5, <1>8, <2>2, SizesFollow
    <3> QED  BY <1>9, <3>1
  <2> QED  BY <2>1, <2>2
<1>11. PICK y : y = mpz_powm(x, e, n)
  BY Zenon
<1>12. PICK x1, x2 : x1 = mpz_powm(y, ctx.dp, p) /\ x2 = mpz_powm(y, ctx.dq, q)
  BY Zenon
<1>13. y \in 0 .. n - 1 /\ Combined(x1, x2, ctx.qi, p, q) = x
  <2>1. x \in 0 .. p * q - 1
    BY <1>3, <1>10
  <2>2. y = mpz_powm(x, e, p * q)
    BY <1>3, <1>11, Zenon
  <2>3. PICK k : k = ctx
    BY Zenon
  <2>4. KeyRight(p, q, e, k) /\ x1 = mpz_powm(y, k.dp, p) /\ x2 = mpz_powm(y, k.dq, q)
    BY <1>12, <2>3, Zenon
  <2>5. y \in 0 .. p * q - 1 /\ Combined(x1, x2, k.qi, p, q) = x
    BY <1>1, <1>2, <2>1, <2>2, <2>4, NumbersInvert
  <2> QED  BY <1>3, <2>3, <2>5, Zenon
<1>14. PICK sent : sent = tibia_rsa_encode(m)
  BY Zenon
<1>15. PICK out : out = mpz_export(y)
  BY Zenon
<1>16. sent = [ret |-> TRUE, out |-> out]
  <2>1. ~(ctx.encoding_limit < Len(m))
    BY <1>5, <1>8
  <2>2. rsa_encode(m) = out
    BY <1>6, <1>9, <1>11, <1>15, Zenon DEF rsa_encode
  <2> QED  BY <1>14, <2>1, <2>2, Zenon DEF tibia_rsa_encode
<1>17. sent.ret = TRUE /\ sent.out = out
  BY <1>16
<1>18. y \in 0 .. U32 - 1
  BY <1>4, <1>13
<1>19. out \in Seq(Byte) /\ mpz_import(out) = y /\ Len(out) <= l
  <2>1. Len(out) <= l
    BY <1>4, <1>5, <1>13, <1>15, SizesFollow
  <2> QED  BY <1>15, <1>18, <2>1, ExportFacts
<1>20. rsa_decode(out) = mpz_export(x)
  <2>1. rsa_decode(out) = mpz_export(Combined(x1, x2, ctx.qi, p, q))
    BY <1>6, <1>12, <1>19, Zenon DEF rsa_decode, Combined
  <2> QED  BY <1>13, <2>1, Zenon
<1>21. mpz_export(x) = Significant(m)
  <2>1. mpz_import(m) < U32
    BY <1>4, <1>9, <1>10
  <2> QED  BY <1>8, <1>9, <2>1, ExportImport
<1>22. tibia_rsa_decode(out) = [ret |-> TRUE, out |-> Significant(m)]
  <2>1. ~(ctx.encoding_limit < Len(out))
    <3>1. Len(out) \in Nat
      BY <1>19
    <3> QED  BY <1>5, <1>19, <3>1
  <2> QED  BY <1>20, <1>21, <2>1, Zenon DEF tibia_rsa_decode
<1> QED  BY <1>14, <1>17, <1>22, Zenon

\* Decoding what was encoded gives the message back (tibia_rsa.c, crypto/
\* rsa.c), with every two different primes and every exponent that rsa_setkey
\* accepts: the key has the inverses it needs, Fermat's theorem gives back the
\* message modulo each prime, and the two parts are put together to the only
\* number below n that has both remainders.
THEOREM RsaExact == RsaInit /\ [][RsaNext]_ctx => []RsaInverts
<1>1. RsaInit => KeyHeld
  BY DEF RsaInit, KeyHeld
<1>2. KeyHeld => RsaInverts
  <2>1. CASE ctx = NoKey
    <3>1. ctx.encoding_limit = 0
      BY <2>1 DEF NoKey
    <3>2. ASSUME NEW b \in Byte
          PROVE  ~tibia_rsa_encode(<<b>>).ret /\ ~tibia_rsa_decode(<<b>>).ret
      <4>1. ctx.encoding_limit < Len(<<b>>)
        BY <3>1
      <4>2. PICK d : d = <<b>>
        BY Zenon
      <4>3. tibia_rsa_encode(d) = [ret |-> FALSE, out |-> d]
            /\ tibia_rsa_decode(d) = [ret |-> FALSE, out |-> d]
        BY <4>1, <4>2, Zenon DEF tibia_rsa_encode, tibia_rsa_decode
      <4>4. tibia_rsa_encode(d).ret = FALSE /\ tibia_rsa_decode(d).ret = FALSE
        BY <4>3
      <4> QED  BY <4>2, <4>4, Zenon
    <3> QED  BY <2>1, <3>2, Zenon DEF RsaInverts
  <2>2. ASSUME KeyHeld, ctx # NoKey PROVE RsaInverts
    <3>1. PICK p \in Primes, q \in Primes, e \in Exponents : p # q /\ KeyRight(p, q, e, ctx)
      BY <2>2, Zenon DEF KeyHeld
    <3>2. ASSUME NEW m \in Messages, mpz_import(m) < ctx.n \/ Len(m) < ctx.encoding_limit
          PROVE  LET sent == tibia_rsa_encode(m)
                 IN  /\ sent.ret
                     /\ tibia_rsa_decode(sent.out) = [ret |-> TRUE, out |-> Significant(m)]
      BY <3>1, <3>2, KeyInverts, Zenon
    <3> QED  BY <2>2, <3>2, Zenon DEF RsaInverts
  <2> QED  BY <2>1, <2>2
<1> QED  BY <1>1, <1>2, KeyNext, PTL

-----------------------------------------------------------------------------
(***************************************************************************)
(* The red-black tree: the loops that follow pointers.                     *)
(***************************************************************************)

\* The loop ends: the rank of the node goes down.
Descends(next, rank, N) ==
    /\ next \in [Nodes -> Nodes \cup {NULL}]
    /\ rank \in [Nodes -> 0 .. N]
    /\ \A x \in Nodes : next[x] # NULL => rank[next[x]] < rank[x]

\* g is what the loop computes from the nodes up to rank k.
Follows(g, next, rank, k) ==
    /\ g \in [Nodes -> Nodes]
    /\ \A x \in Nodes : rank[x] <= k => g[x] = IF next[x] = NULL THEN x ELSE g[next[x]]

\* There is a function with the equation of the loop.
LEMMA FollowsExist ==
    ASSUME NEW next, NEW rank, NEW N \in Nat, Descends(next, rank, N)
    PROVE  \E g : Follows(g, next, rank, N)
<1> DEFINE S == {k \in 0 .. N : \E g : Follows(g, next, rank, k)}
<1>1. 0 \in S
  <2>1. PICK g : g = [x \in Nodes |-> x]
    BY Zenon
  <2>2. ASSUME NEW x \in Nodes, rank[x] <= 0 PROVE next[x] = NULL
    BY <2>2 DEF Descends
  <2>3. Follows(g, next, rank, 0)
    BY <2>1, <2>2 DEF Follows
  <2> QED  BY <2>3
<1>2. ASSUME NEW k \in 1 .. N, k - 1 \in S PROVE k \in S
  <2>1. PICK g : Follows(g, next, rank, k - 1)
    BY <1>2
  <2>3. PICK e : e = [x \in Nodes |-> IF rank[x] <= k - 1 THEN g[x]
                                      ELSE IF next[x] = NULL THEN x ELSE g[next[x]]]
    BY Zenon
  <2>4. e \in [Nodes -> Nodes]
    BY <2>1, <2>3 DEF Follows, Descends
  <2>5. ASSUME NEW x \in Nodes, rank[x] <= k
        PROVE  e[x] = IF next[x] = NULL THEN x ELSE e[next[x]]
    <3>1. next[x] # NULL => next[x] \in Nodes /\ rank[next[x]] <= k - 1
      BY <2>5 DEF Descends
    <3>2. next[x] # NULL => e[next[x]] = g[next[x]]
      BY <2>3, <3>1
    <3>3. rank[x] <= k - 1 => g[x] = IF next[x] = NULL THEN x ELSE g[next[x]]
      BY <2>1 DEF Follows
    <3> QED  BY <2>3, <3>2, <3>3
  <2>6. Follows(e, next, rank, k)
    BY <2>4, <2>5 DEF Follows
  <2> QED  BY <2>6
<1> HIDE DEF S
<1>3. \A i \in 0 .. N : i \in S
  BY <1>1, <1>2, InductionTo
<1> USE DEF S
<1> QED  BY <1>3

\* A set of nodes that the pointers do not leave holds the last node, too.
LEMMA FollowIn ==
    ASSUME NEW next, NEW rank, NEW N \in Nat, Descends(next, rank, N),
           NEW P \in SUBSET Nodes, NEW n \in P,
           \A x \in P : next[x] # NULL => next[x] \in P
    PROVE  Follow(next, n) \in P /\ next[Follow(next, n)] = NULL
<1> DEFINE End == CHOOSE f : f = [x \in Nodes |-> IF next[x] = NULL THEN x ELSE f[next[x]]]
<1>1. Follow(next, n) = End[n]
  BY DEF Follow
<1>2. PICK f : f = End
  BY Zenon
<1>3. f = [x \in Nodes |-> IF next[x] = NULL THEN x ELSE f[next[x]]]
  <2>1. PICK g : Follows(g, next, rank, N)
    BY FollowsExist
  <2>2. g = [x \in Nodes |-> IF next[x] = NULL THEN x ELSE g[next[x]]]
    BY <2>1 DEF Follows, Descends
  <2> QED  BY <1>2, <2>2, Zenon
<1>4. \A x \in Nodes : f[x] = IF next[x] = NULL THEN x ELSE f[next[x]]
  BY <1>3
<1> HIDE DEF End
<1> DEFINE Bad == {x \in P : ~(f[x] \in P /\ next[f[x]] = NULL)}
           Ranks == {rank[x] : x \in Bad}
<1>5. ASSUME Bad # {} PROVE FALSE
  <2>1. Ranks \in SUBSET Nat /\ Ranks # {}
    BY <1>5 DEF Descends
  <2>2. PICK r \in Ranks : \A s \in Ranks : r <= s
    BY <2>1, LeastElement
  <2>3. PICK x \in Bad : rank[x] = r
    BY <2>2
  <2>4. CASE next[x] = NULL
    BY <1>4, <2>4
  <2>5. CASE next[x] # NULL
    <3>1. next[x] \in P /\ f[x] = f[next[x]] /\ rank[next[x]] < rank[x]
      BY <1>4, <2>5 DEF Descends
    <3>2. next[x] \in Bad
      BY <3>1
    <3>3. r <= rank[next[x]] /\ r \in Nat /\ rank[next[x]] \in Nat
      BY <2>1, <2>2, <3>2
    <3> QED  BY <2>3, <3>1, <3>3
  <2> QED  BY <2>4, <2>5
<1> QED  BY <1>1, <1>2, <1>5
-----------------------------------------------------------------------------
(***************************************************************************)
(* The tree: S are its nodes, and f[x] those of the subtree of x.          *)
(***************************************************************************)

\* y lies on side d of x in the order of the keys.
Lies(d, y, x) == IF d = "left" THEN Key[y] < Key[x] ELSE Key[x] < Key[y]

Memory ==
    [root : Nodes \cup {NULL}, cached_min : Nodes \cup {NULL},
     color : [Nodes -> {"RED", "BLACK"}], parent : [Nodes -> Nodes \cup {NULL}],
     kid : [Sides -> [Nodes -> Nodes \cup {NULL}]]]

\* Every node, with the nodes below it, makes up its subtree.
Spans(m, S, f) ==
    /\ f \in [Nodes \cup {NULL} -> SUBSET Nodes]
    /\ f[NULL] = {} /\ f[m.root] = S
    /\ \A x \in Nodes : f[x] = {x} \cup f[m.kid["left"][x]] \cup f[m.kid["right"][x]]

\* Every node stands between those of its subtrees.
Ordered(m, f) ==
    \A x \in Nodes, d \in Sides : \A y \in f[m.kid[d][x]] : Lies(d, y, x)

\* The pointers down and up agree, and lead to no node outside the tree.
Linked(m, S) ==
    /\ m.root # NULL => m.parent[m.root] = NULL
    /\ \A x \in Nodes, d \in Sides :
         m.kid[d][x] # NULL => x \in S /\ m.kid[d][x] \in S /\ m.parent[m.kid[d][x]] = x
    /\ \A x \in S : m.parent[x] = NULL => x = m.root
    /\ \A x \in Nodes :
         m.parent[x] # NULL => /\ x \in S /\ m.parent[x] \in S
                               /\ \E d \in Sides : m.kid[d][m.parent[x]] = x

Tree(m, S, f) ==
    /\ m \in Memory /\ S \in SUBSET Nodes
    /\ Spans(m, S, f) /\ Ordered(m, f) /\ Linked(m, S)

\* The order of the keys, seen from either side.
LEMMA LiesFacts ==
    ASSUME NEW x \in Nodes, NEW y \in Nodes, NEW d \in Sides
    PROVE  /\ Other(d) \in Sides /\ Other(d) # d /\ Other(Other(d)) = d
           /\ Sides = {d, Other(d)}
           /\ ~Lies(d, x, x)
           /\ Lies(d, x, y) <=> Lies(Other(d), y, x)
           /\ ~(Lies(d, x, y) /\ Lies(Other(d), x, y))
           /\ Key[x] # Key[y] => Lies(d, x, y) \/ Lies(Other(d), x, y)
           /\ \A z \in Nodes : Lies(d, x, y) /\ Lies(d, y, z) => Lies(d, x, z)
<1>1. Key[x] \in Int /\ Key[y] \in Int /\ \A z \in Nodes : Key[z] \in Int
  BY KeyAssumption
<1>2. CASE d = "left"
  BY <1>1, <1>2 DEF Lies, Other, Sides
<1>3. CASE d = "right"
  BY <1>1, <1>3 DEF Lies, Other, Sides
<1> QED  BY <1>2, <1>3 DEF Sides

\* The fields, and the parts that the two sides of a node play.
LEMMA TreeFacts ==
    ASSUME NEW m, NEW S, NEW f, Tree(m, S, f), NEW x \in Nodes, NEW d \in Sides
    PROVE  /\ m.kid[d][x] \in Nodes \cup {NULL} /\ m.parent[x] \in Nodes \cup {NULL}
           /\ m.root \in Nodes \cup {NULL}
           /\ f[x] \in SUBSET Nodes /\ f[m.kid[d][x]] \in SUBSET Nodes
           /\ x \in f[x]
           /\ f[x] = {x} \cup f[m.kid[d][x]] \cup f[m.kid[Other(d)][x]]
           /\ \A y \in f[m.kid[d][x]] : Lies(d, y, x)
           /\ x \notin f[m.kid[d][x]]
           /\ f[m.kid[d][x]] \cap f[m.kid[Other(d)][x]] = {}
           /\ f[m.kid[d][x]] # {} => m.kid[d][x] \in Nodes
<1>1. /\ m.kid[d][x] \in Nodes \cup {NULL} /\ m.parent[x] \in Nodes \cup {NULL}
      /\ m.root \in Nodes \cup {NULL} /\ m.kid[Other(d)][x] \in Nodes \cup {NULL}
  BY DEF Tree, Memory, Other, Sides
<1>2. f[x] \in SUBSET Nodes /\ f[m.kid[d][x]] \in SUBSET Nodes /\ f[m.kid[Other(d)][x]] \in SUBSET Nodes
  BY <1>1 DEF Tree, Spans
<1>3. f[x] = {x} \cup f[m.kid["left"][x]] \cup f[m.kid["right"][x]]
  BY DEF Tree, Spans
<1>4. f[x] = {x} \cup f[m.kid[d][x]] \cup f[m.kid[Other(d)][x]]
  BY <1>3 DEF Other, Sides
<1>5. \A e \in Sides : \A y \in f[m.kid[e][x]] : Lies(e, y, x)
  BY DEF Tree, Ordered
<1>6. x \notin f[m.kid[d][x]]
  BY <1>5, LiesFacts
<1>7. ASSUME NEW y \in f[m.kid[d][x]] PROVE y \notin f[m.kid[Other(d)][x]]
  <2>1. y \in Nodes /\ Lies(d, y, x) /\ Other(d) \in Sides
    BY <1>2, <1>5, <1>7, LiesFacts
  <2>2. ~Lies(Other(d), y, x)
    BY <2>1, LiesFacts
  <2> QED  BY <1>5, <2>1, <2>2
<1>8. f[m.kid[d][x]] # {} => m.kid[d][x] # NULL
  BY DEF Tree, Spans
<1> QED  BY <1>1, <1>2, <1>4, <1>5, <1>6, <1>7, <1>8

\* The rank of a node grows with its subtree.
Ranks(f, rank, N) ==
    /\ N \in Nat /\ rank \in [Nodes -> 0 .. N]
    /\ \A x, y \in Nodes : f[y] \subseteq f[x] /\ f[y] # f[x] => rank[y] < rank[x]

\* The subtree of a child.
LEMMA ChildSpan ==
    ASSUME NEW m, NEW S, NEW f, Tree(m, S, f), NEW x \in Nodes, NEW d \in Sides,
           NEW y, y = m.kid[d][x]
    PROVE  f[y] \subseteq f[x] /\ x \in f[x] /\ x \notin f[y]
BY TreeFacts

\* The size of a subtree is a rank.
LEMMA SpanSize ==
    ASSUME NEW f \in [Nodes \cup {NULL} -> SUBSET Nodes]
    PROVE  \E N, rank : Ranks(f, rank, N)
<1>1. PICK N : N = Cardinality(Nodes)
  BY Zenon
<1>2. N \in Nat
  BY <1>1, KeyAssumption, FS_CardinalityType, Zenon
<1>3. PICK rank : rank = [x \in Nodes |-> Cardinality(f[x])]
  BY Zenon
<1>4. ASSUME NEW x \in Nodes PROVE IsFiniteSet(f[x]) /\ Cardinality(f[x]) \in 0 .. N
  <2>1. f[x] \in SUBSET Nodes
    OBVIOUS
  <2>2. IsFiniteSet(f[x]) /\ Cardinality(f[x]) <= N
    BY <1>1, <2>1, KeyAssumption, FS_Subset, Zenon
  <2>3. Cardinality(f[x]) \in Nat
    BY <2>2, FS_CardinalityType, Zenon
  <2> QED  BY <1>2, <2>2, <2>3
<1>5. rank \in [Nodes -> 0 .. N]
  BY <1>3, <1>4
<1>6. ASSUME NEW x \in Nodes, NEW y \in Nodes, f[y] \subseteq f[x], f[y] # f[x]
      PROVE  rank[y] < rank[x]
  <2>1. f[y] \in SUBSET f[x] /\ IsFiniteSet(f[x])
    BY <1>4, <1>6
  <2>2. Cardinality(f[y]) <= Cardinality(f[x]) /\ Cardinality(f[y]) # Cardinality(f[x])
    BY <1>6, <2>1, FS_Subset, Zenon
  <2>3. rank[y] = Cardinality(f[y]) /\ rank[x] = Cardinality(f[x])
    BY <1>3
  <2>4. rank[y] \in Nat /\ rank[x] \in Nat
    BY <1>5
  <2> QED  BY <2>2, <2>3, <2>4
<1> QED  BY <1>2, <1>5, <1>6 DEF Ranks

\* What holds of a node when it holds of its children holds of all nodes.
LEMMA TreeInduction ==
    ASSUME NEW m, NEW S, NEW f, Tree(m, S, f), NEW P,
           \A x \in Nodes :
             (\A d \in Sides : m.kid[d][x] # NULL => m.kid[d][x] \in P) => x \in P
    PROVE  Nodes \subseteq P
<1>0. PICK N, rank : Ranks(f, rank, N)
  BY SpanSize DEF Tree, Spans
<1>1. /\ N \in Nat /\ rank \in [Nodes -> 0 .. N]
      /\ \A x, y \in Nodes : f[y] \subseteq f[x] /\ f[y] # f[x] => rank[y] < rank[x]
  BY <1>0 DEF Ranks
<1> DEFINE Bad == {x \in Nodes : x \notin P}
           Values == {rank[x] : x \in Bad}
<1>2. ASSUME Bad # {} PROVE FALSE
  <2>1. Values \in SUBSET Nat /\ Values # {}
    BY <1>1, <1>2
  <2>2. PICK r \in Values : \A s \in Values : r <= s
    BY <2>1, LeastElement
  <2>3. PICK x \in Bad : rank[x] = r
    BY <2>2
  <2>4. ASSUME NEW d \in Sides, m.kid[d][x] # NULL PROVE m.kid[d][x] \in P
    <3>1. PICK y : y = m.kid[d][x]
      BY Zenon
    <3>2. y \in Nodes
      BY <2>4, <3>1, TreeFacts
    <3>3. f[y] \subseteq f[x] /\ x \in f[x] /\ x \notin f[y]
      BY <3>1, TreeFacts
    <3>4. rank[y] < rank[x]
      BY <1>1, <3>2, <3>3
    <3>5. rank[y] \in Nat /\ rank[x] \in Nat
      BY <1>1, <3>2
    <3>6. y \notin Bad
      <4>1. y \in Bad => r <= rank[y]
        BY <2>2
      <4> QED  BY <2>3, <3>4, <3>5, <4>1
    <3> QED  BY <3>1, <3>2, <3>6
  <2>5. x \in P
    BY <2>4
  <2> QED  BY <2>5
<1> QED  BY <1>2

\* A subtree of a subtree.
LEMMA Within ==
    ASSUME NEW m, NEW S, NEW f, Tree(m, S, f), NEW x \in Nodes, NEW y \in f[x]
    PROVE  y \in Nodes /\ f[y] \subseteq f[x]
<1> DEFINE P == {z \in Nodes : \A w \in f[z] : f[w] \subseteq f[z]}
<1>1. ASSUME NEW z \in Nodes, \A d \in Sides : m.kid[d][z] # NULL => m.kid[d][z] \in P
      PROVE  z \in P
  <2>1. ASSUME NEW w \in f[z] PROVE f[w] \subseteq f[z]
    <3>1. CASE w = z
      BY <3>1
    <3>2. CASE w # z
      <4>1. PICK d \in Sides : w \in f[m.kid[d][z]]
        BY <2>1, <3>2 DEF Tree, Spans, Sides
      <4>2. m.kid[d][z] # NULL
        BY <4>1 DEF Tree, Spans
      <4>3. f[w] \subseteq f[m.kid[d][z]]
        BY <1>1, <4>1, <4>2
      <4> QED  BY <4>3, TreeFacts
    <3> QED  BY <3>1, <3>2
  <2> QED  BY <2>1
<1> HIDE DEF P
<1>2. Nodes \subseteq P
  BY <1>1, TreeInduction
<1> USE DEF P
<1> QED  BY <1>2, TreeFacts DEF Sides

\* The members are those below the root.
LEMMA SpanMembers ==
    ASSUME NEW m, NEW S, NEW f, Tree(m, S, f), NEW x \in Nodes
    PROVE  /\ x \in S => f[x] \subseteq S
           /\ x \notin S => f[x] = {x}
<1>1. ASSUME x \in S PROVE f[x] \subseteq S
  <2>1. m.root \in Nodes
    BY <1>1 DEF Tree, Spans, Memory
  <2>2. f[m.root] = S
    BY DEF Tree, Spans
  <2> QED  BY <1>1, <2>1, <2>2, Within
<1>2. ASSUME x \notin S PROVE f[x] = {x}
  <2>1. m.kid["left"][x] = NULL /\ m.kid["right"][x] = NULL
    BY <1>2 DEF Tree, Linked, Sides
  <2> QED  BY <2>1 DEF Tree, Spans
<1> QED  BY <1>1, <1>2

\* The node above one within a subtree is within it as well.
LEMMA Above ==
    ASSUME NEW m, NEW S, NEW f, Tree(m, S, f), NEW x \in Nodes, NEW y \in f[x], y # x
    PROVE  m.parent[y] \in f[x] /\ x \notin f[y]
<1> DEFINE P == {z \in Nodes : \A w \in f[z] : w # z => m.parent[w] \in f[z]}
<1>1. ASSUME NEW z \in Nodes, \A d \in Sides : m.kid[d][z] # NULL => m.kid[d][z] \in P
      PROVE  z \in P
  <2>1. ASSUME NEW w \in f[z], w # z PROVE m.parent[w] \in f[z]
    <3>1. PICK d \in Sides : w \in f[m.kid[d][z]]
      BY <2>1 DEF Tree, Spans, Sides
    <3>2. m.kid[d][z] # NULL
      BY <3>1 DEF Tree, Spans
    <3>3. CASE w = m.kid[d][z]
      <4>1. m.parent[w] = z
        BY <3>2, <3>3 DEF Tree, Linked
      <4> QED  BY <4>1, TreeFacts
    <3>4. CASE w # m.kid[d][z]
      <4>1. m.parent[w] \in f[m.kid[d][z]]
        BY <1>1, <3>1, <3>2, <3>4
      <4> QED  BY <4>1, TreeFacts
    <3> QED  BY <3>3, <3>4
  <2> QED  BY <2>1
<1> HIDE DEF P
<1>2. Nodes \subseteq P
  BY <1>1, TreeInduction
<1> USE DEF P
<1>3. m.parent[y] \in f[x]
  BY <1>2
<1>4. PICK d \in Sides : y \in f[m.kid[d][x]]
  BY DEF Tree, Spans, Sides
<1>5. PICK k : k = m.kid[d][x]
  BY Zenon
<1>6. k \in Nodes
  BY <1>4, <1>5, TreeFacts
<1>7. f[y] \subseteq f[k]
  BY <1>4, <1>5, <1>6, Within
<1> QED  BY <1>3, <1>5, <1>7, TreeFacts

\* A node outside a subtree lies on one side of all of it.
LEMMA Outside ==
    ASSUME NEW m, NEW S, NEW f, Tree(m, S, f), NEW x \in S, NEW y \in S, y \notin f[x]
    PROVE  \E d \in Sides : \A w \in f[x] : Lies(d, w, y)
<1> DEFINE Apart(u, v) == \E d \in Sides : \A w \in f[u] : Lies(d, w, v)
           P == {z \in Nodes : \A u, v \in f[z] : v \notin f[u] => Apart(u, v)}
<1>1. ASSUME NEW z \in Nodes, \A d \in Sides : m.kid[d][z] # NULL => m.kid[d][z] \in P
      PROVE  z \in P
  <2>1. ASSUME NEW u \in f[z], NEW v \in f[z], v \notin f[u] PROVE Apart(u, v)
    <3>1. u # z
      BY <2>1
    <3>2. PICK d \in Sides : u \in f[m.kid[d][z]]
      BY <3>1 DEF Tree, Spans, Sides
    <3>3. PICK k : k = m.kid[d][z]
      BY Zenon
    <3>4. k \in Nodes /\ k # NULL
      BY <3>2, <3>3, KeyAssumption, TreeFacts
    <3>5. f[u] \subseteq f[k] /\ f[k] \subseteq Nodes /\ v \in Nodes
      BY <3>2, <3>3, <3>4, Within, TreeFacts
    <3>6. \A w \in f[k] : Lies(d, w, z)
      BY <3>3, TreeFacts
    <3>7. CASE v = z
      BY <3>5, <3>6, <3>7
    <3>8. CASE v \in f[k]
      BY <1>1, <2>1, <3>2, <3>3, <3>4, <3>8
    <3>9. CASE v \in f[m.kid[Other(d)][z]]
      <4>1. Other(d) \in Sides
        BY LiesFacts
      <4>2. Lies(Other(d), v, z)
        BY <3>9, <4>1, TreeFacts
      <4>3. Lies(d, z, v)
        BY <3>5, <4>2, LiesFacts
      <4>4. ASSUME NEW w \in f[u] PROVE Lies(d, w, v)
        <5>1. w \in Nodes /\ Lies(d, w, z)
          BY <3>5, <3>6
        <5> QED  BY <3>5, <4>3, <5>1, LiesFacts
      <4> QED  BY <4>4
    <3>10. f[z] = {z} \cup f[k] \cup f[m.kid[Other(d)][z]]
      BY <3>3, TreeFacts
    <3> QED  BY <3>7, <3>8, <3>9, <3>10
  <2> QED  BY <2>1
<1> HIDE DEF P
<1>2. Nodes \subseteq P
  BY <1>1, TreeInduction
<1> USE DEF P
<1>3. m.root \in Nodes /\ f[m.root] = S
  BY DEF Tree, Spans, Memory
<1> QED  BY <1>2, <1>3

\* No two members have the same key.
LEMMA KeysDiffer ==
    ASSUME NEW m, NEW S, NEW f, Tree(m, S, f), NEW x \in S, NEW y \in S, x # y
    PROVE  Key[x] # Key[y]
<1>0. x \in Nodes /\ y \in Nodes /\ x \in f[x]
  BY TreeFacts DEF Tree, Sides
<1>1. CASE y \in f[x]
  <2>1. PICK d \in Sides : y \in f[m.kid[d][x]]
    BY <1>0, <1>1 DEF Tree, Spans, Sides
  <2>2. Lies(d, y, x)
    BY <1>0, <2>1, TreeFacts
  <2> QED  BY <1>0, <2>2, KeyAssumption DEF Lies
<1>2. CASE y \notin f[x]
  <2>1. PICK d \in Sides : Lies(d, x, y)
    BY <1>0, <1>2, Outside
  <2> QED  BY <1>0, <2>1, KeyAssumption DEF Lies
<1> QED  BY <1>1, <1>2

-----------------------------------------------------------------------------
(***************************************************************************)
(* The walks through the tree.                                             *)
(***************************************************************************)

\* A walk down goes from a node to one of its children.
Downward(m, next) ==
    /\ next \in [Nodes -> Nodes \cup {NULL}]
    /\ \A x \in Nodes : next[x] # NULL => \E d \in Sides : next[x] = m.kid[d][x]

\* A walk down ends.
LEMMA DownEnds ==
    ASSUME NEW m, NEW S, NEW f, Tree(m, S, f), NEW next, Downward(m, next)
    PROVE  \E N \in Nat : \E rank : Descends(next, rank, N)
<1>1. PICK N, rank : Ranks(f, rank, N)
  BY SpanSize DEF Tree, Spans
<1>2. ASSUME NEW x \in Nodes, next[x] # NULL PROVE rank[next[x]] < rank[x]
  <2>1. PICK d \in Sides : next[x] = m.kid[d][x]
    BY <1>2 DEF Downward
  <2>2. PICK y : y = next[x]
    BY Zenon
  <2>3. y \in Nodes /\ y = m.kid[d][x]
    BY <1>2, <2>1, <2>2 DEF Downward
  <2>4. f[y] \subseteq f[x] /\ x \in f[x] /\ x \notin f[y]
    BY <2>3, ChildSpan
  <2> QED  BY <1>1, <2>2, <2>3, <2>4 DEF Ranks
<1> QED  BY <1>1, <1>2 DEF Ranks, Descends, Downward

\* A walk up ends.
LEMMA UpEnds ==
    ASSUME NEW m, NEW S, NEW f, Tree(m, S, f), NEW next \in [Nodes -> Nodes \cup {NULL}],
           \A x \in Nodes : next[x] # NULL => next[x] = m.parent[x]
    PROVE  \E N \in Nat : \E rank : Descends(next, rank, N)
<1>1. PICK N, rank : Ranks(f, rank, N)
  BY SpanSize DEF Tree, Spans
<1>2. PICK back : back = [x \in Nodes |-> N - rank[x]]
  BY Zenon
<1>3. back \in [Nodes -> 0 .. N]
  BY <1>1, <1>2 DEF Ranks
<1>4. ASSUME NEW x \in Nodes, next[x] # NULL PROVE back[next[x]] < back[x]
  <2>1. PICK y : y = next[x]
    BY Zenon
  <2>2. y \in Nodes /\ y = m.parent[x] /\ y # NULL
    BY <1>4, <2>1
  <2>3. PICK d \in Sides : m.kid[d][y] = x
    BY <2>2 DEF Tree, Linked
  <2>4. f[x] \subseteq f[y] /\ y \in f[y] /\ y \notin f[x]
    BY <2>2, <2>3, TreeFacts
  <2>5. rank[x] < rank[y] /\ rank[x] \in 0 .. N /\ rank[y] \in 0 .. N /\ N \in Nat
    BY <1>1, <2>2, <2>4 DEF Ranks
  <2>6. back[y] = N - rank[y] /\ back[x] = N - rank[x]
    BY <1>2, <2>2
  <2> QED  BY <2>1, <2>5, <2>6
<1> QED  BY <1>1, <1>3, <1>4 DEF Ranks, Descends

\* z is the last node of the subtree of k to side d.
Extreme(f, k, d, z) ==
    z \in f[k] /\ \A w \in f[k] : w = z \/ Lies(Other(d), w, z)

\* The walk along one side of a subtree ends at its last node to that side.
LEMMA OutermostIsLast ==
    ASSUME NEW m, NEW S, NEW f, Tree(m, S, f), NEW k \in Nodes, NEW d \in Sides
    PROVE  /\ Extreme(f, k, d, Outermost(m, k, d))
           /\ Outermost(m, k, d) \in Nodes
           /\ m.kid[d][Outermost(m, k, d)] = NULL
<1>1. PICK next : next = m.kid[d]
  BY Zenon
<1>2. next \in [Nodes -> Nodes \cup {NULL}]
  BY <1>1 DEF Tree, Memory
<1>3. PICK N \in Nat : \E rank : Descends(next, rank, N)
  BY <1>1, <1>2, DownEnds DEF Downward
<1>4. PICK rank : Descends(next, rank, N)
  BY <1>3
<1> DEFINE P == {z \in f[k] : \A w \in f[k] :
                   w = z \/ Lies(Other(d), w, z) \/ w \in f[m.kid[d][z]]}
<1>5. P \in SUBSET Nodes
  BY TreeFacts
<1>6. k \in P
  <2>1. ASSUME NEW w \in f[k], w # k, w \notin f[m.kid[d][k]] PROVE Lies(Other(d), w, k)
    <3>1. w \in f[m.kid[Other(d)][k]] /\ Other(d) \in Sides
      BY <2>1, TreeFacts, LiesFacts
    <3> QED  BY <3>1, TreeFacts
  <2> QED  BY <2>1, TreeFacts
<1>7. ASSUME NEW z \in P, next[z] # NULL PROVE next[z] \in P
  <2>1. PICK y : y = next[z]
    BY Zenon
  <2>2. z \in Nodes /\ y \in Nodes /\ y = m.kid[d][z] /\ f[z] \subseteq f[k]
    BY <1>1, <1>2, <1>5, <1>7, <2>1, Within
  <2>3. y \in f[k] /\ Lies(d, y, z)
    BY <2>2, TreeFacts
  <2>4. ASSUME NEW w \in f[k], w # y, w \notin f[m.kid[d][y]] PROVE Lies(Other(d), w, y)
    <3>0. w \in Nodes /\ Other(d) \in Sides /\ Lies(Other(d), z, y)
      BY <2>2, <2>3, TreeFacts, LiesFacts
    <3>1. CASE w \in f[y]
      <4>1. w \in f[m.kid[Other(d)][y]]
        BY <2>2, <2>4, <3>1, TreeFacts
      <4> QED  BY <2>2, <3>0, <4>1, TreeFacts
    <3>2. CASE w = z
      BY <3>0, <3>2
    <3>3. CASE Lies(Other(d), w, z)
      BY <2>2, <3>0, <3>3, LiesFacts
    <3> QED  BY <2>2, <3>1, <3>2, <3>3
  <2> QED  BY <2>1, <2>3, <2>4
<1> HIDE DEF P
<1>8. PICK z : z = Outermost(m, k, d)
  BY Zenon
<1>9. z \in P /\ next[z] = NULL
  BY <1>1, <1>4, <1>5, <1>6, <1>7, <1>8, FollowIn DEF Outermost
<1> USE DEF P
<1>10. m.kid[d][z] = NULL /\ f[m.kid[d][z]] = {}
  BY <1>1, <1>9 DEF Tree, Spans
<1> QED  BY <1>5, <1>8, <1>9, <1>10 DEF Extreme

\* z is the nearest node of S to n on side d, or NULL if there is none.
NextTo(S, n, d, z) ==
    IF \A y \in S : ~Lies(d, y, n) THEN z = NULL
    ELSE /\ z \in S /\ Lies(d, z, n)
         /\ \A y \in S : Lies(d, y, n) => y = z \/ Lies(d, y, z)

\* rbnode_next and rbnode_prev find the nearest node.
LEMMA AdjacentIsNext ==
    ASSUME NEW m, NEW S, NEW f, Tree(m, S, f), NEW n \in S, NEW d \in Sides
    PROVE  NextTo(S, n, d, Adjacent(m, n, d))
<1>0. n \in Nodes /\ S \subseteq Nodes /\ f[n] \subseteq S
  BY SpanMembers DEF Tree
<1>1. PICK o : o = Other(d)
  BY Zenon
<1>2. o \in Sides /\ Other(o) = d /\ o # d
  BY <1>0, <1>1, LiesFacts
<1>3. CASE m.kid[d][n] # NULL
  <2>1. PICK k : k = m.kid[d][n]
    BY Zenon
  <2>2. k \in Nodes
    BY <1>0, <1>3, <2>1, TreeFacts
  <2>3. PICK z : z = Outermost(m, k, o)
    BY Zenon
  <2>4. Extreme(f, k, o, z)
    BY <1>2, <2>2, <2>3, OutermostIsLast
  <2>5. Adjacent(m, n, d) = z
    BY <1>1, <1>3, <2>1, <2>3 DEF Adjacent
  <2>6. f[k] \subseteq f[n] /\ \A y \in f[k] : Lies(d, y, n)
    BY <1>0, <2>1, TreeFacts
  <2>7. z \in S /\ z \in f[k] /\ Lies(d, z, n)
    BY <1>0, <2>4, <2>6 DEF Extreme
  <2>8. ASSUME NEW y \in S, Lies(d, y, n), y # z PROVE Lies(d, y, z)
    <3>0. y \in Nodes /\ z \in Nodes
      BY <1>0, <2>7
    <3>1. CASE y \in f[k]
      BY <1>2, <2>4, <2>8, <3>1 DEF Extreme
    <3>2. CASE y \notin f[n]
      <4>1. PICK e \in Sides : \A w \in f[n] : Lies(e, w, y)
        BY <3>2, Outside
      <4>2. Lies(e, n, y) /\ Lies(e, z, y)
        BY <1>0, <2>6, <2>7, <4>1, TreeFacts
      <4>3. e # d
        BY <1>0, <2>8, <3>0, <4>2, LiesFacts DEF Lies
      <4>4. e = o
        BY <1>0, <1>1, <4>3, LiesFacts
      <4> QED  BY <1>1, <1>2, <3>0, <4>2, <4>4, LiesFacts
    <3>3. CASE y \in f[m.kid[o][n]]
      <4>1. Lies(o, y, n)
        BY <1>0, <1>2, <3>3, TreeFacts
      <4> QED  BY <1>0, <1>1, <2>8, <3>0, <4>1, LiesFacts
    <3>4. f[n] = {n} \cup f[k] \cup f[m.kid[o][n]] /\ y # n
      BY <1>0, <1>1, <2>1, <2>8, TreeFacts, LiesFacts
    <3> QED  BY <3>1, <3>2, <3>3, <3>4
  <2> QED  BY <2>5, <2>7, <2>8 DEF NextTo
<1>4. CASE m.kid[d][n] = NULL
  <2>1. PICK next : next = [x \in Nodes |-> IF m.parent[x] # NULL /\ m.kid[o][m.parent[x]] # x
                                            THEN m.parent[x] ELSE NULL]
    BY Zenon
  <2>2. next \in [Nodes -> Nodes \cup {NULL}]
    BY <2>1, KeyAssumption DEF Tree, Memory
  <2>3. PICK N \in Nat : \E rank : Descends(next, rank, N)
    BY <2>1, <2>2, UpEnds
  <2>4. PICK rank : Descends(next, rank, N)
    BY <2>3
  <2> DEFINE P == {x \in S : n \in f[x] /\ \A y \in f[x] : ~Lies(d, y, n)}
  <2>5. P \in SUBSET Nodes
    BY <1>0
  <2>6. n \in P
    <3>1. ASSUME NEW y \in f[n] PROVE ~Lies(d, y, n)
      <4>1. CASE y = n
        BY <1>0, <4>1, LiesFacts
      <4>2. CASE y # n
        <5>1. f[m.kid[d][n]] = {}
          BY <1>4 DEF Tree, Spans
        <5>2. y \in f[m.kid[o][n]]
          BY <1>0, <1>1, <3>1, <4>2, <5>1, TreeFacts
        <5>3. Lies(o, y, n) /\ y \in Nodes
          BY <1>0, <1>2, <3>1, <5>2, TreeFacts
        <5> QED  BY <1>0, <1>1, <5>3, LiesFacts
      <4> QED  BY <4>1, <4>2
    <3> QED  BY <1>0, <3>1, TreeFacts
  <2>7. ASSUME NEW x \in P, next[x] # NULL PROVE next[x] \in P
    <3>1. PICK p : p = m.parent[x]
      BY Zenon
    <3>2. x \in Nodes /\ p = next[x] /\ p # NULL /\ m.kid[o][p] # x
      BY <1>0, <2>1, <2>7, <3>1
    <3>3. p \in Nodes /\ p \in S
      BY <3>1, <3>2 DEF Tree, Linked
    <3>4. m.kid[d][p] = x
      <4>1. PICK e \in Sides : m.kid[e][p] = x
        BY <3>1, <3>2 DEF Tree, Linked
      <4>2. e # o
        BY <3>2, <4>1
      <4> QED  BY <1>0, <1>1, <4>1, <4>2, LiesFacts
    <3>5. f[p] = {p} \cup f[x] \cup f[m.kid[o][p]] /\ \A y \in f[x] : Lies(d, y, p)
      BY <1>1, <3>3, <3>4, TreeFacts
    <3>6. Lies(d, n, p) /\ Lies(o, p, n)
      BY <1>0, <1>1, <2>7, <3>3, <3>5, LiesFacts
    <3>7. ASSUME NEW y \in f[p] PROVE ~Lies(d, y, n)
      <4>0. y \in Nodes
        BY <3>3, <3>7, TreeFacts
      <4>1. CASE y = p
        BY <1>0, <1>1, <3>3, <3>6, <4>1, LiesFacts
      <4>2. CASE y \in f[x]
        BY <2>7, <4>2
      <4>3. CASE y \in f[m.kid[o][p]]
        <5>1. Lies(o, y, p)
          BY <1>2, <3>3, <4>3, TreeFacts
        <5>2. Lies(o, y, n)
          BY <1>0, <1>2, <3>3, <3>6, <4>0, <5>1, LiesFacts
        <5> QED  BY <1>0, <1>1, <4>0, <5>2, LiesFacts
      <4> QED  BY <3>5, <3>7, <4>1, <4>2, <4>3
    <3> QED  BY <2>7, <3>2, <3>3, <3>5, <3>7
  <2> HIDE DEF P
  <2>8. PICK x : x = Follow(next, n)
    BY Zenon
  <2>9. x \in P /\ next[x] = NULL
    BY <2>4, <2>5, <2>6, <2>7, <2>8, FollowIn
  <2> USE DEF P
  <2>10. x \in Nodes /\ x \in S
    BY <1>0, <2>9
  <2>11. Adjacent(m, n, d) = m.parent[x]
    BY <1>1, <1>4, <2>1, <2>8 DEF Adjacent, Climb
  <2>12. CASE m.parent[x] = NULL
    <3>1. f[x] = S
      BY <2>10, <2>12 DEF Tree, Linked, Spans
    <3> QED  BY <2>9, <2>11, <2>12, <3>1 DEF NextTo
  <2>13. CASE m.parent[x] # NULL
    <3>1. PICK p : p = m.parent[x]
      BY Zenon
    <3>2. m.kid[o][p] = x
      BY <2>1, <2>9, <2>10, <2>13, <3>1
    <3>3. p \in S /\ p \in Nodes
      BY <1>0, <2>10, <2>13, <3>1 DEF Tree, Linked
    <3>4. Lies(d, p, n) /\ p \in f[p] /\ f[p] = {p} \cup f[m.kid[d][p]] \cup f[x]
          /\ n \in f[p]
      <4>1. Lies(o, n, p)
        BY <1>2, <2>9, <3>2, <3>3, TreeFacts
      <4>2. Lies(d, p, n)
        BY <1>0, <1>2, <3>3, <4>1, LiesFacts
      <4> QED  BY <1>1, <2>9, <3>2, <3>3, <4>2, TreeFacts
    <3>5. ASSUME NEW y \in S, Lies(d, y, n), y # p PROVE Lies(d, y, p)
      <4>0. y \in Nodes
        BY <1>0
      <4>1. CASE y \in f[x]
        BY <2>9, <3>5, <4>1
      <4>2. CASE y \in f[m.kid[d][p]]
        BY <3>3, <4>2, TreeFacts
      <4>3. CASE y \notin f[p]
        <5>1. PICK e \in Sides : \A w \in f[p] : Lies(e, w, y)
          BY <3>3, <4>3, Outside
        <5>2. Lies(e, n, y) /\ Lies(e, p, y)
          BY <3>4, <5>1
        <5>3. e # d
          BY <1>0, <3>5, <4>0, <5>2, LiesFacts DEF Lies
        <5>4. e = o
          BY <1>0, <1>1, <5>3, LiesFacts
        <5> QED  BY <1>1, <1>2, <3>3, <4>0, <5>2, <5>4, LiesFacts
      <4> QED  BY <3>4, <3>5, <4>1, <4>2, <4>3
    <3> QED  BY <2>11, <3>1, <3>3, <3>4, <3>5 DEF NextTo
  <2> QED  BY <2>12, <2>13
<1> QED  BY <1>3, <1>4

\* The way down from the root keeps to the side where n belongs.
OnWay(m, S, f, n, y) ==
    \A x \in S : y \in f[x] /\ x # y => Key[n] # Key[x] /\ y \in f[m.kid[Toward(n, x)][x]]

\* rbt_insert finds the node with n's key, or where n belongs.
LEMMA DescendFinds ==
    ASSUME NEW m, NEW S, NEW f, Tree(m, S, f), NEW n \in Nodes, m.root # NULL,
           NEW y, y = Descend(m, n, m.root)
    PROVE  /\ y \in S /\ OnWay(m, S, f, n, y)
           /\ Key[n] = Key[y] \/ m.kid[Toward(n, y)][y] = NULL
<1>1. PICK next : next = [x \in Nodes |-> IF compare(n, x) = 0 THEN NULL
                                          ELSE m.kid[Toward(n, x)][x]]
  BY Zenon
<1>2. \A x : Toward(n, x) \in Sides
  BY DEF Toward, Sides
<1>3. next \in [Nodes -> Nodes \cup {NULL}]
  BY <1>1, <1>2 DEF Tree, Memory
<1>4. Downward(m, next)
  BY <1>1, <1>2, <1>3 DEF Downward
<1>5. PICK N \in Nat : \E rank : Descends(next, rank, N)
  BY <1>4, DownEnds
<1>6. PICK rank : Descends(next, rank, N)
  BY <1>5
<1>7. m.root \in Nodes /\ m.root \in S /\ f[m.root] = S /\ S \subseteq Nodes
  <2>1. m.root \in Nodes /\ f[m.root] = S /\ S \subseteq Nodes
    BY DEF Tree, Memory, Spans
  <2>2. m.root \in f[m.root]
    BY <2>1, TreeFacts DEF Sides
  <2> QED  BY <2>1, <2>2
<1>8. \A x \in Nodes : compare(n, x) = 0 <=> Key[n] = Key[x]
  BY KeyAssumption DEF compare
<1> DEFINE P == {z \in S : OnWay(m, S, f, n, z)}
<1>9. P \in SUBSET Nodes
  BY <1>7
<1>10. m.root \in P
  <2>1. ASSUME NEW x \in S, m.root \in f[x], x # m.root PROVE FALSE
    BY <1>7, <2>1, Above
  <2> QED  BY <1>7, <2>1 DEF OnWay
<1>11. ASSUME NEW z \in P, next[z] # NULL PROVE next[z] \in P
  <2>1. PICK w : w = next[z]
    BY Zenon
  <2>2. PICK d : d = Toward(n, z)
    BY Zenon
  <2>3. z \in Nodes /\ z \in S /\ d \in Sides /\ w = m.kid[d][z] /\ Key[n] # Key[z]
    BY <1>1, <1>2, <1>8, <1>9, <1>11, <2>1, <2>2
  <2>4. w \in Nodes /\ w \in S /\ m.parent[w] = z
    BY <1>3, <1>11, <2>1, <2>3 DEF Tree, Linked
  <2>5. w \in f[w] /\ f[w] \subseteq f[z] /\ w # z
    <3>1. w \in f[w]
      BY <2>3, <2>4, TreeFacts
    <3>2. f[w] \subseteq f[z] /\ z \notin f[w]
      BY <2>3, ChildSpan
    <3> QED  BY <3>1, <3>2
  <2>6. ASSUME NEW x \in S, w \in f[x], x # w
        PROVE  Key[n] # Key[x] /\ w \in f[m.kid[Toward(n, x)][x]]
    <3>1. x \in Nodes /\ z \in f[x]
      BY <1>7, <2>4, <2>6, Above
    <3>2. CASE x = z
      BY <2>2, <2>3, <2>5, <3>2
    <3>3. CASE x # z
      <4>1. PICK v : v = m.kid[Toward(n, x)][x]
        BY Zenon
      <4>2. Key[n] # Key[x] /\ z \in f[v]
        BY <1>11, <3>1, <3>3, <4>1 DEF OnWay
      <4>3. v \in Nodes
        BY <1>2, <3>1, <4>1, <4>2, TreeFacts
      <4>4. f[z] \subseteq f[v]
        BY <4>2, <4>3, Within
      <4> QED  BY <2>5, <4>1, <4>2, <4>4
    <3> QED  BY <3>2, <3>3
  <2> QED  BY <2>1, <2>4, <2>6 DEF OnWay
<1> HIDE DEF P
<1>12. y = Follow(next, m.root)
  BY <1>1 DEF Descend
<1>13. y \in P /\ next[y] = NULL
  BY <1>6, <1>9, <1>10, <1>11, <1>12, FollowIn
<1> USE DEF P
<1> QED  BY <1>1, <1>7, <1>8, <1>13

-----------------------------------------------------------------------------
(***************************************************************************)
(* What the operations do to the tree.                                     *)
(***************************************************************************)

\* The tree is in the pointers alone.
LEMMA SamePointers ==
    ASSUME NEW m, NEW S, NEW f, Tree(m, S, f), NEW k \in Memory,
           k.root = m.root, k.kid = m.kid, k.parent = m.parent
    PROVE  Tree(k, S, f)
BY DEF Tree, Spans, Ordered, Linked

\* A new leaf below y, where the way down has ended.
LEMMA LeafTree ==
    ASSUME NEW m, NEW S, NEW f, Tree(m, S, f), NEW n \in Nodes, n \notin S, NEW y \in S,
           OnWay(m, S, f, n, y), Key[n] # Key[y], m.kid[Toward(n, y)][y] = NULL,
           NEW k \in Memory, k.root = m.root,
           \A x \in Nodes : k.parent[x] = IF x = n THEN y ELSE m.parent[x],
           \A x \in Nodes, e \in Sides :
              k.kid[e][x] = IF e = Toward(n, y) /\ x = y THEN n ELSE m.kid[e][x]
    PROVE  \E g : Tree(k, S \cup {n}, g)
<1>1. PICK d : d = Toward(n, y)
  BY Zenon
<1>2. PICK g : g = [x \in Nodes \cup {NULL} |-> IF y \in f[x] THEN f[x] \cup {n} ELSE f[x]]
  BY Zenon
<1>3. /\ d \in Sides /\ S \subseteq Nodes /\ y \in Nodes /\ n # y /\ n # NULL
      /\ f[NULL] = {} /\ f[n] = {n}
  <2>1. d \in Sides
    BY <1>1 DEF Toward, Sides
  <2>2. S \subseteq Nodes /\ f[NULL] = {}
    BY DEF Tree, Spans
  <2>3. f[n] = {n}
    BY SpanMembers
  <2> QED  BY <2>1, <2>2, <2>3, KeyAssumption
<1>4. g \in [Nodes \cup {NULL} -> SUBSET Nodes]
  BY <1>2 DEF Tree, Spans
<1>5. g[n] = {n} /\ g[NULL] = {} /\ f[m.kid[d][y]] = {}
  BY <1>1, <1>2, <1>3
<1>6. m.root \in Nodes /\ f[m.root] = S /\ g[m.root] = S \cup {n}
  <2>1. m.root \in Nodes /\ f[m.root] = S
    BY DEF Tree, Spans, Memory
  <2> QED  BY <1>2, <2>1
<1>7. \A x \in Nodes : n \in f[x] => x = n
  <2>1. ASSUME NEW x \in Nodes, n \in f[x], x # n PROVE FALSE
    BY <2>1, SpanMembers
  <2> QED  BY <2>1
<1>8. \A x \in Nodes : x \notin S => m.kid["left"][x] = NULL /\ m.kid["right"][x] = NULL
  BY DEF Tree, Linked, Sides
<1>9. ASSUME NEW x \in Nodes
      PROVE g[x] = {x} \cup g[k.kid["left"][x]] \cup g[k.kid["right"][x]]
  <2>1. f[x] = {x} \cup f[m.kid["left"][x]] \cup f[m.kid["right"][x]]
    BY DEF Tree, Spans
  <2>2. m.kid["left"][x] \in Nodes \cup {NULL} /\ m.kid["right"][x] \in Nodes \cup {NULL}
    BY DEF Tree, Memory, Sides
  <2>3. CASE x = y
    <3>1. y \notin f[m.kid["left"][x]] /\ y \notin f[m.kid["right"][x]] /\ y \in f[x]
      BY <2>3, TreeFacts DEF Sides
    <3>2. CASE d = "left"
      <4>1. k.kid["left"][x] = n /\ k.kid["right"][x] = m.kid["right"][x]
        BY <1>1, <2>3, <3>2 DEF Sides
      <4> QED  BY <1>2, <1>5, <2>1, <2>2, <2>3, <3>1, <3>2, <4>1
    <3>3. CASE d = "right"
      <4>1. k.kid["right"][x] = n /\ k.kid["left"][x] = m.kid["left"][x]
        BY <1>1, <2>3, <3>3 DEF Sides
      <4> QED  BY <1>2, <1>5, <2>1, <2>2, <2>3, <3>1, <3>3, <4>1
    <3> QED  BY <1>3, <3>2, <3>3 DEF Sides
  <2>4. CASE x # y
    <3>1. k.kid["left"][x] = m.kid["left"][x] /\ k.kid["right"][x] = m.kid["right"][x]
      BY <2>4 DEF Sides
    <3> QED  BY <1>2, <2>1, <2>2, <2>4, <3>1
  <2> QED  BY <2>3, <2>4
<1>10. Spans(k, S \cup {n}, g)
  BY <1>4, <1>5, <1>6, <1>9 DEF Spans
<1>11. Key[n] \in Int /\ \A x \in Nodes : Key[x] \in Int
  BY KeyAssumption
<1>12. \A x \in Nodes : Key[n] # Key[x] => Lies(Toward(n, x), n, x)
  BY <1>11 DEF Lies, Toward, compare
<1>13. ASSUME NEW x \in Nodes, NEW e \in Sides, NEW w \in g[k.kid[e][x]] PROVE Lies(e, w, x)
  <2>1. \A z \in f[m.kid[e][x]] : Lies(e, z, x)
    BY DEF Tree, Ordered
  <2>2. m.kid[e][x] \in Nodes \cup {NULL}
    BY DEF Tree, Memory
  <2>3. CASE e = d /\ x = y
    <3>1. w = n
      BY <1>1, <1>5, <1>13, <2>3
    <3> QED  BY <1>1, <1>3, <1>12, <2>3, <3>1
  <2>4. CASE ~(e = d /\ x = y)
    <3>1. k.kid[e][x] = m.kid[e][x]
      BY <1>1, <2>4
    <3>2. CASE w \in f[m.kid[e][x]]
      BY <2>1, <3>2
    <3>3. CASE w \notin f[m.kid[e][x]]
      <4>1. w = n /\ y \in f[m.kid[e][x]]
        BY <1>2, <1>13, <2>2, <3>1, <3>3
      <4>2. y \in f[x] /\ x # y
        BY <4>1, ChildSpan
      <4>3. x \in S
        BY <1>3, <4>2, SpanMembers
      <4>4. Key[n] # Key[x] /\ y \in f[m.kid[Toward(n, x)][x]]
        BY <4>2, <4>3 DEF OnWay
      <4>5. e = Toward(n, x)
        <5>1. Toward(n, x) \in Sides
          BY DEF Toward, Sides
        <5> QED  BY <4>1, <4>4, <5>1, TreeFacts, LiesFacts
      <4> QED  BY <1>12, <4>1, <4>4, <4>5
    <3> QED  BY <3>2, <3>3
  <2> QED  BY <2>3, <2>4
<1>14. Ordered(k, g)
  BY <1>13 DEF Ordered
<1>15. Linked(k, S \cup {n})
  <2>1. m.root # NULL /\ m.root # n
    BY <1>6, KeyAssumption DEF Tree, Spans
  <2>2. k.root # NULL => k.parent[k.root] = NULL
    BY <1>6, <2>1 DEF Tree, Linked
  <2>3. ASSUME NEW x \in Nodes, NEW e \in Sides, k.kid[e][x] # NULL
        PROVE  /\ x \in S \cup {n} /\ k.kid[e][x] \in S \cup {n}
               /\ k.parent[k.kid[e][x]] = x
    <3>1. CASE e = d /\ x = y
      BY <1>1, <1>3, <3>1
    <3>2. CASE ~(e = d /\ x = y)
      <4>1. k.kid[e][x] = m.kid[e][x]
        BY <1>1, <3>2
      <4>2. x \in S /\ m.kid[e][x] \in S /\ m.parent[m.kid[e][x]] = x
        BY <2>3, <4>1 DEF Tree, Linked
      <4> QED  BY <1>3, <4>1, <4>2
    <3> QED  BY <3>1, <3>2
  <2>4. ASSUME NEW x \in S \cup {n}, k.parent[x] = NULL PROVE x = k.root
    <3>1. x # n
      BY <1>3, <2>4, KeyAssumption
    <3> QED  BY <1>3, <2>4, <3>1 DEF Tree, Linked
  <2>5. ASSUME NEW x \in Nodes, k.parent[x] # NULL
        PROVE  /\ x \in S \cup {n} /\ k.parent[x] \in S \cup {n}
               /\ \E e \in Sides : k.kid[e][k.parent[x]] = x
    <3>1. CASE x = n
      BY <1>1, <1>3, <3>1
    <3>2. CASE x # n
      <4>1. k.parent[x] = m.parent[x]
        BY <3>2
      <4>2. PICK e \in Sides : x \in S /\ m.parent[x] \in S /\ m.kid[e][m.parent[x]] = x
        BY <2>5, <4>1 DEF Tree, Linked
      <4>3. ~(e = d /\ m.parent[x] = y)
        BY <1>1, <1>3, <4>2, KeyAssumption
      <4> QED  BY <1>1, <1>3, <4>1, <4>2, <4>3
    <3> QED  BY <3>1, <3>2
  <2> QED  BY <2>2, <2>3, <2>4, <2>5 DEF Linked
<1> QED  BY <1>3, <1>10, <1>14, <1>15 DEF Tree

\* What Replace does to the fields.  The tree m may already have been changed
\* to b below n.
Replaced(m, n, y, b, k) ==
    /\ k \in Memory
    /\ k.color = b.color /\ k.cached_min = b.cached_min /\ k.parent = b.parent
    /\ k.root = IF m.root = n THEN y ELSE m.root
    /\ \A x \in Nodes, e \in Sides :
         k.kid[e][x] = IF m.kid[e][x] = n THEN y ELSE b.kid[e][x]

\* Replace has that effect, in its parent or at the root.
LEMMA ReplaceFields ==
    ASSUME NEW m, NEW S, NEW f, Tree(m, S, f), NEW n \in S, NEW y \in Nodes \cup {NULL},
           NEW b \in Memory, b.root = m.root, b.parent[n] = m.parent[n],
           m.parent[n] # NULL => \A e \in Sides : b.kid[e][m.parent[n]] = m.kid[e][m.parent[n]],
           NEW k, k = Replace(b, n, y)
    PROVE  Replaced(m, n, y, b, k)
<1> USE DEF Replaced
<1>1. n \in Nodes /\ n # NULL
  BY KeyAssumption DEF Tree
<1>2. PICK q : q = m.parent[n]
  BY Zenon
<1>3. CASE q = NULL
  <2>1. k = [b EXCEPT !.root = y]
    BY <1>2, <1>3 DEF Replace
  <2>2. m.root = n
    BY <1>2, <1>3 DEF Tree, Linked
  <2>3. ASSUME NEW x \in Nodes, NEW e \in Sides, m.kid[e][x] = n PROVE FALSE
    <3>1. m.parent[n] = x
      BY <1>1, <2>3 DEF Tree, Linked
    <3> QED  BY <1>2, <1>3, <3>1, KeyAssumption
  <2> QED  BY <2>1, <2>2, <2>3 DEF Memory
<1>4. CASE q # NULL
  <2>1. PICK s : s = Side(b, n)
    BY Zenon
  <2>2. s = IF m.kid["left"][q] = n THEN "left" ELSE "right"
    BY <1>2, <1>4, <2>1 DEF Side, Sides
  <2>3. s \in Sides
    BY <2>2 DEF Sides
  <2>4. k = [b EXCEPT !.kid[s][q] = y]
    BY <1>2, <1>4, <2>1 DEF Replace
  <2>5. q \in Nodes /\ m.root # n
    BY <1>1, <1>2, <1>4 DEF Tree, Linked, Memory
  <2>6. /\ k \in Memory /\ k.root = b.root
        /\ k.color = b.color /\ k.cached_min = b.cached_min /\ k.parent = b.parent
        /\ \A x \in Nodes, e \in Sides :
             k.kid[e][x] = IF e = s /\ x = q THEN y ELSE b.kid[e][x]
    <3>1. PICK ki : ki = [b.kid EXCEPT ![s][q] = y]
      BY Zenon
    <3>2. k = [b EXCEPT !.kid = ki]
      BY <2>4, <3>1 DEF Memory
    <3>3. /\ ki \in [Sides -> [Nodes -> Nodes \cup {NULL}]]
          /\ \A x \in Nodes, e \in Sides :
               ki[e][x] = IF e = s /\ x = q THEN y ELSE b.kid[e][x]
      BY <2>3, <2>5, <3>1 DEF Memory
    <3>4. k.kid = ki /\ k.root = b.root /\ k.color = b.color
          /\ k.cached_min = b.cached_min /\ k.parent = b.parent
      BY <3>2 DEF Memory
    <3>5. k \in Memory
      BY <3>2, <3>3 DEF Memory
    <3> QED  BY <3>3, <3>4, <3>5
  <2>7. m.kid[s][q] = n
    <3>1. PICK e \in Sides : m.kid[e][q] = n
      BY <1>1, <1>2, <1>4 DEF Tree, Linked
    <3> QED  BY <2>2, <3>1 DEF Sides
  <2>8. ASSUME NEW x \in Nodes, NEW e \in Sides, m.kid[e][x] = n PROVE e = s /\ x = q
    <3>1. x = q
      BY <1>1, <1>2, <2>8 DEF Tree, Linked
    <3>2. n \in f[m.kid[e][q]] /\ n \in f[m.kid[s][q]]
      BY <1>1, <2>7, <2>8, <3>1, TreeFacts
    <3>3. e # s => e = Other(s)
      BY <2>3, <2>5, LiesFacts
    <3>4. f[m.kid[s][q]] \cap f[m.kid[Other(s)][q]] = {}
      BY <2>3, <2>5, TreeFacts
    <3> QED  BY <3>1, <3>2, <3>3, <3>4
  <2> QED  BY <2>5, <2>6, <2>7, <2>8
<1> QED  BY <1>3, <1>4

\* What SetParent does to the fields.
Reparented(m, n, p, k) ==
    /\ k \in Memory /\ k.root = m.root /\ k.color = m.color
    /\ k.cached_min = m.cached_min /\ k.kid = m.kid
    /\ \A x \in Nodes : k.parent[x] = IF x = n THEN p ELSE m.parent[x]

\* SetParent has that effect, or none if n is NULL.
LEMMA SetParentFields ==
    ASSUME NEW m \in Memory, NEW n \in Nodes \cup {NULL}, NEW p \in Nodes \cup {NULL}
    PROVE  Reparented(m, n, p, SetParent(m, n, p))
<1>1. CASE n = NULL
  BY <1>1, KeyAssumption DEF SetParent, Reparented
<1>2. CASE n # NULL
  <2>1. SetParent(m, n, p) = [m EXCEPT !.parent[n] = p]
    BY <1>2 DEF SetParent
  <2> QED  BY <1>2, <2>1 DEF Memory, Reparented
<1> QED  BY <1>1, <1>2

\* What a rotation does to the fields.
Rotated(m, a, d, c, k) ==
    /\ k \in Memory /\ k.color = m.color /\ k.cached_min = m.cached_min
    /\ k.root = IF m.root = a THEN c ELSE m.root
    /\ \A x \in Nodes, e \in Sides :
         k.kid[e][x] = IF x = a THEN IF e = d THEN m.kid[d][a] ELSE m.kid[d][c]
                       ELSE IF x = c THEN IF e = d THEN a ELSE m.kid[e][c]
                       ELSE IF m.kid[e][x] = a THEN c ELSE m.kid[e][x]
    /\ \A x \in Nodes :
         k.parent[x] = IF x = c THEN m.parent[a] ELSE IF x = a THEN c
                       ELSE IF x = m.kid[d][c] THEN a ELSE m.parent[x]

\* rbt_rotate_left and rbt_rotate_right have that effect.
LEMMA RotateFields ==
    ASSUME NEW m, NEW S, NEW f, Tree(m, S, f), NEW a \in Nodes, NEW d \in Sides,
           NEW c, c = m.kid[Other(d)][a], c # NULL
    PROVE  Rotated(m, a, d, c, rbt_rotate(m, a, d))
<1>1. PICK o : o = Other(d)
  BY Zenon
<1>2. o \in Sides /\ o # d /\ Sides = {d, o}
  BY <1>1, LiesFacts
<1>3. c \in Nodes /\ a \in S /\ c \in S /\ m.parent[c] = a /\ a # NULL
  BY <1>1, <1>2, KeyAssumption DEF Tree, Linked, Memory
<1>4. c # a /\ m.kid[d][c] # c /\ m.kid[d][c] # a
  <2>1. a \notin f[c] /\ c \in f[c]
    BY <1>1, <1>2, <1>3, ChildSpan, TreeFacts
  <2>2. f[m.kid[d][c]] \subseteq f[c] /\ c \notin f[m.kid[d][c]]
    BY <1>3, ChildSpan
  <2>3. a \in f[a]
    BY TreeFacts
  <2> QED  BY <2>1, <2>2, <2>3
<1>5. PICK b : b = m.kid[d][c]
  BY Zenon
<1>6. b \in Nodes \cup {NULL} /\ m.parent[a] \in Nodes \cup {NULL} /\ m \in Memory
  BY <1>3, <1>5 DEF Tree, Memory
<1>7. PICK p : p = Replace(m, a, c)
  BY Zenon
<1>8. /\ p \in Memory
      /\ p.color = m.color /\ p.cached_min = m.cached_min /\ p.parent = m.parent
      /\ p.root = IF m.root = a THEN c ELSE m.root
      /\ \A x \in Nodes, e \in Sides :
           p.kid[e][x] = IF m.kid[e][x] = a THEN c ELSE m.kid[e][x]
  <2>1. Replaced(m, a, c, m, p)
    BY <1>3, <1>6, <1>7, ReplaceFields
  <2> QED  BY <2>1 DEF Replaced
<1>9. PICK r : r = [p EXCEPT !.parent[c] = m.parent[a], !.parent[a] = c,
                             !.kid[o][a] = b, !.kid[d][c] = a]
  BY Zenon
<1>10. /\ r \in Memory /\ r.root = p.root /\ r.color = p.color /\ r.cached_min = p.cached_min
       /\ \A x \in Nodes : r.parent[x] = IF x = a THEN c ELSE IF x = c THEN m.parent[a]
                                         ELSE p.parent[x]
       /\ \A x \in Nodes, e \in Sides :
            r.kid[e][x] = IF e = d /\ x = c THEN a ELSE IF e = o /\ x = a THEN b
                          ELSE p.kid[e][x]
  <2>1. PICK pa, ki : pa = [p.parent EXCEPT ![c] = m.parent[a], ![a] = c]
                      /\ ki = [p.kid EXCEPT ![o][a] = b, ![d][c] = a]
    BY Zenon
  <2>2. r = [p EXCEPT !.parent = pa, !.kid = ki]
    BY <1>8, <1>9, <2>1 DEF Memory
  <2>3. /\ pa \in [Nodes -> Nodes \cup {NULL}]
        /\ \A x \in Nodes : pa[x] = IF x = a THEN c ELSE IF x = c THEN m.parent[a]
                                    ELSE p.parent[x]
    BY <1>3, <1>4, <1>6, <1>8, <2>1 DEF Memory
  <2>4. /\ ki \in [Sides -> [Nodes -> Nodes \cup {NULL}]]
        /\ \A x \in Nodes, e \in Sides :
             ki[e][x] = IF e = d /\ x = c THEN a ELSE IF e = o /\ x = a THEN b
                        ELSE p.kid[e][x]
    BY <1>2, <1>3, <1>4, <1>6, <1>8, <2>1 DEF Memory
  <2> QED  BY <1>8, <2>2, <2>3, <2>4 DEF Memory
<1>11. PICK k : k = rbt_rotate(m, a, d)
  BY Zenon
<1>12. k = SetParent(r, b, a)
  BY <1>1, <1>5, <1>7, <1>9, <1>11 DEF rbt_rotate
<1>13. /\ k \in Memory /\ k.root = r.root /\ k.color = r.color /\ k.cached_min = r.cached_min
       /\ k.kid = r.kid
       /\ \A x \in Nodes : k.parent[x] = IF x = b THEN a ELSE r.parent[x]
  <2>1. r \in Memory /\ a \in Nodes \cup {NULL} /\ b \in Nodes \cup {NULL}
    BY <1>6, <1>10
  <2>2. Reparented(r, b, a, k)
    BY <1>12, <2>1, SetParentFields
  <2> QED  BY <2>2 DEF Reparented
<1>14. \A x \in Nodes : k.parent[x] = IF x = c THEN m.parent[a] ELSE IF x = a THEN c
                                      ELSE IF x = b THEN a ELSE m.parent[x]
  BY <1>4, <1>5, <1>8, <1>10, <1>13
<1>15. \A e \in Sides : m.kid[e][a] # a /\ m.kid[e][c] # a
  <2>1. \A x \in Nodes, e \in Sides : m.kid[e][x] = a => m.parent[a] = x
    BY <1>3 DEF Tree, Linked
  <2>2. ASSUME NEW e \in Sides PROVE m.kid[e][a] # a
    BY ChildSpan
  <2>3. ASSUME NEW e \in Sides PROVE m.kid[e][c] # a
    <3>1. f[m.kid[e][c]] \subseteq f[c] /\ a \notin f[c] /\ a \in f[a]
      BY <1>1, <1>2, <1>3, ChildSpan, TreeFacts
    <3> QED  BY <3>1
  <2> QED  BY <2>2, <2>3
<1>16. ASSUME NEW x \in Nodes, NEW e \in Sides
       PROVE  k.kid[e][x] = IF x = a THEN IF e = d THEN m.kid[d][a] ELSE b
                            ELSE IF x = c THEN IF e = d THEN a ELSE m.kid[e][c]
                            ELSE IF m.kid[e][x] = a THEN c ELSE m.kid[e][x]
  <2>1. k.kid[e][x] = IF e = d /\ x = c THEN a ELSE IF e = o /\ x = a THEN b
                      ELSE p.kid[e][x]
    BY <1>10, <1>13
  <2>2. p.kid[e][x] = IF m.kid[e][x] = a THEN c ELSE m.kid[e][x]
    BY <1>8
  <2>3. CASE x = a
    BY <1>2, <1>4, <1>15, <2>1, <2>2, <2>3
  <2>4. CASE x = c
    BY <1>2, <1>4, <1>15, <2>1, <2>2, <2>4
  <2>5. CASE x # a /\ x # c
    BY <2>1, <2>2, <2>5
  <2> QED  BY <2>3, <2>4, <2>5
<1> QED  BY <1>5, <1>8, <1>10, <1>11, <1>13, <1>14, <1>16 DEF Rotated

\* A rotation leaves the tree a tree of the same nodes.
LEMMA RotateTree ==
    ASSUME NEW m, NEW S, NEW f, Tree(m, S, f), NEW a \in Nodes, NEW d \in Sides,
           NEW c, c = m.kid[Other(d)][a], c # NULL, NEW k, Rotated(m, a, d, c, k)
    PROVE  \E g : Tree(k, S, g)
<1>1. PICK o : o = Other(d)
  BY Zenon
<1>2. o \in Sides /\ o # d /\ Sides = {d, o} /\ Other(o) = d
  BY <1>1, LiesFacts
<1>3. c \in Nodes /\ a \in S /\ c \in S /\ m.parent[c] = a /\ a # NULL
  BY <1>1, <1>2, KeyAssumption DEF Tree, Linked, Memory
<1>4. PICK A, b, E : A = m.kid[d][a] /\ b = m.kid[d][c] /\ E = m.kid[o][c]
  BY Zenon
<1>5. /\ f[a] = {a} \cup f[A] \cup f[c] /\ f[c] = {c} \cup f[b] \cup f[E]
      /\ A \in Nodes \cup {NULL} /\ b \in Nodes \cup {NULL} /\ E \in Nodes \cup {NULL}
      /\ a \notin f[c] /\ c \notin f[A] /\ a \notin f[A] /\ c \in f[c] /\ a \in f[a]
      /\ c \notin f[b] /\ c \notin f[E]
      /\ f[A] \subseteq Nodes /\ f[b] \subseteq Nodes /\ f[E] \subseteq Nodes
  <2>1. /\ f[a] = {a} \cup f[m.kid[d][a]] \cup f[m.kid[o][a]] /\ a \notin f[m.kid[d][a]]
        /\ m.kid[d][a] \in Nodes \cup {NULL} /\ f[m.kid[d][a]] \subseteq Nodes
        /\ f[m.kid[d][a]] \cap f[m.kid[o][a]] = {} /\ a \in f[a]
    BY <1>1, TreeFacts
  <2>2. a \notin f[m.kid[o][a]]
    BY <1>2, TreeFacts
  <2>3. /\ f[c] = {c} \cup f[m.kid[d][c]] \cup f[m.kid[o][c]] /\ c \notin f[m.kid[d][c]]
        /\ m.kid[d][c] \in Nodes \cup {NULL} /\ f[m.kid[d][c]] \subseteq Nodes /\ c \in f[c]
    BY <1>1, <1>3, TreeFacts
  <2>4. /\ c \notin f[m.kid[o][c]] /\ m.kid[o][c] \in Nodes \cup {NULL}
        /\ f[m.kid[o][c]] \subseteq Nodes
    BY <1>2, <1>3, TreeFacts
  <2> QED  BY <1>1, <1>4, <2>1, <2>2, <2>3, <2>4
<1>6. \A x \in Nodes : x \in f[x]
  BY TreeFacts
<1>7. {A, b, E} \cap {a, c} = {} /\ a # c
  BY <1>3, <1>5, <1>6
<1>8. PICK g : g = [x \in Nodes \cup {NULL} |->
                     IF x = a THEN {a} \cup f[A] \cup f[b] ELSE IF x = c THEN f[a] ELSE f[x]]
  BY Zenon
<1>9. /\ g \in [Nodes \cup {NULL} -> SUBSET Nodes] /\ g[NULL] = {}
      /\ g[a] = {a} \cup f[A] \cup f[b] /\ g[c] = f[a]
      /\ \A x \in Nodes \cup {NULL} : x # a /\ x # c => g[x] = f[x]
  <2>1. f \in [Nodes \cup {NULL} -> SUBSET Nodes] /\ f[NULL] = {}
    BY DEF Tree, Spans
  <2> QED  BY <1>3, <1>5, <1>7, <1>8, <2>1, KeyAssumption
<1>10. /\ k.kid[d][a] = A /\ k.kid[o][a] = b /\ k.kid[d][c] = a /\ k.kid[o][c] = E
  BY <1>2, <1>3, <1>4, <1>7 DEF Rotated
<1>11. /\ g[k.kid[d][a]] = f[A] /\ g[k.kid[o][a]] = f[b]
       /\ g[k.kid[d][c]] = g[a] /\ g[k.kid[o][c]] = f[E]
  BY <1>5, <1>7, <1>9, <1>10
<1>12. ASSUME NEW x \in Nodes, x # a, x # c, NEW e \in Sides
       PROVE  /\ k.kid[e][x] = IF m.kid[e][x] = a THEN c ELSE m.kid[e][x]
              /\ m.kid[e][x] # c
              /\ g[k.kid[e][x]] = f[m.kid[e][x]]
  <2>1. k.kid[e][x] = IF m.kid[e][x] = a THEN c ELSE m.kid[e][x]
    BY <1>12 DEF Rotated
  <2>2. m.kid[e][x] # c
    <3>1. m.kid[e][x] = c => m.parent[c] = x
      BY <1>3, KeyAssumption DEF Tree, Linked
    <3> QED  BY <1>3, <1>12, <3>1
  <2>3. m.kid[e][x] \in Nodes \cup {NULL}
    BY TreeFacts
  <2> QED  BY <1>9, <2>1, <2>2, <2>3
<1>13. m.root # c /\ f[m.root] = S /\ m.root \in Nodes \cup {NULL}
  BY <1>3 DEF Tree, Linked, Spans, Memory
<1>14. k.root = IF m.root = a THEN c ELSE m.root
  BY DEF Rotated
<1>15. g[k.root] = S
  BY <1>9, <1>13, <1>14
<1>16. ASSUME NEW x \in Nodes
       PROVE  g[x] = {x} \cup g[k.kid["left"][x]] \cup g[k.kid["right"][x]]
  <2>1. CASE x = a
    <3>1. g[x] = {x} \cup g[k.kid[d][x]] \cup g[k.kid[o][x]]
      BY <1>9, <1>11, <2>1
    <3> QED  BY <1>1, <3>1 DEF Other, Sides
  <2>2. CASE x = c
    <3>1. g[x] = {x} \cup g[k.kid[d][x]] \cup g[k.kid[o][x]]
      BY <1>5, <1>9, <1>11, <2>2
    <3> QED  BY <1>1, <3>1 DEF Other, Sides
  <2>3. CASE x # a /\ x # c
    <3>1. f[x] = {x} \cup f[m.kid["left"][x]] \cup f[m.kid["right"][x]]
      BY DEF Tree, Spans
    <3> QED  BY <1>9, <1>12, <2>3, <3>1 DEF Sides
  <2> QED  BY <2>1, <2>2, <2>3
<1>17. Spans(k, S, g)
  BY <1>9, <1>15, <1>16 DEF Spans
<1>18. /\ \A w \in f[A] : Lies(d, w, a)
       /\ \A w \in f[c] : Lies(o, w, a)
       /\ \A w \in f[b] : Lies(d, w, c)
       /\ \A w \in f[E] : Lies(o, w, c)
  BY <1>1, <1>2, <1>3, <1>4 DEF Tree, Ordered
<1>19. Lies(d, a, c)
  BY <1>1, <1>3, <1>5, <1>18, LiesFacts
<1>20. ASSUME NEW x \in Nodes, NEW e \in Sides, NEW w \in g[k.kid[e][x]] PROVE Lies(e, w, x)
  <2>1. CASE x = a
    <3>1. CASE e = d
      BY <1>11, <1>18, <1>20, <2>1, <3>1
    <3>2. CASE e = o
      BY <1>5, <1>11, <1>18, <1>20, <2>1, <3>2
    <3> QED  BY <1>2, <3>1, <3>2
  <2>2. CASE x = c
    <3>1. CASE e = d
      <4>1. w = a \/ w \in f[A] \/ w \in f[b]
        BY <1>9, <1>11, <1>20, <2>2, <3>1
      <4>2. ASSUME w \in f[A] PROVE Lies(d, w, c)
        <5>1. w \in Nodes /\ Lies(d, w, a)
          BY <1>5, <1>18, <4>2
        <5> QED  BY <1>3, <1>19, <5>1, LiesFacts
      <4> QED  BY <1>18, <1>19, <2>2, <3>1, <4>1, <4>2
    <3>2. CASE e = o
      BY <1>11, <1>18, <1>20, <2>2, <3>2
    <3> QED  BY <1>2, <3>1, <3>2
  <2>3. CASE x # a /\ x # c
    <3>1. w \in f[m.kid[e][x]]
      BY <1>12, <1>20, <2>3
    <3> QED  BY <3>1 DEF Tree, Ordered
  <2> QED  BY <2>1, <2>2, <2>3
<1>21. Ordered(k, g)
  BY <1>20 DEF Ordered
<1>22. /\ k.parent[c] = m.parent[a] /\ k.parent[a] = c
       /\ b # NULL => k.parent[b] = a
       /\ \A x \in Nodes : x \notin {a, b, c} => k.parent[x] = m.parent[x]
  BY <1>3, <1>4, <1>5, <1>7 DEF Rotated
<1>23. /\ A # NULL => A \in S /\ m.parent[A] = a
       /\ b # NULL => b \in S /\ m.parent[b] = c
       /\ E # NULL => E \in S /\ m.parent[E] = c
  BY <1>2, <1>3, <1>4 DEF Tree, Linked
<1>24. Linked(k, S)
  <2>1. k.root # NULL => k.parent[k.root] = NULL
    <3>1. m.root # NULL => m.parent[m.root] = NULL
      BY DEF Tree, Linked
    <3>2. CASE m.root = a
      BY <1>3, <1>14, <1>22, <3>1, <3>2
    <3>3. CASE m.root # a
      <4>1. m.root # NULL => m.root # b
        BY <1>3, <1>23, <3>1, KeyAssumption
      <4> QED  BY <1>13, <1>14, <1>22, <3>1, <3>3, <4>1
    <3> QED  BY <3>2, <3>3
  <2>2. ASSUME NEW x \in Nodes, NEW e \in Sides, k.kid[e][x] # NULL
        PROVE  x \in S /\ k.kid[e][x] \in S /\ k.parent[k.kid[e][x]] = x
    <3>1. CASE x = a
      <4>1. CASE e = d
        <5>1. k.kid[e][x] = A /\ A # NULL /\ A \in Nodes
          BY <1>5, <1>10, <2>2, <3>1, <4>1
        <5>2. A # b
          BY <1>7, <1>23, <5>1
        <5> QED  BY <1>3, <1>7, <1>22, <1>23, <3>1, <5>1, <5>2
      <4>2. CASE e = o
        BY <1>3, <1>10, <1>22, <1>23, <2>2, <3>1, <4>2
      <4> QED  BY <1>2, <4>1, <4>2
    <3>2. CASE x = c
      <4>1. CASE e = d
        BY <1>3, <1>10, <1>22, <3>2, <4>1
      <4>2. CASE e = o
        <5>1. k.kid[e][x] = E /\ E # NULL /\ E \in Nodes
          BY <1>5, <1>10, <2>2, <3>2, <4>2
        <5>2. E # b
          <6>1. f[b] \cap f[E] = {}
            BY <1>1, <1>3, <1>4, TreeFacts
          <6> QED  BY <1>6, <5>1, <6>1
        <5> QED  BY <1>3, <1>7, <1>22, <1>23, <3>2, <5>1, <5>2
      <4> QED  BY <1>2, <4>1, <4>2
    <3>3. CASE x # a /\ x # c
      <4>1. CASE m.kid[e][x] = a
        <5>1. k.kid[e][x] = c /\ m.parent[a] = x /\ x \in S
          BY <1>3, <1>12, <3>3, <4>1 DEF Tree, Linked
        <5> QED  BY <1>3, <1>22, <5>1
      <4>2. CASE m.kid[e][x] # a
        <5>1. PICK z : z = m.kid[e][x]
          BY Zenon
        <5>2. k.kid[e][x] = z /\ z # c /\ z # NULL
          BY <1>12, <2>2, <3>3, <4>2, <5>1
        <5>3. x \in S /\ z \in S /\ m.parent[z] = x
          BY <5>1, <5>2 DEF Tree, Linked
        <5>4. z # b /\ z \in Nodes
          BY <1>23, <3>3, <5>2, <5>3 DEF Tree
        <5> QED  BY <1>22, <4>2, <5>1, <5>2, <5>3, <5>4
      <4> QED  BY <4>1, <4>2
    <3> QED  BY <3>1, <3>2, <3>3
  <2>3. ASSUME NEW x \in S, k.parent[x] = NULL PROVE x = k.root
    <3>0. x \in Nodes /\ \A y \in S : m.parent[y] = NULL => y = m.root
      BY DEF Tree, Linked
    <3>1. CASE x = c
      BY <1>3, <1>14, <1>22, <2>3, <3>0, <3>1
    <3>2. CASE x = a
      BY <1>3, <1>22, <2>3, <3>2, KeyAssumption
    <3>3. CASE x = b
      BY <1>3, <1>22, <2>3, <3>0, <3>3, KeyAssumption
    <3>4. CASE x \notin {a, b, c}
      BY <1>14, <1>22, <2>3, <3>0, <3>4
    <3> QED  BY <3>1, <3>2, <3>3, <3>4
  <2>4. ASSUME NEW x \in Nodes, k.parent[x] # NULL
        PROVE  x \in S /\ k.parent[x] \in S /\ \E e \in Sides : k.kid[e][k.parent[x]] = x
    <3>0. \A y \in Nodes : m.parent[y] # NULL =>
             /\ y \in S /\ m.parent[y] \in S /\ m.parent[y] \in Nodes
             /\ \E e \in Sides : m.kid[e][m.parent[y]] = y
      BY DEF Tree, Linked
    <3>1. CASE x = c
      <4>1. k.parent[x] = m.parent[a] /\ m.parent[a] # NULL
        BY <1>22, <2>4, <3>1
      <4>2. PICK e \in Sides : m.kid[e][m.parent[a]] = a
        BY <3>0, <4>1
      <4>3. m.parent[a] # a /\ m.parent[a] # c
        <5>1. PICK p : p = m.parent[a]
          BY Zenon
        <5>2. p \in Nodes /\ a = m.kid[e][p]
          BY <3>0, <4>1, <4>2, <5>1
        <5>3. p \notin f[a]
          BY <5>2, ChildSpan
        <5> QED  BY <1>5, <5>1, <5>3
      <4>4. k.kid[e][m.parent[a]] = c
        BY <1>12, <3>0, <4>1, <4>2, <4>3
      <4> QED  BY <1>3, <3>0, <3>1, <4>1, <4>4
    <3>2. CASE x = a
      BY <1>3, <1>10, <1>22, <3>2
    <3>3. CASE x = b
      <4>1. b # NULL
        BY <3>3, KeyAssumption
      <4> QED  BY <1>2, <1>3, <1>10, <1>22, <1>23, <3>3, <4>1
    <3>4. CASE x \notin {a, b, c}
      <4>1. k.parent[x] = m.parent[x] /\ m.parent[x] # NULL
        BY <1>22, <2>4, <3>4
      <4>2. PICK p : p = m.parent[x]
        BY Zenon
      <4>3. PICK e \in Sides : m.kid[e][p] = x
        BY <3>0, <4>1, <4>2
      <4>4. x \in S /\ p \in S /\ p \in Nodes
        BY <3>0, <4>1, <4>2
      <4>5. CASE p = a
        <5>1. e = d
          BY <1>1, <1>2, <3>4, <4>3, <4>5
        <5> QED  BY <1>4, <1>10, <4>1, <4>2, <4>3, <4>4, <4>5, <5>1
      <4>6. CASE p = c
        <5>1. e = o
          BY <1>2, <1>4, <3>4, <4>3, <4>6
        <5> QED  BY <1>4, <1>10, <4>1, <4>2, <4>3, <4>4, <4>6, <5>1
      <4>7. CASE p # a /\ p # c
        <5>1. k.kid[e][p] = x
          BY <1>12, <3>4, <4>3, <4>4, <4>7
        <5> QED  BY <4>1, <4>2, <4>4, <5>1
      <4> QED  BY <4>5, <4>6, <4>7
    <3> QED  BY <3>1, <3>2, <3>3, <3>4
  <2> QED  BY <2>1, <2>2, <2>3, <2>4 DEF Linked
<1> QED  BY <1>17, <1>21, <1>24 DEF Tree, Rotated

\* The tree without n, when n has one child at most: y, on side d.
LEMMA OuterTree ==
    ASSUME NEW m, NEW S, NEW f, Tree(m, S, f), NEW n \in S, NEW d \in Sides,
           NEW y, y = m.kid[d][n], m.kid[Other(d)][n] = NULL, NEW k \in Memory,
           k.root = IF m.root = n THEN y ELSE m.root,
           \A x \in Nodes, e \in Sides :
              k.kid[e][x] = IF x = n THEN NULL
                            ELSE IF m.kid[e][x] = n THEN y ELSE m.kid[e][x],
           \A x \in Nodes :
              k.parent[x] = IF x = n THEN NULL
                            ELSE IF x = y THEN m.parent[n] ELSE m.parent[x]
    PROVE  \E g : Tree(k, S \ {n}, g)
<1>1. /\ n \in Nodes /\ n # NULL /\ S \subseteq Nodes /\ y \in Nodes \cup {NULL}
      /\ f \in [Nodes \cup {NULL} -> SUBSET Nodes] /\ f[NULL] = {} /\ f[m.root] = S
  BY KeyAssumption DEF Tree, Spans, Memory
<1>2. f[n] = {n} \cup f[y] /\ n \notin f[y] /\ y # n
  BY <1>1, TreeFacts
<1>3. y # NULL => y \in S /\ m.parent[y] = n
  BY <1>1 DEF Tree, Linked
<1>4. PICK g : g = [x \in Nodes \cup {NULL} |-> IF x = n THEN {n} ELSE f[x] \ {n}]
  BY Zenon
<1>5. /\ g \in [Nodes \cup {NULL} -> SUBSET Nodes] /\ g[NULL] = {} /\ g[n] = {n}
      /\ \A x \in Nodes \cup {NULL} : x # n => g[x] = f[x] \ {n}
  BY <1>1, <1>4
<1>6. m.root # NULL => m.parent[m.root] = NULL
  BY DEF Tree, Linked
<1>7. m.root \in Nodes \cup {NULL} /\ (m.root # NULL => m.root # y)
  BY <1>1, <1>3, <1>6 DEF Tree, Memory
<1>8. g[k.root] = S \ {n}
  BY <1>1, <1>2, <1>5, <1>7
<1>9. ASSUME NEW x \in Nodes, x # n, NEW e \in Sides
      PROVE  /\ k.kid[e][x] = IF m.kid[e][x] = n THEN y ELSE m.kid[e][x]
             /\ g[k.kid[e][x]] = f[m.kid[e][x]] \ {n}
  <2>1. m.kid[e][x] \in Nodes \cup {NULL}
    BY TreeFacts
  <2> QED  BY <1>1, <1>2, <1>5, <1>9, <2>1
<1>10. \A e \in Sides : k.kid[e][n] = NULL
  BY <1>1
<1>11. ASSUME NEW x \in Nodes
       PROVE  g[x] = {x} \cup g[k.kid["left"][x]] \cup g[k.kid["right"][x]]
  <2>1. CASE x = n
    BY <1>5, <1>10, <2>1 DEF Sides
  <2>2. CASE x # n
    <3>1. f[x] = {x} \cup f[m.kid["left"][x]] \cup f[m.kid["right"][x]]
      BY DEF Tree, Spans
    <3> QED  BY <1>5, <1>9, <2>2, <3>1 DEF Sides
  <2> QED  BY <2>1, <2>2
<1>12. Spans(k, S \ {n}, g)
  BY <1>5, <1>8, <1>11 DEF Spans
<1>13. Ordered(k, g)
  BY <1>5, <1>9, <1>10 DEF Ordered, Tree
<1>14. Linked(k, S \ {n})
  <2>1. k.root # NULL => k.parent[k.root] = NULL
    BY <1>1, <1>2, <1>6, <1>7
  <2>2. ASSUME NEW x \in Nodes, NEW e \in Sides, k.kid[e][x] # NULL
        PROVE  x \in S \ {n} /\ k.kid[e][x] \in S \ {n} /\ k.parent[k.kid[e][x]] = x
    <3>1. x # n
      BY <1>10, <2>2
    <3>2. m.kid[e][x] # NULL => x \in S /\ m.kid[e][x] \in S /\ m.parent[m.kid[e][x]] = x
      BY DEF Tree, Linked
    <3>3. CASE m.kid[e][x] = n
      BY <1>1, <1>2, <1>3, <1>9, <2>2, <3>1, <3>2, <3>3
    <3>4. CASE m.kid[e][x] # n
      BY <1>1, <1>2, <1>3, <1>9, <2>2, <3>1, <3>2, <3>4
    <3> QED  BY <3>3, <3>4
  <2>3. ASSUME NEW x \in S \ {n}, k.parent[x] = NULL PROVE x = k.root
    BY <1>1, <1>2, <2>3 DEF Tree, Linked
  <2>4. ASSUME NEW x \in Nodes, k.parent[x] # NULL
        PROVE  /\ x \in S \ {n} /\ k.parent[x] \in S \ {n}
               /\ \E e \in Sides : k.kid[e][k.parent[x]] = x
    <3>0. \A z \in Nodes : m.parent[z] # NULL =>
             /\ z \in S /\ m.parent[z] \in S /\ m.parent[z] \in Nodes
             /\ \E e \in Sides : m.kid[e][m.parent[z]] = z
      BY <1>1 DEF Tree, Linked
    <3>1. x # n
      BY <2>4
    <3>2. CASE x = y
      <4>1. k.parent[x] = m.parent[n] /\ m.parent[n] # NULL
        BY <2>4, <3>1, <3>2
      <4>2. PICK e \in Sides : m.kid[e][m.parent[n]] = n
        BY <1>1, <3>0, <4>1
      <4>3. m.parent[n] # n
        BY <1>1, <4>2, ChildSpan
      <4>4. k.kid[e][m.parent[n]] = y
        BY <1>1, <1>9, <3>0, <4>1, <4>2, <4>3
      <4> QED  BY <1>1, <1>3, <3>0, <3>1, <3>2, <4>1, <4>3, <4>4, KeyAssumption
    <3>3. CASE x # y
      <4>1. k.parent[x] = m.parent[x] /\ m.parent[x] # NULL
        BY <2>4, <3>1, <3>3
      <4>2. PICK e \in Sides : m.kid[e][m.parent[x]] = x
        BY <3>0, <4>1
      <4>3. m.parent[x] # n
        <5>1. e = d \/ e = Other(d)
          BY <1>1, LiesFacts
        <5> QED  BY <3>3, <4>2, <5>1, KeyAssumption
      <4>4. k.kid[e][m.parent[x]] = x
        BY <1>9, <3>0, <3>1, <4>1, <4>2, <4>3
      <4> QED  BY <3>0, <3>1, <4>1, <4>3, <4>4
    <3> QED  BY <3>2, <3>3
  <2> QED  BY <2>1, <2>2, <2>3, <2>4 DEF Linked
<1> QED  BY <1>1, <1>12, <1>13, <1>14 DEF Tree

\* The node y that takes the place of n: the first of the right subtree.
Successor(m, f, n, y) ==
    /\ y \in Nodes /\ Extreme(f, m.kid["right"][n], "left", y)
    /\ m.kid["left"][y] = NULL

\* Where the successor stands.
LEMMA SuccessorFacts ==
    ASSUME NEW m, NEW S, NEW f, Tree(m, S, f), NEW n \in S,
           m.kid["left"][n] # NULL, m.kid["right"][n] # NULL,
           NEW y, Successor(m, f, n, y), NEW p, p = m.parent[y],
           NEW L, L = m.kid["left"][n], NEW R, R = m.kid["right"][n],
           NEW X, X = m.kid["right"][y]
    PROVE  /\ n \in Nodes /\ L \in Nodes /\ R \in Nodes /\ X \in Nodes \cup {NULL}
           /\ p \in Nodes /\ y \in S /\ L \in S /\ R \in S /\ p \in S
           /\ m.parent[L] = n /\ m.parent[R] = n
           /\ X # NULL => X \in S /\ m.parent[X] = y
           /\ f[n] = {n} \cup f[L] \cup f[R] /\ n \notin f[L] /\ n \notin f[R]
           /\ f[L] \cap f[R] = {} /\ y \in f[R] /\ y \in f[y] /\ f[y] = {y} \cup f[X]
           /\ y \notin f[X] /\ f[y] \subseteq f[R]
           /\ p = n => y = R
           /\ p # n => y # R /\ p \in f[R] /\ p # y /\ m.kid["left"][p] = y
<1>0. "left" \in Sides /\ "right" \in Sides /\ Other("left") = "right" /\ Other("right") = "left"
  BY DEF Sides, Other
<1>1. n \in Nodes /\ y \in Nodes /\ S \subseteq Nodes
  BY DEF Tree, Successor
<1>2. L \in Nodes /\ R \in Nodes /\ X \in Nodes \cup {NULL}
  BY <1>0, <1>1, TreeFacts
<1>3. L \in S /\ R \in S /\ m.parent[L] = n /\ m.parent[R] = n
  BY <1>0, <1>1 DEF Tree, Linked
<1>4. X # NULL => X \in S /\ m.parent[X] = y
  BY <1>0, <1>1 DEF Tree, Linked
<1>5. f[n] = {n} \cup f[L] \cup f[R] /\ n \notin f[L] /\ n \notin f[R] /\ f[L] \cap f[R] = {}
  <2>1. ASSUME NEW d \in Sides
        PROVE  /\ f[n] = {n} \cup f[m.kid[d][n]] \cup f[m.kid[Other(d)][n]]
               /\ n \notin f[m.kid[d][n]]
               /\ f[m.kid[d][n]] \cap f[m.kid[Other(d)][n]] = {}
    BY <1>1, TreeFacts
  <2> QED  BY <1>0, <2>1
<1>6. y \in f[R] /\ \A w \in f[R] : w = y \/ Lies("right", w, y)
  BY <1>0 DEF Successor, Extreme
<1>7. y \in f[y] /\ f[y] = {y} \cup f[X] /\ y \notin f[X]
  <2>1. /\ y \in f[y] /\ y \notin f[X]
        /\ f[y] = {y} \cup f[X] \cup f[m.kid[Other("right")][y]]
    BY <1>0, <1>1, TreeFacts
  <2>2. f[m.kid["left"][y]] = {}
    BY DEF Successor, Tree, Spans
  <2> QED  BY <1>0, <2>1, <2>2
<1>8. f[y] \subseteq f[R] /\ f[R] \subseteq S /\ y \in S
  BY <1>2, <1>3, <1>6, Within, SpanMembers
<1>9. p # NULL /\ p \in S /\ p \in Nodes
  <2>1. y # m.root
    <3>1. f[m.root] = S /\ n \in S
      BY DEF Tree, Spans
    <3>2. n \notin f[y]
      BY <1>5, <1>8
    <3> QED  BY <3>1, <3>2
  <2> QED  BY <1>1, <1>8, <2>1 DEF Tree, Linked
<1>10. ASSUME p = n PROVE y = R
  <2>1. PICK e \in Sides : m.kid[e][n] = y
    BY <1>1, <1>9, <1>10 DEF Tree, Linked
  <2>2. e = "left" => y = L
    BY <2>1
  <2>3. L \in f[L]
    BY <1>2, <1>0, TreeFacts
  <2> QED  BY <1>5, <1>6, <2>1, <2>2, <2>3 DEF Sides
<1>11. ASSUME p # n PROVE y # R /\ p \in f[R] /\ p # y /\ m.kid["left"][p] = y
  <2>1. y # R
    BY <1>3, <1>11
  <2>2. p \in f[R]
    BY <1>2, <1>6, <2>1, Above
  <2>3. PICK e \in Sides : m.kid[e][p] = y
    BY <1>1, <1>9 DEF Tree, Linked
  <2>4. p # y
    BY <1>9, <2>3, ChildSpan
  <2>5. Lies("right", p, y) /\ Lies(e, y, p)
    BY <1>6, <1>7, <1>9, <2>2, <2>3, <2>4, TreeFacts
  <2>6. e # "right"
    <3>1. ~Lies("right", y, p)
      BY <1>0, <1>1, <1>9, <2>5, LiesFacts
    <3> QED  BY <2>5, <3>1
  <2> QED  BY <2>1, <2>2, <2>3, <2>4, <2>6 DEF Sides
<1> QED  BY <1>1, <1>2, <1>3, <1>4, <1>5, <1>6, <1>7, <1>8, <1>9, <1>10, <1>11

\* The fields when y has taken the place of n.
TakenOut(m, n, y, k) ==
    LET p == m.parent[y]
        L == m.kid["left"][n]
        R == m.kid["right"][n]
        X == m.kid["right"][y]
    IN  /\ k \in Memory
        /\ k.root = IF m.root = n THEN y ELSE m.root
        /\ \A x \in Nodes, e \in Sides :
             k.kid[e][x] = IF x = n THEN NULL
                           ELSE IF x = y
                           THEN IF e = "left" THEN L ELSE IF p = n THEN X ELSE R
                           ELSE IF m.kid[e][x] = n THEN y
                           ELSE IF m.kid[e][x] = y THEN X ELSE m.kid[e][x]
        /\ \A x \in Nodes :
             k.parent[x] = IF x = n THEN NULL ELSE IF x = y THEN m.parent[n]
                           ELSE IF x = L \/ x = R THEN y
                           ELSE IF x = X THEN IF p = n THEN y ELSE p
                           ELSE m.parent[x]

\* The tree without n, when n has two children.
LEMMA InnerTree ==
    ASSUME NEW m, NEW S, NEW f, Tree(m, S, f), NEW n \in S,
           m.kid["left"][n] # NULL, m.kid["right"][n] # NULL,
           NEW y, Successor(m, f, n, y), NEW k, TakenOut(m, n, y, k)
    PROVE  \E g : Tree(k, S \ {n}, g)
<1>0. "left" \in Sides /\ "right" \in Sides /\ Other("left") = "right" /\ Other("right") = "left"
  BY DEF Sides, Other
<1>1. PICK p, L, R, X : /\ p = m.parent[y] /\ L = m.kid["left"][n]
                        /\ R = m.kid["right"][n] /\ X = m.kid["right"][y]
  BY Zenon
<1>2. /\ n \in Nodes /\ L \in Nodes /\ R \in Nodes /\ X \in Nodes \cup {NULL}
      /\ p \in Nodes /\ y \in S /\ L \in S /\ R \in S /\ p \in S
      /\ m.parent[L] = n /\ m.parent[R] = n
      /\ X # NULL => X \in S /\ m.parent[X] = y
      /\ f[n] = {n} \cup f[L] \cup f[R] /\ n \notin f[L] /\ n \notin f[R]
      /\ f[L] \cap f[R] = {} /\ y \in f[R] /\ y \in f[y] /\ f[y] = {y} \cup f[X]
      /\ y \notin f[X] /\ f[y] \subseteq f[R]
      /\ p = n => y = R
      /\ p # n => y # R /\ p \in f[R] /\ p # y /\ m.kid["left"][p] = y
  BY <1>1, SuccessorFacts
<1>3. /\ S \subseteq Nodes /\ y \in Nodes /\ n # NULL /\ y # NULL
      /\ f \in [Nodes \cup {NULL} -> SUBSET Nodes] /\ f[NULL] = {} /\ f[m.root] = S
  BY <1>2, KeyAssumption DEF Tree, Spans
<1>4. \A x \in Nodes : x \in f[x]
  BY <1>0, TreeFacts
<1>5. /\ n # y /\ L # y /\ L # n /\ R # n /\ X # n /\ X # y /\ L # X /\ L # R
      /\ n \notin f[y] /\ n \notin f[X] /\ y \notin f[L]
  BY <1>2, <1>3, <1>4, KeyAssumption
<1>6. PICK g : g = [x \in Nodes \cup {NULL} |->
                      IF x = n THEN {n} ELSE IF x = y THEN f[n] \ {n}
                      ELSE IF n \in f[x] THEN f[x] \ {n} ELSE f[x] \ {y}]
  BY Zenon
<1>7. /\ g \in [Nodes \cup {NULL} -> SUBSET Nodes] /\ g[NULL] = {} /\ g[n] = {n}
      /\ g[y] = f[n] \ {n}
      /\ \A x \in Nodes \cup {NULL} : x # n /\ x # y =>
            g[x] = IF n \in f[x] THEN f[x] \ {n} ELSE f[x] \ {y}
  BY <1>2, <1>3, <1>5, <1>6
<1>19. \A x \in Nodes \cup {NULL} : n \notin f[x] /\ y \notin f[x] => g[x] = f[x]
  <2>1. ASSUME NEW x \in Nodes \cup {NULL}, n \notin f[x], y \notin f[x] PROVE g[x] = f[x]
    <3>1. x # n /\ x # y
      BY <1>2, <1>4, <2>1
    <3>2. g[x] = f[x] \ {y}
      BY <1>7, <2>1, <3>1
    <3> QED  BY <2>1, <3>2
  <2> QED  BY <2>1
<1>20. g[L] = f[L] /\ g[X] = f[X]
  BY <1>2, <1>5, <1>19
<1>8. /\ \A e \in Sides : k.kid[e][n] = NULL
      /\ k.kid["left"][y] = L /\ k.kid["right"][y] = IF p = n THEN X ELSE R
      /\ \A x \in Nodes, e \in Sides : x # n /\ x # y =>
           k.kid[e][x] = IF m.kid[e][x] = n THEN y
                         ELSE IF m.kid[e][x] = y THEN X ELSE m.kid[e][x]
  BY <1>0, <1>1, <1>2, <1>3, <1>5 DEF TakenOut
<1>9. ASSUME NEW x \in Nodes, x # n, x # y, NEW e \in Sides
      PROVE  g[k.kid[e][x]] = f[m.kid[e][x]] \ {IF n \in f[x] THEN n ELSE y}
  <2>1. PICK z : z = m.kid[e][x]
    BY Zenon
  <2>2. /\ z \in Nodes \cup {NULL} /\ f[z] \subseteq f[x]
        /\ f[z] \cap f[m.kid[Other(e)][x]] = {}
        /\ f[x] = {x} \cup f[z] \cup f[m.kid[Other(e)][x]]
    BY <2>1, TreeFacts
  <2>3. k.kid[e][x] = IF z = n THEN y ELSE IF z = y THEN X ELSE z
    BY <1>8, <1>9, <2>1
  <2>4. CASE n \in f[x]
    <3>1. CASE n \in f[z]
      <4>1. z # y
        BY <1>5, <3>1
      <4> QED  BY <1>7, <2>1, <2>2, <2>3, <2>4, <3>1, <4>1
    <3>2. CASE n \notin f[z]
      <4>1. PICK v : v = m.kid[Other(e)][x]
        BY Zenon
      <4>2. n \in f[v]
        BY <1>9, <2>2, <2>4, <3>2, <4>1
      <4>3. v \in Nodes
        <5>1. Other(e) \in Sides
          BY LiesFacts
        <5> QED  BY <4>1, <4>2, <5>1, TreeFacts
      <4>4. f[n] \subseteq f[v]
        BY <4>2, <4>3, Within
      <4>5. y \notin f[z] /\ z # y /\ z # n
        BY <1>2, <1>4, <2>2, <3>2, <4>1, <4>4
      <4>6. g[z] = f[z]
        BY <1>19, <2>2, <3>2, <4>5
      <4> QED  BY <2>1, <2>3, <2>4, <3>2, <4>5, <4>6
    <3> QED  BY <3>1, <3>2
  <2>5. CASE n \notin f[x]
    <3>1. n \notin f[z] /\ z # n
      BY <1>2, <1>4, <2>2, <2>5
    <3>2. CASE z = y
      BY <1>2, <1>5, <1>20, <2>1, <2>3, <2>5, <3>1, <3>2
    <3>3. CASE z # y
      BY <1>7, <2>1, <2>2, <2>3, <2>5, <3>1, <3>3
    <3> QED  BY <3>2, <3>3
  <2> QED  BY <2>4, <2>5
<1>10. g[L] = f[L] /\ g[k.kid["right"][y]] = f[R] \ {y}
  <2>1. CASE p = n
    BY <1>2, <1>8, <1>20, <2>1
  <2>2. CASE p # n
    BY <1>2, <1>5, <1>7, <1>8, <1>20, <2>2
  <2> QED  BY <2>1, <2>2
<1>11. ASSUME NEW x \in Nodes
       PROVE  g[x] = {x} \cup g[k.kid["left"][x]] \cup g[k.kid["right"][x]]
  <2>1. CASE x = n
    BY <1>7, <1>8, <2>1 DEF Sides
  <2>2. CASE x = y
    BY <1>2, <1>5, <1>7, <1>8, <1>10, <2>2
  <2>3. CASE x # n /\ x # y
    <3>1. f[x] = {x} \cup f[m.kid["left"][x]] \cup f[m.kid["right"][x]]
      BY DEF Tree, Spans
    <3>2. PICK c : c = IF n \in f[x] THEN n ELSE y
      BY Zenon
    <3>3. g[x] = f[x] \ {c} /\ x # c
      BY <1>7, <2>3, <3>2
    <3>4. /\ g[k.kid["left"][x]] = f[m.kid["left"][x]] \ {c}
          /\ g[k.kid["right"][x]] = f[m.kid["right"][x]] \ {c}
      BY <1>0, <1>9, <2>3, <3>2
    <3> QED  BY <3>1, <3>3, <3>4
  <2> QED  BY <2>1, <2>2, <2>3
<1>12. m.root \in Nodes \cup {NULL} /\ m.root # y /\ k.root = IF m.root = n THEN y ELSE m.root
  BY <1>2, <1>3, <1>5 DEF Tree, Memory, TakenOut
<1>13. g[k.root] = S \ {n}
  BY <1>3, <1>7, <1>12
<1>14. Spans(k, S \ {n}, g)
  BY <1>7, <1>11, <1>13 DEF Spans
<1>15. ASSUME NEW x \in Nodes, NEW e \in Sides, NEW w \in g[k.kid[e][x]] PROVE Lies(e, w, x)
  <2>1. x # n
    BY <1>7, <1>8, <1>15
  <2>2. CASE x = y
    <3>1. CASE e = "left"
      <4>1. w \in f[L] /\ w \in Nodes
        BY <1>2, <1>3, <1>8, <1>10, <1>15, <2>2, <3>1
      <4>2. Lies("left", w, n) /\ Lies("right", y, n)
        BY <1>0, <1>1, <1>2, <4>1, TreeFacts
      <4>3. Lies("left", n, y)
        BY <1>0, <1>2, <1>3, <4>2, LiesFacts
      <4> QED  BY <1>0, <1>2, <1>3, <2>2, <3>1, <4>1, <4>2, <4>3, LiesFacts
    <3>2. CASE e = "right"
      <4>1. w \in f[R] /\ w # y
        BY <1>10, <1>15, <2>2, <3>2
      <4> QED  BY <1>0, <1>1, <2>2, <3>2, <4>1 DEF Successor, Extreme
    <3> QED  BY <3>1, <3>2 DEF Sides
  <2>3. CASE x # y
    <3>1. w \in f[m.kid[e][x]]
      BY <1>9, <1>15, <2>1, <2>3
    <3> QED  BY <3>1 DEF Tree, Ordered
  <2> QED  BY <2>2, <2>3
<1>16. Ordered(k, g)
  BY <1>15 DEF Ordered
<1>17. /\ k.parent[n] = NULL /\ k.parent[y] = m.parent[n] /\ k.parent[L] = y
       /\ R # y => k.parent[R] = y
       /\ \A x \in Nodes : x \notin {n, y, L, R} =>
            k.parent[x] = IF x = X THEN IF p = n THEN y ELSE p ELSE m.parent[x]
  BY <1>1, <1>2, <1>3, <1>5 DEF TakenOut
<1>18. Linked(k, S \ {n})
  <2>0. /\ m.root # NULL => m.parent[m.root] = NULL
        /\ \A x \in Nodes, e \in Sides : m.kid[e][x] # NULL =>
             x \in S /\ m.kid[e][x] \in S /\ m.parent[m.kid[e][x]] = x
        /\ \A x \in S : m.parent[x] = NULL => x = m.root
        /\ \A z \in Nodes : m.parent[z] # NULL =>
             /\ z \in S /\ m.parent[z] \in S /\ m.parent[z] \in Nodes
             /\ \E e \in Sides : m.kid[e][m.parent[z]] = z
    BY <1>3 DEF Tree, Linked
  <2>1. k.root # NULL => k.parent[k.root] = NULL
    <3>1. CASE m.root = n
      BY <1>3, <1>12, <1>17, <2>0, <3>1
    <3>2. CASE m.root # n
      <4>1. m.root # NULL => m.root \notin {n, y, L, R, X}
        BY <1>2, <1>3, <1>12, <2>0, <3>2, KeyAssumption
      <4> QED  BY <1>12, <1>17, <2>0, <3>2, <4>1
    <3> QED  BY <3>1, <3>2
  <2>2. ASSUME NEW x \in Nodes, NEW e \in Sides, k.kid[e][x] # NULL
        PROVE  x \in S \ {n} /\ k.kid[e][x] \in S \ {n} /\ k.parent[k.kid[e][x]] = x
    <3>1. x # n
      BY <1>8, <2>2
    <3>2. CASE x = y
      <4>1. CASE e = "left"
        BY <1>2, <1>5, <1>8, <1>17, <3>2, <4>1
      <4>2. CASE e = "right" /\ p = n
        <5>1. k.kid[e][x] = X /\ X # NULL /\ X \in Nodes
          BY <1>2, <1>8, <2>2, <3>2, <4>2
        <5>2. X \notin {n, y, L, R}
          BY <1>2, <1>5, <4>2
        <5> QED  BY <1>2, <1>5, <1>17, <3>2, <4>2, <5>1, <5>2
      <4>3. CASE e = "right" /\ p # n
        BY <1>2, <1>5, <1>8, <1>17, <3>2, <4>3
      <4> QED  BY <4>1, <4>2, <4>3 DEF Sides
    <3>3. CASE x # y
      <4>1. PICK z : z = m.kid[e][x]
        BY Zenon
      <4>2. k.kid[e][x] = IF z = n THEN y ELSE IF z = y THEN X ELSE z
        BY <1>8, <3>1, <3>3, <4>1
      <4>3. z # NULL => x \in S /\ z \in S /\ m.parent[z] = x
        BY <2>0, <4>1
      <4>4. CASE z = n
        BY <1>2, <1>3, <1>5, <1>17, <3>1, <4>2, <4>3, <4>4
      <4>5. CASE z = y
        <5>1. x = p /\ p # n /\ x \in S
          BY <1>1, <1>3, <3>1, <4>3, <4>5
        <5>2. k.kid[e][x] = X /\ X # NULL /\ X \in Nodes /\ X \in S
          BY <1>2, <1>5, <2>2, <4>2, <4>5
        <5>3. X \notin {n, y, L, R}
          BY <1>2, <1>5, <5>2
        <5> QED  BY <1>17, <3>1, <5>1, <5>2, <5>3
      <4>6. CASE z # n /\ z # y
        <5>1. k.kid[e][x] = z /\ z # NULL /\ z \in Nodes
          BY <1>3, <2>2, <4>2, <4>3, <4>6
        <5>2. z \notin {n, y, L, R, X}
          BY <1>2, <3>1, <3>3, <4>3, <4>6, <5>1
        <5> QED  BY <1>17, <3>1, <4>3, <4>6, <5>1, <5>2
      <4> QED  BY <4>4, <4>5, <4>6
    <3> QED  BY <3>2, <3>3
  <2>3. ASSUME NEW x \in S \ {n}, k.parent[x] = NULL PROVE x = k.root
    <3>1. CASE x = y
      BY <1>12, <1>17, <2>0, <2>3, <3>1
    <3>2. CASE x \in {L, R} /\ x # y
      BY <1>3, <1>17, <2>3, <3>2
    <3>3. CASE x \notin {n, y, L, R}
      <4>1. x # X
        BY <1>2, <1>3, <1>17, <2>3, <3>3, KeyAssumption
      <4> QED  BY <1>3, <1>12, <1>17, <2>0, <2>3, <3>3, <4>1
    <3> QED  BY <2>3, <3>1, <3>2, <3>3
  <2>4. ASSUME NEW x \in Nodes, k.parent[x] # NULL
        PROVE  /\ x \in S \ {n} /\ k.parent[x] \in S \ {n}
               /\ \E e \in Sides : k.kid[e][k.parent[x]] = x
    <3>1. x # n
      BY <1>17, <2>4
    <3>2. CASE x = y
      <4>1. PICK q : q = m.parent[n]
        BY Zenon
      <4>2. k.parent[x] = q /\ q # NULL
        BY <1>17, <2>4, <3>2, <4>1
      <4>3. PICK e \in Sides : m.kid[e][q] = n
        BY <1>2, <2>0, <4>1, <4>2
      <4>4. q \in S /\ q \in Nodes
        BY <1>2, <2>0, <4>1, <4>2
      <4>5. q \notin f[n]
        BY <4>3, <4>4, ChildSpan
      <4>6. q # n /\ q # y
        BY <1>2, <4>5
      <4>7. k.kid[e][q] = y
        BY <1>8, <4>3, <4>4, <4>6
      <4> QED  BY <1>2, <1>5, <3>2, <4>2, <4>4, <4>6, <4>7
    <3>3. CASE x = L
      BY <1>0, <1>2, <1>5, <1>8, <1>17, <3>3
    <3>4. CASE x = R /\ x # y
      <4>1. p # n
        BY <1>2, <3>4
      <4> QED  BY <1>0, <1>2, <1>5, <1>8, <1>17, <3>4, <4>1
    <3>5. CASE x = X /\ x \notin {n, y, L, R}
      <4>1. X # NULL
        BY <3>5, KeyAssumption
      <4>2. CASE p = n
        BY <1>0, <1>2, <1>5, <1>8, <1>17, <3>5, <4>1, <4>2
      <4>3. CASE p # n
        <5>1. k.kid["left"][p] = X
          BY <1>0, <1>2, <1>5, <1>8, <4>3
        <5> QED  BY <1>0, <1>2, <1>17, <3>1, <3>5, <4>1, <4>3, <5>1
      <4> QED  BY <4>2, <4>3
    <3>6. CASE x \notin {n, y, L, R, X}
      <4>1. PICK q : q = m.parent[x]
        BY Zenon
      <4>2. k.parent[x] = q /\ q # NULL
        BY <1>17, <2>4, <3>6, <4>1
      <4>3. PICK e \in Sides : m.kid[e][q] = x
        BY <2>0, <4>1, <4>2
      <4>4. q \in S /\ q \in Nodes /\ x \in S
        BY <2>0, <4>1, <4>2
      <4>5. q # n
        BY <1>1, <3>6, <4>3 DEF Sides
      <4>6. q # y
        <5>1. m.kid["left"][y] = NULL
          BY DEF Successor
        <5> QED  BY <1>1, <3>6, <4>3, <5>1, KeyAssumption DEF Sides
      <4>7. k.kid[e][q] = x
        BY <1>8, <3>6, <4>3, <4>4, <4>5, <4>6
      <4> QED  BY <3>1, <4>2, <4>4, <4>5, <4>7
    <3> QED  BY <3>1, <3>2, <3>3, <3>4, <3>5, <3>6
  <2> QED  BY <2>1, <2>2, <2>3, <2>4 DEF Linked
<1> QED  BY <1>3, <1>14, <1>16, <1>18 DEF Tree, TakenOut

\* What Forget does to the fields.
Forgotten(m, n, k) ==
    /\ k \in Memory /\ k.root = m.root /\ k.cached_min = m.cached_min
    /\ \A x \in Nodes : /\ k.color[x] = IF x = n THEN "RED" ELSE m.color[x]
                        /\ k.parent[x] = IF x = n THEN NULL ELSE m.parent[x]
    /\ \A x \in Nodes, e \in Sides : k.kid[e][x] = IF x = n THEN NULL ELSE m.kid[e][x]

\* Forget has that effect.
LEMMA ForgetFields ==
    ASSUME NEW m \in Memory, NEW n \in Nodes
    PROVE  Forgotten(m, n, Forget(m, n))
<1>1. PICK co, pa, ki : /\ co = [m.color EXCEPT ![n] = "RED"]
                        /\ pa = [m.parent EXCEPT ![n] = NULL]
                        /\ ki = [d \in Sides |-> [m.kid[d] EXCEPT ![n] = NULL]]
  BY Zenon
<1>2. Forget(m, n) = [m EXCEPT !.color = co, !.parent = pa, !.kid = ki]
  BY <1>1 DEF Forget, Memory
<1>3. /\ co \in [Nodes -> {"RED", "BLACK"}]
      /\ \A x \in Nodes : co[x] = IF x = n THEN "RED" ELSE m.color[x]
  BY <1>1 DEF Memory
<1>4. /\ pa \in [Nodes -> Nodes \cup {NULL}]
      /\ \A x \in Nodes : pa[x] = IF x = n THEN NULL ELSE m.parent[x]
  BY <1>1 DEF Memory
<1>5. /\ ki \in [Sides -> [Nodes -> Nodes \cup {NULL}]]
      /\ \A x \in Nodes, e \in Sides : ki[e][x] = IF x = n THEN NULL ELSE m.kid[e][x]
  BY <1>1 DEF Memory, Sides
<1> QED  BY <1>2, <1>3, <1>4, <1>5 DEF Forgotten, Memory

\* What the removal of n leaves: a tree, where to rebalance it, and a root that
\* is black unless the rebalancing is about to paint it.
Removed(m, S, n, r, k) ==
    /\ \E g : Tree(k, S \ {n}, g)
    /\ k.cached_min = m.cached_min
    /\ r.node \in Nodes \cup {NULL} /\ r.parent \in (S \ {n}) \cup {NULL}
    /\ r.color \in {"RED", "BLACK"}
    /\ m.color[m.root] = "BLACK" /\ k.root # NULL =>
         \/ k.color[k.root] = "BLACK"
         \/ k.root = r.node /\ r.color = "BLACK"

\* The removal of a node with one child at most.
LEMMA TakeOutOuterTree ==
    ASSUME NEW m, NEW S, NEW f, Tree(m, S, f), NEW n \in S,
           \E d \in Sides : m.kid[d][n] = NULL,
           NEW r, r = TakeOutOuter(m, n)
    PROVE  Removed(m, S, n, r, Forget(r.tree, n))
<1>1. n \in Nodes /\ n # NULL /\ S \subseteq Nodes /\ m \in Memory
  BY KeyAssumption DEF Tree
<1>2. PICK y : y = IF m.kid["left"][n] # NULL THEN m.kid["left"][n] ELSE m.kid["right"][n]
  BY Zenon
<1>3. PICK d \in Sides : y = m.kid[d][n] /\ m.kid[Other(d)][n] = NULL
  BY <1>2 DEF Sides, Other
<1>4. y \in Nodes \cup {NULL} /\ m.parent[n] \in Nodes \cup {NULL} /\ y # n
  BY <1>1, <1>3, TreeFacts, ChildSpan
<1>5. PICK a : a = Replace(m, n, y)
  BY Zenon
<1>6. /\ a \in Memory
      /\ a.color = m.color /\ a.cached_min = m.cached_min /\ a.parent = m.parent
      /\ a.root = IF m.root = n THEN y ELSE m.root
      /\ \A x \in Nodes, e \in Sides :
           a.kid[e][x] = IF m.kid[e][x] = n THEN y ELSE m.kid[e][x]
  <2>1. Replaced(m, n, y, m, a)
    BY <1>1, <1>4, <1>5, ReplaceFields
  <2> QED  BY <2>1 DEF Replaced
<1>7. PICK b : b = SetParent(a, y, m.parent[n])
  BY Zenon
<1>8. Reparented(a, y, m.parent[n], b)
  BY <1>4, <1>6, <1>7, SetParentFields
<1>9. r.tree = b /\ r.node = y /\ r.parent = m.parent[n] /\ r.color = m.color[n]
  BY <1>2, <1>5, <1>7 DEF TakeOutOuter
<1>10. PICK k : k = Forget(b, n)
  BY Zenon
<1>11. Forgotten(b, n, k)
  BY <1>1, <1>8, <1>10, ForgetFields DEF Reparented
<1>12. /\ k \in Memory /\ k.root = IF m.root = n THEN y ELSE m.root
       /\ k.cached_min = m.cached_min
       /\ \A x \in Nodes : k.color[x] = IF x = n THEN "RED" ELSE m.color[x]
       /\ \A x \in Nodes, e \in Sides :
            k.kid[e][x] = IF x = n THEN NULL
                          ELSE IF m.kid[e][x] = n THEN y ELSE m.kid[e][x]
       /\ \A x \in Nodes :
            k.parent[x] = IF x = n THEN NULL
                          ELSE IF x = y THEN m.parent[n] ELSE m.parent[x]
  BY <1>6, <1>8, <1>11 DEF Reparented, Forgotten
<1>13. \E g : Tree(k, S \ {n}, g)
  BY <1>3, <1>12, OuterTree
<1>14. m.parent[n] \in (S \ {n}) \cup {NULL}
  <2>1. ASSUME m.parent[n] # NULL PROVE m.parent[n] \in S /\ m.parent[n] # n
    <3>1. PICK e \in Sides : m.kid[e][m.parent[n]] = n
      BY <1>1, <2>1 DEF Tree, Linked
    <3>2. m.parent[n] \in S
      BY <1>1, <2>1 DEF Tree, Linked
    <3> QED  BY <1>1, <3>1, <3>2, ChildSpan
  <2> QED  BY <2>1
<1>15. m.color[n] \in {"RED", "BLACK"} /\ m.root \in Nodes \cup {NULL}
  BY <1>1 DEF Memory
<1> QED  BY <1>4, <1>9, <1>10, <1>12, <1>13, <1>14, <1>15 DEF Removed

\* The fields when the successor has left its place, if it is further down.
Cut(m, n, y, a) ==
    /\ a \in Memory /\ a.root = m.root /\ a.color = m.color
    /\ a.cached_min = m.cached_min
    /\ \A x \in Nodes, e \in Sides :
         a.kid[e][x] = IF m.parent[y] # n /\ e = "left" /\ x = m.parent[y]
                       THEN m.kid["right"][y]
                       ELSE IF m.parent[y] # n /\ e = "right" /\ x = y
                       THEN m.kid["right"][n] ELSE m.kid[e][x]
    /\ \A x \in Nodes :
         a.parent[x] = IF m.parent[y] # n /\ x = m.kid["right"][n] THEN y
                       ELSE IF m.parent[y] # n /\ x = m.kid["right"][y]
                       THEN m.parent[y] ELSE m.parent[x]

\* CutOut has that effect.
LEMMA CutOutFields ==
    ASSUME NEW m \in Memory, NEW n, NEW y \in Nodes, NEW p \in Nodes, p = m.parent[y],
           NEW R \in Nodes, R = m.kid["right"][n], p # y, p # n
    PROVE  Cut(m, n, y, CutOut(m, n, y))
<1>1. PICK X : X = m.kid["right"][y]
  BY Zenon
<1>2. X \in Nodes \cup {NULL}
  BY <1>1 DEF Memory, Sides
<1>3. PICK b : b = [m EXCEPT !.kid["left"][p] = X]
  BY Zenon
<1>4. /\ b \in Memory /\ b.root = m.root /\ b.color = m.color
      /\ b.cached_min = m.cached_min /\ b.parent = m.parent
      /\ \A x \in Nodes, e \in Sides :
           b.kid[e][x] = IF e = "left" /\ x = p THEN X ELSE m.kid[e][x]
  <2>1. PICK ki : ki = [m.kid EXCEPT !["left"][p] = X]
    BY Zenon
  <2>2. b = [m EXCEPT !.kid = ki]
    BY <1>3, <2>1 DEF Memory
  <2>3. /\ ki \in [Sides -> [Nodes -> Nodes \cup {NULL}]]
        /\ \A x \in Nodes, e \in Sides :
             ki[e][x] = IF e = "left" /\ x = p THEN X ELSE m.kid[e][x]
    BY <1>2, <2>1 DEF Memory, Sides
  <2> QED  BY <2>2, <2>3 DEF Memory
<1>5. PICK c : c = SetParent(b, X, p)
  BY Zenon
<1>6. Reparented(b, X, p, c)
  BY <1>2, <1>4, <1>5, SetParentFields
<1>7. PICK a : a = [c EXCEPT !.kid["right"][y] = R, !.parent[R] = y]
  BY Zenon
<1>8. a = CutOut(m, n, y)
  BY <1>1, <1>3, <1>5, <1>7, Zenon DEF CutOut
<1>9. /\ a \in Memory /\ a.root = c.root /\ a.color = c.color
      /\ a.cached_min = c.cached_min
      /\ \A x \in Nodes, e \in Sides :
           a.kid[e][x] = IF e = "right" /\ x = y THEN R ELSE c.kid[e][x]
      /\ \A x \in Nodes : a.parent[x] = IF x = R THEN y ELSE c.parent[x]
  <2>0. c \in Memory
    BY <1>6 DEF Reparented
  <2>1. PICK pa, ki : pa = [c.parent EXCEPT ![R] = y]
                      /\ ki = [c.kid EXCEPT !["right"][y] = R]
    BY Zenon
  <2>2. a = [c EXCEPT !.kid = ki, !.parent = pa]
    BY <1>7, <2>0, <2>1 DEF Memory
  <2>3. /\ ki \in [Sides -> [Nodes -> Nodes \cup {NULL}]]
        /\ \A x \in Nodes, e \in Sides :
             ki[e][x] = IF e = "right" /\ x = y THEN R ELSE c.kid[e][x]
    BY <2>0, <2>1 DEF Memory, Sides
  <2>4. /\ pa \in [Nodes -> Nodes \cup {NULL}]
        /\ \A x \in Nodes : pa[x] = IF x = R THEN y ELSE c.parent[x]
    BY <2>0, <2>1 DEF Memory
  <2>5. /\ a.root = c.root /\ a.color = c.color /\ a.cached_min = c.cached_min
        /\ a.kid = ki /\ a.parent = pa
    BY <2>0, <2>2 DEF Memory
  <2>6. a \in Memory
    BY <2>0, <2>2, <2>3, <2>4 DEF Memory
  <2> QED  BY <2>3, <2>4, <2>5, <2>6
<1>10. /\ c.root = b.root /\ c.color = b.color /\ c.cached_min = b.cached_min
       /\ c.kid = b.kid
       /\ \A x \in Nodes : c.parent[x] = IF x = X THEN p ELSE b.parent[x]
  BY <1>6 DEF Reparented
<1>11. ASSUME NEW x \in Nodes, NEW e \in Sides
       PROVE  a.kid[e][x] = IF e = "left" /\ x = p THEN X
                            ELSE IF e = "right" /\ x = y THEN R ELSE m.kid[e][x]
  <2>1. a.kid[e][x] = IF e = "right" /\ x = y THEN R ELSE c.kid[e][x]
    BY <1>9
  <2>2. c.kid[e][x] = IF e = "left" /\ x = p THEN X ELSE m.kid[e][x]
    BY <1>4, <1>10
  <2> QED  BY <2>1, <2>2
<1>12. ASSUME NEW x \in Nodes
       PROVE  a.parent[x] = IF x = R THEN y ELSE IF x = X THEN p ELSE m.parent[x]
  <2>1. a.parent[x] = IF x = R THEN y ELSE c.parent[x]
    BY <1>9
  <2>2. c.parent[x] = IF x = X THEN p ELSE m.parent[x]
    BY <1>4, <1>10
  <2> QED  BY <2>1, <2>2
<1>13. a \in Memory /\ a.root = m.root /\ a.color = m.color /\ a.cached_min = m.cached_min
  BY <1>4, <1>9, <1>10
<1>14. Cut(m, n, y, a)
  BY <1>1, <1>11, <1>12, <1>13 DEF Cut
<1> QED  BY <1>8, <1>14

\* The removal of a node with two children.
LEMMA TakeOutInnerTree ==
    ASSUME NEW m, NEW S, NEW f, Tree(m, S, f), NEW n \in S,
           m.kid["left"][n] # NULL, m.kid["right"][n] # NULL,
           NEW r, r = TakeOutInner(m, n)
    PROVE  Removed(m, S, n, r, Forget(r.tree, n))
<1>1. n \in Nodes /\ n # NULL /\ S \subseteq Nodes /\ m \in Memory
  BY KeyAssumption DEF Tree
<1>2. PICK L, R : L = m.kid["left"][n] /\ R = m.kid["right"][n]
  BY Zenon
<1>3. PICK y : y = Outermost(m, R, "left")
  BY Zenon
<1>4. PICK p, X : p = m.parent[y] /\ X = m.kid["right"][y]
  BY Zenon
<1>5. R \in Nodes
  BY <1>1, <1>2 DEF Memory, Sides
<1>6. Successor(m, f, n, y)
  BY <1>2, <1>3, <1>5, OutermostIsLast DEF Successor, Sides
<1>7. /\ n \in Nodes /\ L \in Nodes /\ R \in Nodes /\ X \in Nodes \cup {NULL}
      /\ p \in Nodes /\ y \in S /\ L \in S /\ R \in S /\ p \in S
      /\ m.parent[L] = n /\ m.parent[R] = n
      /\ X # NULL => X \in S /\ m.parent[X] = y
      /\ f[n] = {n} \cup f[L] \cup f[R] /\ n \notin f[L] /\ n \notin f[R]
      /\ f[L] \cap f[R] = {} /\ y \in f[R] /\ y \in f[y] /\ f[y] = {y} \cup f[X]
      /\ y \notin f[X] /\ f[y] \subseteq f[R]
      /\ p = n => y = R
      /\ p # n => y # R /\ p \in f[R] /\ p # y /\ m.kid["left"][p] = y
  BY <1>2, <1>4, <1>6, SuccessorFacts
<1>8. y \in Nodes /\ y # n /\ p # y /\ (X # NULL => X # n /\ X # y /\ X # L)
      /\ L # n /\ L # y /\ R # n
  <2>1. \A x \in Nodes : x \in f[x]
    BY TreeFacts DEF Sides
  <2> QED  BY <1>1, <1>7, <2>1
<1>9. PICK a : a = IF p = n THEN m ELSE CutOut(m, n, y)
  BY Zenon
<1>10. Cut(m, n, y, a)
  <2>1. CASE p = n
    BY <1>1, <1>4, <1>9, <2>1 DEF Cut
  <2>2. CASE p # n
    BY <1>1, <1>2, <1>4, <1>7, <1>8, <1>9, <2>2, CutOutFields
  <2> QED  BY <2>1, <2>2
<1>11. a \in Memory /\ a.root = m.root /\ a.color = m.color /\ a.cached_min = m.cached_min
  BY <1>10 DEF Cut
<1>12. /\ \A x \in Nodes, e \in Sides :
            a.kid[e][x] = IF p # n /\ e = "left" /\ x = p THEN X
                          ELSE IF p # n /\ e = "right" /\ x = y THEN R
                          ELSE m.kid[e][x]
       /\ \A x \in Nodes :
            a.parent[x] = IF p # n /\ x = R THEN y
                          ELSE IF p # n /\ x = X THEN p ELSE m.parent[x]
  BY <1>2, <1>4, <1>10 DEF Cut
<1>13. /\ m.color[n] \in {"RED", "BLACK"} /\ m.parent[n] \in Nodes \cup {NULL}
       /\ a.color[n] = m.color[n] /\ a.kid["left"][n] = L /\ a.parent[n] = m.parent[n]
  <2>1. m.color[n] \in {"RED", "BLACK"} /\ m.parent[n] \in Nodes \cup {NULL}
    BY <1>1 DEF Memory
  <2>2. a.kid["left"][n] = L
    BY <1>1, <1>2, <1>12 DEF Sides
  <2>3. a.parent[n] = m.parent[n]
    BY <1>1, <1>7, <1>8, <1>12
  <2> QED  BY <1>11, <2>1, <2>2, <2>3
<1>14. PICK b : b = [a EXCEPT !.kid["left"][y] = L, !.parent[L] = y, !.color[y] = a.color[n]]
  BY Zenon
<1>15. /\ b \in Memory /\ b.root = a.root /\ b.cached_min = a.cached_min
       /\ \A x \in Nodes : /\ b.color[x] = IF x = y THEN m.color[n] ELSE a.color[x]
                           /\ b.parent[x] = IF x = L THEN y ELSE a.parent[x]
       /\ \A x \in Nodes, e \in Sides :
            b.kid[e][x] = IF e = "left" /\ x = y THEN L ELSE a.kid[e][x]
  <2>1. PICK co, pa, ki : /\ co = [a.color EXCEPT ![y] = m.color[n]]
                          /\ pa = [a.parent EXCEPT ![L] = y]
                          /\ ki = [a.kid EXCEPT !["left"][y] = L]
    BY Zenon
  <2>2. b = [a EXCEPT !.kid = ki, !.parent = pa, !.color = co]
    BY <1>11, <1>13, <1>14, <2>1 DEF Memory
  <2>3. /\ ki \in [Sides -> [Nodes -> Nodes \cup {NULL}]]
        /\ \A x \in Nodes, e \in Sides :
             ki[e][x] = IF e = "left" /\ x = y THEN L ELSE a.kid[e][x]
    BY <1>7, <1>8, <1>11, <2>1 DEF Memory, Sides
  <2>4. /\ pa \in [Nodes -> Nodes \cup {NULL}]
        /\ \A x \in Nodes : pa[x] = IF x = L THEN y ELSE a.parent[x]
    BY <1>7, <1>8, <1>11, <2>1 DEF Memory
  <2>5. /\ co \in [Nodes -> {"RED", "BLACK"}]
        /\ \A x \in Nodes : co[x] = IF x = y THEN m.color[n] ELSE a.color[x]
    BY <1>8, <1>11, <1>13, <2>1 DEF Memory
  <2> QED  BY <1>11, <2>2, <2>3, <2>4, <2>5 DEF Memory
<1>16. PICK q : q = m.parent[n]
  BY Zenon
<1>17. q # NULL => q \in Nodes /\ q \in S /\ q # y /\ q # n /\ (p # n => q # p)
  <2>1. ASSUME q # NULL PROVE q \in Nodes /\ q \in S /\ q \notin f[n]
    <3>1. PICK e \in Sides : m.kid[e][q] = n
      BY <1>1, <1>16, <2>1 DEF Tree, Linked
    <3>2. q \in S /\ q \in Nodes
      BY <1>1, <1>16, <2>1 DEF Tree, Linked
    <3> QED  BY <3>1, <3>2, ChildSpan
  <2> QED  BY <1>7, <2>1
<1>18. b.parent[n] = m.parent[n]
  BY <1>7, <1>8, <1>15, <1>12, KeyAssumption
<1>19. q # NULL => \A e \in Sides : b.kid[e][q] = m.kid[e][q]
  BY <1>15, <1>12, <1>17
<1>20. PICK c : c = Replace(b, n, y)
  BY Zenon
<1>21. Replaced(m, n, y, b, c)
  <2>1. y \in Nodes \cup {NULL} /\ b \in Memory /\ b.root = m.root
    BY <1>8, <1>11, <1>15
  <2> QED  BY <1>16, <1>18, <1>19, <1>20, <2>1, ReplaceFields
<1>22. PICK h : h = [c EXCEPT !.parent[y] = a.parent[n]]
  BY Zenon
<1>23. /\ h \in Memory /\ h.root = c.root /\ h.color = c.color /\ h.cached_min = c.cached_min
       /\ h.kid = c.kid
       /\ \A x \in Nodes : h.parent[x] = IF x = y THEN m.parent[n] ELSE c.parent[x]
  BY <1>8, <1>13, <1>21, <1>22 DEF Replaced, Memory
<1>24. /\ r.tree = h /\ r.node = X /\ r.parent = IF p = n THEN y ELSE p
       /\ r.color = m.color[y]
  <2>1. h = StandIn(a, n, y)
    BY <1>13, <1>14, <1>20, <1>22, Zenon DEF StandIn
  <2>2. r = [tree |-> StandIn(a, n, y), node |-> X, parent |-> IF p = n THEN y ELSE p,
             color |-> m.color[y]]
    BY <1>2, <1>3, <1>4, <1>9, Zenon DEF TakeOutInner
  <2> QED  BY <2>1, <2>2
<1>25. PICK k : k = Forget(h, n)
  BY Zenon
<1>26. Forgotten(h, n, k)
  BY <1>1, <1>23, <1>25, ForgetFields
<1>27. /\ k \in Memory /\ k.cached_min = m.cached_min
       /\ k.root = IF m.root = n THEN y ELSE m.root
       /\ \A x \in Nodes : k.color[x] = IF x = n THEN "RED"
                                        ELSE IF x = y THEN m.color[n] ELSE m.color[x]
  BY <1>11, <1>15, <1>21, <1>23, <1>26 DEF Replaced, Forgotten
<1>28. ASSUME NEW x \in Nodes, m.kid["right"][x] = y, m.kid["left"][x] = y PROVE FALSE
  <2>1. \A d \in Sides : f[m.kid[d][x]] \cap f[m.kid[Other(d)][x]] = {}
    BY TreeFacts
  <2>2. f[m.kid["left"][x]] \cap f[m.kid["right"][x]] = {}
    BY <2>1 DEF Sides, Other
  <2> QED  BY <1>7, <1>28, <2>2
<1>29. ASSUME NEW x \in Nodes, NEW e \in Sides
       PROVE  k.kid[e][x] = IF x = n THEN NULL
                            ELSE IF x = y
                            THEN IF e = "left" THEN L ELSE IF p = n THEN X ELSE R
                            ELSE IF m.kid[e][x] = n THEN y
                            ELSE IF m.kid[e][x] = y THEN X ELSE m.kid[e][x]
  <2>1. k.kid[e][x] = IF x = n THEN NULL ELSE h.kid[e][x]
    BY <1>26 DEF Forgotten
  <2>2. h.kid[e][x] = IF m.kid[e][x] = n THEN y ELSE b.kid[e][x]
    BY <1>21, <1>23 DEF Replaced
  <2>3. CASE x = n
    BY <2>1, <2>3
  <2>4. CASE x = y
    <3>1. f[m.kid[e][y]] \subseteq f[y] /\ n \notin f[y] /\ n \in f[n]
      BY <1>7, <1>8, ChildSpan
    <3>2. m.kid[e][y] # n
      BY <3>1
    <3> QED  BY <1>4, <1>8, <1>15, <1>12, <2>1, <2>2, <2>4, <3>2 DEF Sides
  <2>5. CASE x # n /\ x # y
    <3>1. b.kid[e][x] = IF p # n /\ e = "left" /\ x = p THEN X ELSE m.kid[e][x]
      BY <1>15, <1>12, <2>5
    <3>2. CASE m.kid[e][x] = y
      <4>1. x = p
        BY <1>4, <1>8, <3>2, KeyAssumption DEF Tree, Linked
      <4>2. e = "left"
        BY <1>7, <1>28, <2>5, <3>2, <4>1 DEF Sides
      <4> QED  BY <1>8, <2>1, <2>2, <2>5, <3>1, <3>2, <4>1, <4>2
    <3>3. CASE m.kid[e][x] # y
      BY <1>7, <2>1, <2>2, <2>5, <3>1, <3>3
    <3> QED  BY <3>2, <3>3
  <2> QED  BY <2>3, <2>4, <2>5
<1>30. ASSUME NEW x \in Nodes
       PROVE  k.parent[x] = IF x = n THEN NULL ELSE IF x = y THEN m.parent[n]
                            ELSE IF x = L \/ x = R THEN y
                            ELSE IF x = X THEN IF p = n THEN y ELSE p
                            ELSE m.parent[x]
  <2>1. k.parent[x] = IF x = n THEN NULL ELSE h.parent[x]
    BY <1>26 DEF Forgotten
  <2>2. h.parent[x] = IF x = y THEN m.parent[n] ELSE IF x = L THEN y ELSE a.parent[x]
    BY <1>15, <1>21, <1>23 DEF Replaced
  <2>3. a.parent[x] = IF p # n /\ x = R THEN y
                      ELSE IF p # n /\ x = X THEN p ELSE m.parent[x]
    BY <1>12
  <2>4. CASE p = n
    <3>1. x = X => m.parent[x] = y
      BY <1>7, KeyAssumption
    <3> QED  BY <1>7, <2>1, <2>2, <2>3, <2>4, <3>1
  <2>5. CASE p # n
    BY <2>1, <2>2, <2>3, <2>5
  <2> QED  BY <2>4, <2>5
<1>31. TakenOut(m, n, y, k)
  BY <1>2, <1>4, <1>27, <1>29, <1>30 DEF TakenOut
<1>32. \E g : Tree(k, S \ {n}, g)
  BY <1>6, <1>31, InnerTree
<1>33. m.color[y] \in {"RED", "BLACK"} /\ m.root \in Nodes \cup {NULL}
  BY <1>1, <1>8 DEF Memory
<1>34. m.root # y
  <2>1. m.root # NULL => m.parent[m.root] = NULL
    BY DEF Tree, Linked
  <2> QED  BY <1>4, <1>7, <1>8, <2>1, KeyAssumption
<1> QED  BY <1>7, <1>8, <1>24, <1>25, <1>27, <1>32, <1>33, <1>34 DEF Removed

\* n is removed.
LEMMA TakeOutTree ==
    ASSUME NEW m, NEW S, NEW f, Tree(m, S, f), NEW n \in S, NEW r, r = TakeOut(m, n)
    PROVE  Removed(m, S, n, r, Forget(r.tree, n))
<1>1. CASE \A d \in Sides : m.kid[d][n] # NULL
  <2>1. m.kid["left"][n] # NULL /\ m.kid["right"][n] # NULL
    BY <1>1 DEF Sides
  <2>2. r = TakeOutInner(m, n)
    BY <1>1 DEF TakeOut
  <2> QED  BY <2>1, <2>2, TakeOutInnerTree
<1>2. CASE \E d \in Sides : m.kid[d][n] = NULL
  <2>1. r = TakeOutOuter(m, n)
    BY <1>2 DEF TakeOut
  <2> QED  BY <1>2, <2>1, TakeOutOuterTree
<1> QED  BY <1>1, <1>2

-----------------------------------------------------------------------------
(***************************************************************************)
(* The insertion, and the cached minimum.                                  *)
(***************************************************************************)

\* c is what the cached minimum of the nodes S is to be.
Least(S, c) ==
    IF S = {} THEN c = NULL ELSE c \in S /\ \A x \in S : Key[c] <= Key[x]

\* A new node.
LEMMA NewMinIsLeast ==
    ASSUME NEW S \in SUBSET Nodes, NEW m, Least(S, m.cached_min), NEW n \in Nodes
    PROVE  NewMin(m, n) \in Nodes /\ Least(S \cup {n}, NewMin(m, n))
<1>1. Key[n] \in Int /\ \A x \in S : Key[x] \in Int /\ x # NULL
  BY KeyAssumption
<1>2. CASE S = {}
  <2>1. NewMin(m, n) = n
    BY <1>2 DEF Least, NewMin
  <2> QED  BY <1>1, <1>2, <2>1 DEF Least
<1>3. CASE S # {}
  <2>1. PICK c : c = m.cached_min
    BY Zenon
  <2>2. c \in S /\ c # NULL /\ Key[c] \in Int /\ \A x \in S : Key[c] <= Key[x]
    BY <1>1, <1>3, <2>1 DEF Least
  <2>3. NewMin(m, n) = IF Key[n] - Key[c] < 0 THEN n ELSE c
    BY <2>1, <2>2 DEF NewMin, compare
  <2>4. CASE Key[n] < Key[c]
    <3>1. NewMin(m, n) = n
      BY <1>1, <2>2, <2>3, <2>4
    <3>2. \A x \in S \cup {n} : Key[n] <= Key[x]
      BY <1>1, <2>2, <2>4
    <3> QED  BY <3>1, <3>2 DEF Least
  <2>5. CASE Key[c] <= Key[n]
    <3>1. NewMin(m, n) = c
      BY <1>1, <2>2, <2>3, <2>5
    <3>2. \A x \in S \cup {n} : Key[c] <= Key[x]
      BY <2>2, <2>5
    <3> QED  BY <2>2, <3>1, <3>2 DEF Least
  <2> QED  BY <1>1, <2>2, <2>4, <2>5
<1> QED  BY <1>2, <1>3

\* The node to be removed is the minimum: the next one is, then.
LEMMA NextMinIsLeast ==
    ASSUME NEW m, NEW S, NEW f, Tree(m, S, f), Least(S, m.cached_min), NEW n \in S,
           NEW c, c = IF m.cached_min = n THEN rbnode_next(m, n) ELSE m.cached_min
    PROVE  c \in Nodes \cup {NULL} /\ Least(S \ {n}, c)
<1>1. S \in SUBSET Nodes /\ \A x \in S : Key[x] \in Int /\ x \in Nodes
  BY KeyAssumption DEF Tree
<1>2. m.cached_min \in S /\ \A x \in S : Key[m.cached_min] <= Key[x]
  BY DEF Least
<1>3. CASE m.cached_min # n
  BY <1>1, <1>2, <1>3 DEF Least
<1>4. CASE m.cached_min = n
  <2>1. NextTo(S, n, "right", c)
    BY <1>4, AdjacentIsNext DEF rbnode_next, Sides
  <2>2. ASSUME NEW x \in S, x # n PROVE Lies("right", x, n)
    <3>1. Key[x] # Key[n]
      BY <2>2, KeysDiffer
    <3> QED  BY <1>1, <1>2, <1>4, <3>1 DEF Lies
  <2>3. ~Lies("right", n, n)
    BY <1>1, LiesFacts DEF Sides
  <2>4. CASE S \ {n} = {}
    <3>1. \A y \in S : ~Lies("right", y, n)
      BY <2>3, <2>4
    <3> QED  BY <2>1, <2>4, <3>1 DEF NextTo, Least
  <2>5. CASE S \ {n} # {}
    <3>1. PICK z \in S : z # n
      BY <2>5
    <3>2. c \in S /\ Lies("right", c, n)
          /\ \A y \in S : Lies("right", y, n) => y = c \/ Lies("right", y, c)
      BY <2>1, <2>2, <3>1 DEF NextTo
    <3>3. c # n
      BY <2>3, <3>2
    <3>4. ASSUME NEW x \in S \ {n} PROVE Key[c] <= Key[x]
      <4>1. x = c \/ Lies("right", x, c)
        BY <2>2, <3>2
      <4> QED  BY <1>1, <3>2, <4>1 DEF Lies
    <3> QED  BY <1>1, <2>5, <3>2, <3>3, <3>4 DEF Least
  <2> QED  BY <2>4, <2>5
<1> QED  BY <1>3, <1>4

\* The only node of a tree.
LEMMA SingleTree ==
    ASSUME NEW m, NEW S, NEW f, Tree(m, S, f), m.root = NULL, NEW n \in Nodes,
           NEW k \in Memory, k.root = n, k.parent = m.parent, k.kid = m.kid
    PROVE  S = {} /\ \E g : Tree(k, S \cup {n}, g)
<1>1. S = {}
  BY DEF Tree, Spans
<1>2. f[n] = {n}
  BY <1>1, SpanMembers
<1>3. Spans(k, S \cup {n}, f)
  BY <1>1, <1>2 DEF Tree, Spans
<1>4. Ordered(k, f)
  BY DEF Tree, Ordered
<1>5. /\ \A x \in Nodes : m.parent[x] = NULL
      /\ \A x \in Nodes, d \in Sides : m.kid[d][x] = NULL
  BY <1>1 DEF Tree, Linked
<1>6. Linked(k, S \cup {n})
  BY <1>1, <1>5 DEF Linked
<1> QED  BY <1>1, <1>3, <1>4, <1>6 DEF Tree

\* What Attach does to the fields.
Attached(m, n, y, k) ==
    /\ k \in Memory /\ k.root = m.root /\ k.color = m.color
    /\ \A x \in Nodes : k.parent[x] = IF x = n THEN y ELSE m.parent[x]
    /\ \A x \in Nodes, e \in Sides :
         k.kid[e][x] = IF e = Toward(n, y) /\ x = y THEN n ELSE m.kid[e][x]

\* Attach has that effect.
LEMMA AttachFields ==
    ASSUME NEW m \in Memory, NEW n \in Nodes, NEW y \in Nodes, NEW k, k = Attach(m, n, y)
    PROVE  Attached(m, n, y, k)
<1>1. PICK s : s = Toward(n, y)
  BY Zenon
<1>2. s \in Sides
  BY <1>1 DEF Toward, Sides
<1>3. PICK pa, ki : pa = [m.parent EXCEPT ![n] = y] /\ ki = [m.kid EXCEPT ![s][y] = n]
  BY Zenon
<1>4. k = [m EXCEPT !.kid = ki, !.parent = pa]
  BY <1>1, <1>3 DEF Attach, Memory
<1>5. /\ ki \in [Sides -> [Nodes -> Nodes \cup {NULL}]]
      /\ \A x \in Nodes, e \in Sides : ki[e][x] = IF e = s /\ x = y THEN n ELSE m.kid[e][x]
  BY <1>2, <1>3 DEF Memory
<1>6. /\ pa \in [Nodes -> Nodes \cup {NULL}]
      /\ \A x \in Nodes : pa[x] = IF x = n THEN y ELSE m.parent[x]
  BY <1>3 DEF Memory
<1> QED  BY <1>1, <1>4, <1>5, <1>6 DEF Attached, Memory

\* A new cached minimum.
LEMMA CachedMinFields ==
    ASSUME NEW m \in Memory, NEW c \in Nodes \cup {NULL}, NEW k,
           k = [m EXCEPT !.cached_min = c]
    PROVE  /\ k \in Memory /\ k.root = m.root /\ k.color = m.color
           /\ k.parent = m.parent /\ k.kid = m.kid /\ k.cached_min = c
BY DEF Memory

\* n is inserted, unless its key is in the tree.
LEMMA InsertedTree ==
    ASSUME NEW m, NEW S, NEW f, Tree(m, S, f), Least(S, m.cached_min),
           NEW n \in Nodes, n \notin S, Inserted(m, n)[1], NEW k, k = Inserted(m, n)[2]
    PROVE  /\ \E g : Tree(k, S \cup {n}, g)
           /\ Least(S \cup {n}, k.cached_min)
           /\ k.color = m.color /\ k.root = IF m.root = NULL THEN n ELSE m.root
<1>1. m \in Memory /\ S \in SUBSET Nodes /\ n # NULL
  BY KeyAssumption DEF Tree
<1>2. PICK c : c = NewMin(m, n)
  BY Zenon
<1>3. c \in Nodes /\ Least(S \cup {n}, c)
  BY <1>1, <1>2, NewMinIsLeast
<1>4. CASE m.root = NULL
  <2>1. PICK a : a = [m EXCEPT !.root = n]
    BY Zenon
  <2>2. a \in Memory /\ a.root = n /\ a.color = m.color /\ a.parent = m.parent /\ a.kid = m.kid
    BY <1>1, <2>1 DEF Memory
  <2>3. k = [a EXCEPT !.cached_min = c]
    BY <1>2, <1>4, <2>1 DEF Inserted
  <2>4. /\ k \in Memory /\ k.root = n /\ k.color = m.color
        /\ k.parent = m.parent /\ k.kid = m.kid /\ k.cached_min = c
    BY <1>3, <2>2, <2>3, CachedMinFields
  <2>5. \E g : Tree(k, S \cup {n}, g)
    BY <1>4, <2>4, SingleTree
  <2> QED  BY <1>3, <1>4, <2>4, <2>5
<1>5. CASE m.root # NULL
  <2>1. PICK y : y = Descend(m, n, m.root)
    BY Zenon
  <2>2. /\ y \in S /\ OnWay(m, S, f, n, y)
        /\ Key[n] = Key[y] \/ m.kid[Toward(n, y)][y] = NULL
    BY <1>5, <2>1, DescendFinds
  <2>3. y \in Nodes /\ y # NULL /\ Key[n] \in Int /\ Key[y] \in Int
    BY <1>1, <2>2, KeyAssumption
  <2>4. Inserted(m, n) = IF compare(n, y) = 0 THEN <<FALSE, m>>
                         ELSE <<TRUE, [Attach(m, n, y) EXCEPT !.cached_min = c]>>
    BY <1>2, <1>5, <2>1, <2>3, Zenon DEF Inserted
  <2>5. compare(n, y) # 0
    BY <2>4
  <2>6. Key[n] # Key[y]
    BY <2>3, <2>5 DEF compare
  <2>7. PICK a : a = Attach(m, n, y)
    BY Zenon
  <2>8. /\ a \in Memory /\ a.root = m.root /\ a.color = m.color
        /\ \A x \in Nodes : a.parent[x] = IF x = n THEN y ELSE m.parent[x]
        /\ \A x \in Nodes, e \in Sides :
             a.kid[e][x] = IF e = Toward(n, y) /\ x = y THEN n ELSE m.kid[e][x]
    <3>1. Attached(m, n, y, a)
      BY <1>1, <2>3, <2>7, AttachFields
    <3> QED  BY <3>1 DEF Attached
  <2>9. k = [a EXCEPT !.cached_min = c]
    BY <2>4, <2>5, <2>7
  <2>10. /\ k \in Memory /\ k.root = a.root /\ k.color = a.color
         /\ k.parent = a.parent /\ k.kid = a.kid /\ k.cached_min = c
    BY <1>3, <2>8, <2>9, CachedMinFields
  <2>11. \E g : Tree(a, S \cup {n}, g)
    BY <2>2, <2>6, <2>8, LeafTree
  <2>12. \E g : Tree(k, S \cup {n}, g)
    BY <2>10, <2>11, SamePointers
  <2> QED  BY <1>3, <1>5, <2>8, <2>10, <2>12
<1> QED  BY <1>4, <1>5

-----------------------------------------------------------------------------
(***************************************************************************)
(* The turns of the fixup loops.                                           *)
(***************************************************************************)

\* The parent and the children of a member.
LEMMA Kin ==
    ASSUME NEW m, NEW S, NEW f, Tree(m, S, f), NEW x \in S, NEW d \in Sides
    PROVE  /\ x \in Nodes /\ x # NULL
           /\ m.kid[d][x] # NULL =>
                /\ m.kid[d][x] \in S /\ m.parent[m.kid[d][x]] = x /\ m.kid[d][x] # x
                /\ m.kid[d][x] # m.root
           /\ m.parent[x] # NULL =>
                /\ m.parent[x] \in S /\ m.parent[x] # x /\ m.parent[x] # NULL /\ x # m.root
                /\ Side(m, x) \in Sides /\ m.kid[Side(m, x)][m.parent[x]] = x
           /\ m.parent[x] = NULL => x = m.root
           /\ m.root # NULL => m.root \in S
<1>1. x \in Nodes /\ x # NULL /\ S \in SUBSET Nodes
  BY KeyAssumption DEF Tree
<1>2. /\ m.root # NULL => m.parent[m.root] = NULL
      /\ \A y \in Nodes, e \in Sides :
           m.kid[e][y] # NULL => y \in S /\ m.kid[e][y] \in S /\ m.parent[m.kid[e][y]] = y
      /\ \A y \in S : m.parent[y] = NULL => y = m.root
      /\ \A y \in Nodes :
           m.parent[y] # NULL => /\ y \in S /\ m.parent[y] \in S
                                 /\ \E e \in Sides : m.kid[e][m.parent[y]] = y
  BY DEF Tree, Linked
<1>3. ASSUME NEW y \in S, NEW e \in Sides, m.kid[e][y] # NULL PROVE m.kid[e][y] # y
  <2>1. y \in Nodes
    BY <1>1
  <2> QED  BY <2>1, ChildSpan
<1>4. m.kid[d][x] # NULL =>
        /\ m.kid[d][x] \in S /\ m.parent[m.kid[d][x]] = x /\ m.kid[d][x] # x
        /\ m.kid[d][x] # m.root
  BY <1>1, <1>2, <1>3
<1>5. ASSUME m.parent[x] # NULL
      PROVE  /\ m.parent[x] \in S /\ m.parent[x] # x /\ m.parent[x] # NULL /\ x # m.root
             /\ Side(m, x) \in Sides /\ m.kid[Side(m, x)][m.parent[x]] = x
  <2>1. PICK e \in Sides : m.kid[e][m.parent[x]] = x
    BY <1>1, <1>2, <1>5
  <2>2. Side(m, x) \in Sides /\ m.kid[Side(m, x)][m.parent[x]] = x
    BY <2>1 DEF Side, Sides
  <2> QED  BY <1>1, <1>2, <1>3, <1>5, <2>1, <2>2
<1>6. m.root # NULL => m.root \in S
  <2>1. m.root \in Nodes \cup {NULL} /\ f[m.root] = S
    BY DEF Tree, Memory, Spans
  <2> QED  BY <2>1, TreeFacts DEF Sides
<1> QED  BY <1>1, <1>2, <1>4, <1>5, <1>6

\* What Paint does to the fields.
Painted(m, blacks, reds, k) ==
    /\ k \in Memory /\ k.root = m.root /\ k.cached_min = m.cached_min
    /\ k.parent = m.parent /\ k.kid = m.kid
    /\ \A x \in Nodes : k.color[x] = IF x \in blacks THEN "BLACK"
                                     ELSE IF x \in reds THEN "RED" ELSE m.color[x]

\* Paint has that effect.
LEMMA PaintFields ==
    ASSUME NEW m \in Memory, NEW blacks, NEW reds
    PROVE  Painted(m, blacks, reds, Paint(m, blacks, reds))
<1>1. PICK co : co = [n \in Nodes |-> IF n \in blacks THEN "BLACK"
                                      ELSE IF n \in reds THEN "RED" ELSE m.color[n]]
  BY Zenon
<1>2. Paint(m, blacks, reds) = [m EXCEPT !.color = co]
  BY <1>1 DEF Paint, Memory
<1>3. /\ co \in [Nodes -> {"RED", "BLACK"}]
      /\ \A x \in Nodes : co[x] = IF x \in blacks THEN "BLACK"
                                  ELSE IF x \in reds THEN "RED" ELSE m.color[x]
  BY <1>1 DEF Memory
<1> QED  BY <1>2, <1>3 DEF Painted, Memory

\* Painting leaves the tree as it is.
LEMMA PaintTree ==
    ASSUME NEW m, NEW S, NEW f, Tree(m, S, f), NEW blacks, NEW reds, NEW k,
           k = Paint(m, blacks, reds)
    PROVE  Tree(k, S, f) /\ Painted(m, blacks, reds, k)
<1>1. Painted(m, blacks, reds, k)
  BY PaintFields DEF Tree
<1>2. k \in Memory /\ k.root = m.root /\ k.parent = m.parent /\ k.kid = m.kid
  BY <1>1 DEF Painted
<1> QED  BY <1>1, <1>2, SamePointers

\* A rotation of a painted tree.
LEMMA RotateKeeps ==
    ASSUME NEW m, NEW S, NEW f, Tree(m, S, f), NEW a \in S, NEW d \in Sides,
           NEW c, c = m.kid[Other(d)][a], c # NULL, NEW k, k = rbt_rotate(m, a, d)
    PROVE  /\ \E g : Tree(k, S, g)
           /\ Rotated(m, a, d, c, k)
<1>1. a \in Nodes
  BY DEF Tree
<1>2. Rotated(m, a, d, c, k)
  BY <1>1, RotateFields
<1> QED  BY <1>1, <1>2, RotateTree

\* The result of a turn: a tree of the same nodes, with a root that is not red
\* unless it is n.
Turned(m, S, k, n) ==
    /\ \E g : Tree(k, S, g)
    /\ k.cached_min = m.cached_min
    /\ k.root # NULL => k.color[k.root] = "BLACK" \/ k.root = n

\* A turn of rbt_insert_fixup.
LEMMA InsertTurnTree ==
    ASSUME NEW m, NEW S, NEW f, Tree(m, S, f), NEW node \in S, Red(m, m.parent[node]),
           m.color[m.root] = "BLACK" \/ m.root = node,
           NEW r, r = InsertTurn(m, node)
    PROVE  r[2] \in S /\ Turned(m, S, r[1], r[2])
<1>1. PICK p, q : p = m.parent[node] /\ q = m.parent[p]
  BY Zenon
<1>2. p # NULL /\ m.color[p] = "RED"
  BY <1>1 DEF Red
<1>3. p \in S /\ p # node /\ node # m.root
  BY <1>1, <1>2, Kin DEF Sides
<1>4. m.root # NULL /\ m.root \in S /\ m.color[m.root] = "BLACK"
  <2>1. S # {}
    OBVIOUS
  <2>2. m.root # NULL
    BY <2>1 DEF Tree, Spans
  <2> QED  BY <1>3, <2>2, Kin DEF Sides
<1>5. q # NULL
  BY <1>1, <1>2, <1>3, <1>4, Kin DEF Sides
<1>6. PICK d : d = Side(m, p)
  BY Zenon
<1>7. q \in S /\ q # p /\ p # m.root /\ d \in Sides /\ m.kid[d][q] = p
  BY <1>1, <1>3, <1>5, <1>6, Kin DEF Sides
<1>8. PICK o : o = Other(d)
  BY Zenon
<1>9. /\ o \in Sides /\ o # d /\ Other(o) = d
      /\ p \in Nodes /\ q \in Nodes /\ node \in Nodes /\ node # NULL /\ m \in Memory
      /\ m.root \in Nodes
  BY <1>3, <1>4, <1>7, <1>8, LiesFacts, KeyAssumption DEF Tree
<1>10. node # q
  <2>1. node \in f[p]
    <3>1. Side(m, node) \in Sides /\ m.kid[Side(m, node)][p] = node
      BY <1>1, <1>2, Kin DEF Sides
    <3>2. f[node] \subseteq f[p] /\ node \in f[node]
      BY <1>7, <1>9, <3>1, ChildSpan, TreeFacts
    <3> QED  BY <3>2
  <2>2. q \notin f[p]
    BY <1>7, <1>9, ChildSpan
  <2> QED  BY <2>1, <2>2
<1>11. PICK u : u = m.kid[o][q]
  BY Zenon
<1>12. r = IF Red(m, u) THEN <<Paint(m, {p, u}, {q}), q>>
           ELSE IF m.kid[o][p] = node
           THEN <<Paint(rbt_rotate(rbt_rotate(m, p, d), q, o), {node}, {q}), node>>
           ELSE <<Paint(rbt_rotate(m, q, o), {p}, {q}), p>>
  BY <1>1, <1>6, <1>8, <1>11, Zenon DEF InsertTurn
<1>13. CASE Red(m, u)
  <2>1. PICK k : k = Paint(m, {p, u}, {q})
    BY Zenon
  <2>2. Tree(k, S, f) /\ Painted(m, {p, u}, {q}, k)
    BY <2>1, PaintTree
  <2>3. k.root = m.root /\ k.cached_min = m.cached_min
        /\ (m.root # q => k.color[m.root] = "BLACK")
    BY <1>4, <1>9, <2>2 DEF Painted
  <2>4. Turned(m, S, k, q)
    BY <2>2, <2>3 DEF Turned
  <2>5. r[1] = k /\ r[2] = q
    BY <1>12, <1>13, <2>1
  <2> QED  BY <1>7, <2>4, <2>5
<1>14. CASE ~Red(m, u) /\ m.kid[o][p] = node
  <2>1. PICK a : a = rbt_rotate(m, p, d)
    BY Zenon
  <2>2. (\E g : Tree(a, S, g)) /\ Rotated(m, p, d, node, a)
    BY <1>3, <1>7, <1>8, <1>9, <1>14, <2>1, RotateKeeps
  <2>3. /\ a.color = m.color /\ a.cached_min = m.cached_min
        /\ a.root = m.root
    BY <1>7, <2>2 DEF Rotated
  <2>4. a.kid[d][q] = node
    <3>1. a.kid[d][q] = IF q = p THEN IF d = d THEN m.kid[d][p] ELSE m.kid[d][node]
                        ELSE IF q = node THEN IF d = d THEN p ELSE m.kid[d][node]
                        ELSE IF m.kid[d][q] = p THEN node ELSE m.kid[d][q]
      BY <1>7, <1>9, <2>2 DEF Rotated
    <3> QED  BY <1>7, <1>10, <3>1
  <2>5. PICK g : Tree(a, S, g)
    BY <2>2
  <2>6. PICK b : b = rbt_rotate(a, q, o)
    BY Zenon
  <2>7. (\E h : Tree(b, S, h)) /\ Rotated(a, q, o, node, b)
    BY <1>7, <1>9, <2>4, <2>5, <2>6, RotateKeeps
  <2>8. /\ b.color = m.color /\ b.cached_min = m.cached_min
        /\ b.root = IF m.root = q THEN node ELSE m.root
    BY <2>3, <2>7 DEF Rotated
  <2>9. PICK h : Tree(b, S, h)
    BY <2>7
  <2>10. PICK k : k = Paint(b, {node}, {q})
    BY Zenon
  <2>11. Tree(k, S, h) /\ Painted(b, {node}, {q}, k)
    BY <2>9, <2>10, PaintTree
  <2>12. k.root = b.root /\ k.cached_min = m.cached_min /\ k.color[b.root] = "BLACK"
    BY <1>4, <1>9, <1>10, <2>8, <2>11 DEF Painted
  <2>13. Turned(m, S, k, node)
    BY <2>11, <2>12 DEF Turned
  <2>14. r[1] = k /\ r[2] = node
    BY <1>12, <1>14, <2>1, <2>6, <2>10
  <2> QED  BY <2>13, <2>14
<1>15. CASE ~Red(m, u) /\ m.kid[o][p] # node
  <2>1. PICK b : b = rbt_rotate(m, q, o)
    BY Zenon
  <2>2. (\E h : Tree(b, S, h)) /\ Rotated(m, q, o, p, b)
    BY <1>2, <1>7, <1>9, <2>1, RotateKeeps
  <2>3. /\ b.color = m.color /\ b.cached_min = m.cached_min
        /\ b.root = IF m.root = q THEN p ELSE m.root
    BY <2>2 DEF Rotated
  <2>4. PICK h : Tree(b, S, h)
    BY <2>2
  <2>5. PICK k : k = Paint(b, {p}, {q})
    BY Zenon
  <2>6. Tree(k, S, h) /\ Painted(b, {p}, {q}, k)
    BY <2>4, <2>5, PaintTree
  <2>7. k.root = b.root /\ k.cached_min = m.cached_min /\ k.color[b.root] = "BLACK"
    BY <1>4, <1>7, <1>9, <2>3, <2>6 DEF Painted
  <2>8. Turned(m, S, k, p)
    BY <2>6, <2>7 DEF Turned
  <2>9. r[1] = k /\ r[2] = p
    BY <1>12, <1>15, <2>1, <2>5
  <2> QED  BY <1>3, <2>8, <2>9
<1> QED  BY <1>13, <1>14, <1>15

\* Cases 3 and 4 of rbt_remove_fixup.
LEMMA FixupBlackSiblingTree ==
    ASSUME NEW m, NEW S, NEW f, Tree(m, S, f), NEW p \in S, NEW d \in Sides,
           NEW s, s = m.kid[Other(d)][p], s # NULL,
           \E e \in Sides : Red(m, m.kid[e][s]), m.color[m.root] = "BLACK",
           NEW k, k = FixupBlackSibling(m, p, s, d)
    PROVE  Turned(m, S, k, NULL)
<1>1. PICK o : o = Other(d)
  BY Zenon
<1>2. o \in Sides /\ o # d /\ Other(o) = d /\ Sides = {d, o} /\ p \in Nodes /\ m \in Memory
  BY <1>1, LiesFacts DEF Tree
<1>3. s \in S /\ m.parent[s] = p /\ s # p /\ s # m.root /\ s = m.kid[o][p] /\ p # NULL
  BY <1>1, <1>2, Kin
<1>4. s \in Nodes
  BY <1>3 DEF Tree
<1>5. PICK near, far : near = m.kid[d][s] /\ far = m.kid[o][s]
  BY Zenon
<1>6. m.root # NULL /\ m.root \in S /\ m.root \in Nodes
  <2>1. m.root # NULL
    BY DEF Tree, Spans
  <2>2. m.root \in S
    BY <2>1, Kin
  <2> QED  BY <2>1, <2>2 DEF Tree
<1>7. m.color[p] \in {"RED", "BLACK"}
  BY <1>2 DEF Memory
\* Before the last rotation.
<1>8. ASSUME NEW a, NEW sib \in S, NEW blacks, NEW c, c = Paint(a, blacks, {}), NEW b,
             \E g : Tree(a, S, g), a.color = m.color, a.cached_min = m.cached_min,
             a.root = m.root, a.kid[o][p] = sib, sib # m.root, sib # NULL,
             b = [c EXCEPT !.color[sib] = m.color[p]]
      PROVE  Turned(m, S, rbt_rotate(b, p, d), NULL)
  <2>1. PICK g : Tree(a, S, g)
    BY <1>8
  <2>2. Tree(c, S, g) /\ Painted(a, blacks, {}, c)
    BY <1>8, <2>1, PaintTree
  <2>3. c \in Memory /\ sib \in Nodes
    BY <2>2 DEF Tree
  <2>4. PICK co : co = [c.color EXCEPT ![sib] = m.color[p]]
    BY Zenon
  <2>5. b = [c EXCEPT !.color = co]
    BY <1>8, <2>3, <2>4 DEF Memory
  <2>6. /\ co \in [Nodes -> {"RED", "BLACK"}]
        /\ \A x \in Nodes : co[x] = IF x = sib THEN m.color[p] ELSE c.color[x]
    BY <1>7, <2>3, <2>4 DEF Memory
  <2>7. /\ b \in Memory /\ b.root = c.root /\ b.parent = c.parent /\ b.kid = c.kid
        /\ b.cached_min = c.cached_min /\ b.color = co
    BY <2>3, <2>5, <2>6 DEF Memory
  <2>8. Tree(b, S, g)
    BY <2>2, <2>7, SamePointers
  <2>9. b.root = m.root /\ b.cached_min = m.cached_min /\ b.kid[o][p] = sib
    BY <1>8, <2>2, <2>7 DEF Painted
  <2>10. b.color[sib] = m.color[p] /\ b.color[m.root] = "BLACK"
    BY <1>6, <1>8, <2>2, <2>3, <2>6, <2>7 DEF Painted
  <2>11. PICK h : h = rbt_rotate(b, p, d)
    BY Zenon
  <2>12. (\E i : Tree(h, S, i)) /\ Rotated(b, p, d, sib, h)
    BY <1>1, <1>8, <2>8, <2>9, <2>11, RotateKeeps
  <2>13. h.root = (IF m.root = p THEN sib ELSE m.root) /\ h.color = b.color
         /\ h.cached_min = m.cached_min
    BY <2>9, <2>12 DEF Rotated
  <2>14. h.color[h.root] = "BLACK"
    BY <2>10, <2>13
  <2> QED  BY <2>11, <2>12, <2>13, <2>14 DEF Turned
<1>9. CASE Red(m, far)
  <2>1. k = rbt_rotate([Paint(m, {p, far}, {}) EXCEPT !.color[s] = m.color[p]], p, d)
    BY <1>1, <1>5, <1>9, Zenon DEF FixupBlackSibling
  <2>2. PICK c : c = Paint(m, {p, far}, {})
    BY Zenon
  <2>3. PICK b : b = [c EXCEPT !.color[s] = m.color[p]]
    BY Zenon
  <2>4. Turned(m, S, rbt_rotate(b, p, d), NULL)
    BY <1>3, <1>8, <2>2, <2>3
  <2> QED  BY <2>1, <2>2, <2>3, <2>4
<1>10. CASE ~Red(m, far)
  <2>1. near # NULL
    BY <1>2, <1>5, <1>10 DEF Red
  <2>2. /\ near \in S /\ m.parent[near] = s /\ near # s /\ near # m.root
    BY <1>3, <1>5, <2>1, Kin
  <2>3. near # p
    <3>1. near \in f[s]
      <4>1. near \in Nodes
        BY <2>2 DEF Tree
      <4>2. near \in f[near]
        BY <1>2, <4>1, TreeFacts
      <4>3. f[near] \subseteq f[s]
        BY <1>4, <1>5, ChildSpan
      <4> QED  BY <4>2, <4>3
    <3>2. p \notin f[s]
      BY <1>2, <1>3, ChildSpan
    <3> QED  BY <3>1, <3>2
  <2>4. PICK a : a = rbt_rotate(m, s, o)
    BY Zenon
  <2>5. (\E g : Tree(a, S, g)) /\ Rotated(m, s, o, near, a)
    BY <1>2, <1>3, <1>5, <2>1, <2>4, RotateKeeps
  <2>6. a.color = m.color /\ a.cached_min = m.cached_min /\ a.root = m.root
    BY <1>3, <2>5 DEF Rotated
  <2>7. a.kid[o][p] = near
    <3>1. a.kid[o][p] = IF p = s THEN IF o = o THEN m.kid[o][s] ELSE m.kid[o][near]
                        ELSE IF p = near THEN IF o = o THEN s ELSE m.kid[o][near]
                        ELSE IF m.kid[o][p] = s THEN near ELSE m.kid[o][p]
      BY <1>2, <2>5 DEF Rotated
    <3> QED  BY <1>3, <2>3, <3>1
  <2>8. k = rbt_rotate([Paint(a, {p, s}, {}) EXCEPT !.color[near] = m.color[p]], p, d)
    BY <1>1, <1>5, <1>10, <2>4, Zenon DEF FixupBlackSibling
  <2>9. PICK c : c = Paint(a, {p, s}, {})
    BY Zenon
  <2>10. PICK b : b = [c EXCEPT !.color[near] = m.color[p]]
    BY Zenon
  <2>11. Turned(m, S, rbt_rotate(b, p, d), NULL)
    BY <1>8, <2>1, <2>2, <2>5, <2>6, <2>7, <2>9, <2>10
  <2> QED  BY <2>8, <2>9, <2>10, <2>11
<1> QED  BY <1>9, <1>10

-----------------------------------------------------------------------------
(***************************************************************************)
(* The red-black tree: its inductive invariant.                            *)
(***************************************************************************)

\* The nodes inserted and not removed make up a search tree.
WellFormed == \E f : Tree(rbt, members, f)

\* The cached minimum is the least of them.
MinCached == Least(members, rbt.cached_min)

\* Only the node that rbt_insert_fixup is at may be a red root.
RootBlack ==
    rbt.root # NULL => \/ rbt.color[rbt.root] = "BLACK"
                       \/ op.at = "insert" /\ op.node = rbt.root

\* The local variables of the loops.
OpTypeOK ==
    \/ op = Idle
    \/ \E n \in members : op = [at |-> "insert", node |-> n]
    \/ \E n \in Nodes \cup {NULL}, p \in members :
         op = [at |-> "remove", node |-> n, parent |-> p]

TreeInv == WellFormed /\ MinCached /\ RootBlack /\ OpTypeOK

\* rbt_init makes an empty tree.
LEMMA TreeInit == Init => TreeInv
<1> SUFFICES ASSUME Init PROVE TreeInv
  OBVIOUS
<1>1. /\ rbt = [root |-> NULL, cached_min |-> NULL,
              color |-> [n \in Nodes |-> "RED"],
              parent |-> [n \in Nodes |-> NULL],
              kid |-> [d \in Sides |-> [n \in Nodes |-> NULL]]]
      /\ members = {} /\ op = Idle
  BY DEF Init
<1>2. rbt \in Memory
  BY <1>1 DEF Memory
<1>3. /\ rbt.root = NULL /\ rbt.cached_min = NULL
      /\ \A x \in Nodes : rbt.parent[x] = NULL /\ \A d \in Sides : rbt.kid[d][x] = NULL
  BY <1>1
<1>4. PICK f : f = [x \in Nodes \cup {NULL} |-> IF x = NULL THEN {} ELSE {x}]
  BY Zenon
<1>5. /\ f \in [Nodes \cup {NULL} -> SUBSET Nodes] /\ f[NULL] = {}
      /\ \A x \in Nodes : f[x] = {x}
  BY <1>4, KeyAssumption
<1>6. Spans(rbt, members, f)
  BY <1>1, <1>3, <1>5 DEF Spans, Sides
<1>7. Ordered(rbt, f) /\ Linked(rbt, members)
  BY <1>1, <1>3, <1>5 DEF Ordered, Linked
<1>8. WellFormed
  BY <1>1, <1>2, <1>6, <1>7 DEF WellFormed, Tree
<1> QED  BY <1>1, <1>3, <1>8 DEF TreeInv, MinCached, Least, RootBlack, OpTypeOK

\* The invariant before a step.
LEMMA InvFacts ==
    ASSUME TreeInv
    PROVE  /\ \E f : Tree(rbt, members, f)
           /\ rbt \in Memory /\ members \in SUBSET Nodes /\ NULL \notin members
           /\ rbt.root # NULL => rbt.root \in members
           /\ op.at # "insert" /\ rbt.root # NULL => rbt.color[rbt.root] = "BLACK"
           /\ op.at = "insert" => \E n \in members : op = [at |-> "insert", node |-> n]
           /\ op.at = "remove" => \E n \in Nodes \cup {NULL}, p \in members :
                                    op = [at |-> "remove", node |-> n, parent |-> p]
<1>1. PICK f : Tree(rbt, members, f)
  BY DEF TreeInv, WellFormed
<1>2. rbt \in Memory /\ members \in SUBSET Nodes /\ NULL \notin members
  BY <1>1, KeyAssumption DEF Tree
<1>3. rbt.root # NULL => rbt.root \in members
  <2>1. rbt.root \in Nodes \cup {NULL} /\ f[rbt.root] = members
    BY <1>1 DEF Tree, Memory, Spans
  <2> QED  BY <1>1, <2>1, TreeFacts DEF Sides
<1>4. op.at # "insert" /\ rbt.root # NULL => rbt.color[rbt.root] = "BLACK"
  BY DEF TreeInv, RootBlack
<1>5. op.at = "insert" => \E n \in members : op = [at |-> "insert", node |-> n]
  BY DEF TreeInv, OpTypeOK, Idle
<1>6. op.at = "remove" => \E n \in Nodes \cup {NULL}, p \in members :
                            op = [at |-> "remove", node |-> n, parent |-> p]
  BY DEF TreeInv, OpTypeOK, Idle
<1> QED  BY <1>1, <1>2, <1>3, <1>4, <1>5, <1>6

\* rbt_insert: a new leaf at the end of the way down, or nothing.
LEMMA InsertKeeps ==
    ASSUME TreeInv, NEW n \in Nodes, rbt_insert(n)
    PROVE  TreeInv'
<1>1. op = Idle /\ n \notin members
  BY DEF rbt_insert
<1>2. PICK f : Tree(rbt, members, f)
  BY DEF TreeInv, WellFormed
<1>3. CASE /\ Inserted(rbt, n)[1] /\ rbt' = Inserted(rbt, n)[2]
           /\ members' = members \cup {n} /\ op' = [at |-> "insert", node |-> n]
  <2>1. Least(members, rbt.cached_min)
    BY DEF TreeInv, MinCached
  <2>2. /\ \E g : Tree(rbt', members \cup {n}, g)
        /\ Least(members \cup {n}, rbt'.cached_min)
        /\ rbt'.color = rbt.color /\ rbt'.root = IF rbt.root = NULL THEN n ELSE rbt.root
    BY <1>1, <1>2, <1>3, <2>1, InsertedTree
  <2>3. WellFormed' /\ MinCached'
    BY <1>3, <2>2 DEF WellFormed, MinCached
  <2>4. rbt.root # NULL => rbt.color[rbt.root] = "BLACK"
    BY <1>1, InvFacts DEF Idle
  <2>5. RootBlack'
    BY <1>3, <2>2, <2>4 DEF RootBlack
  <2>6. OpTypeOK'
    BY <1>3 DEF OpTypeOK
  <2> QED  BY <2>3, <2>5, <2>6 DEF TreeInv
<1>4. CASE UNCHANGED <<rbt, members, op>>
  BY <1>4 DEF TreeInv, WellFormed, MinCached, RootBlack, OpTypeOK
<1> QED  BY <1>3, <1>4 DEF rbt_insert

\* A turn of rbt_insert_fixup, or its end.
LEMMA InsertFixupKeeps ==
    ASSUME TreeInv, rbt_insert_fixup
    PROVE  TreeInv'
<1>1. PICK n \in members : op = [at |-> "insert", node |-> n]
  BY InvFacts DEF rbt_insert_fixup
<1>2. op.node = n /\ op.at = "insert"
  BY <1>1
<1>3. PICK f : Tree(rbt, members, f)
  BY DEF TreeInv, WellFormed
<1>4. members' = members
  BY DEF rbt_insert_fixup
<1>5. rbt.root # NULL
  BY <1>3 DEF Tree, Spans
<1>6. rbt.color[rbt.root] = "BLACK" \/ rbt.root = n
  BY <1>2, <1>5 DEF TreeInv, RootBlack
<1>7. Least(members, rbt.cached_min)
  BY DEF TreeInv, MinCached
<1>8. CASE /\ Red(rbt, rbt.parent[op.node])
           /\ rbt' = InsertTurn(rbt, op.node)[1]
           /\ op' = [op EXCEPT !.node = InsertTurn(rbt, op.node)[2]]
  <2>1. PICK r : r = InsertTurn(rbt, n)
    BY Zenon
  <2>2. r[2] \in members /\ Turned(rbt, members, r[1], r[2])
    BY <1>2, <1>3, <1>6, <1>8, <2>1, InsertTurnTree
  <2>3. rbt' = r[1] /\ op' = [at |-> "insert", node |-> r[2]]
    BY <1>1, <1>2, <1>8, <2>1
  <2>4. WellFormed' /\ MinCached'
    BY <1>4, <1>7, <2>2, <2>3 DEF WellFormed, MinCached, Turned
  <2>5. RootBlack'
    BY <2>2, <2>3 DEF RootBlack, Turned
  <2>6. OpTypeOK'
    BY <1>4, <2>2, <2>3 DEF OpTypeOK
  <2> QED  BY <2>4, <2>5, <2>6 DEF TreeInv
<1>9. CASE rbt' = Paint(rbt, {rbt.root}, {}) /\ op' = Idle
  <2>1. Tree(rbt', members, f) /\ Painted(rbt, {rbt.root}, {}, rbt')
    BY <1>3, <1>9, PaintTree
  <2>2. WellFormed' /\ MinCached'
    BY <1>4, <1>7, <2>1 DEF WellFormed, MinCached, Painted
  <2>3. rbt.root \in Nodes
    BY <1>5, InvFacts
  <2>4. RootBlack'
    BY <2>1, <2>3 DEF RootBlack, Painted
  <2> QED  BY <1>9, <2>2, <2>4 DEF TreeInv, OpTypeOK
<1> QED  BY <1>8, <1>9 DEF rbt_insert_fixup

\* rbt_remove: the node is out, and the next one is the minimum if it was.
LEMMA RemoveKeeps ==
    ASSUME TreeInv, NEW n \in Nodes, rbt_remove(n)
    PROVE  TreeInv'
<1>1. op = Idle /\ n \in members /\ members' = members \ {n}
  BY DEF rbt_remove
<1>2. PICK f : Tree(rbt, members, f)
  BY DEF TreeInv, WellFormed
<1>3. PICK c : c = IF rbt.cached_min = n THEN rbnode_next(rbt, n) ELSE rbt.cached_min
  BY Zenon
<1>4. c \in Nodes \cup {NULL} /\ Least(members \ {n}, c)
  BY <1>1, <1>2, <1>3, NextMinIsLeast DEF TreeInv, MinCached
<1>5. PICK a : a = [rbt EXCEPT !.cached_min = c]
  BY Zenon
<1>6. /\ a \in Memory /\ a.root = rbt.root /\ a.color = rbt.color
      /\ a.parent = rbt.parent /\ a.kid = rbt.kid /\ a.cached_min = c
  BY <1>4, <1>5, InvFacts, CachedMinFields
<1>7. Tree(a, members, f)
  BY <1>2, <1>6, SamePointers
<1>8. PICK r : r = TakeOut(a, n)
  BY Zenon
<1>9. PICK m : m = Forget(r.tree, n)
  BY Zenon
<1>10. Removed(a, members, n, r, m)
  BY <1>1, <1>7, <1>8, <1>9, TakeOutTree
<1>11. /\ \E g : Tree(m, members \ {n}, g)
       /\ m.cached_min = c
       /\ r.node \in Nodes \cup {NULL} /\ r.parent \in (members \ {n}) \cup {NULL}
       /\ r.color \in {"RED", "BLACK"}
       /\ a.color[a.root] = "BLACK" /\ m.root # NULL =>
            \/ m.color[m.root] = "BLACK"
            \/ m.root = r.node /\ r.color = "BLACK"
  BY <1>6, <1>10 DEF Removed
<1>12. rbt.root # NULL
  BY <1>1, <1>2 DEF Tree, Spans
<1>13. a.color[a.root] = "BLACK"
  BY <1>1, <1>6, <1>12, InvFacts DEF Idle
<1>14. PICK g : Tree(m, members \ {n}, g)
  BY <1>11
<1>15. m \in Memory /\ (m.root # NULL => m.root \in Nodes)
  BY <1>14 DEF Tree, Memory
<1>16. m.root # NULL /\ m.color[m.root] # "BLACK" => r.color = "BLACK" /\ Red(m, r.node)
  BY <1>11, <1>13, <1>15 DEF Red, Memory
<1>17. /\ r = TakeOut([rbt EXCEPT !.cached_min =
                          IF @ = n THEN rbnode_next(rbt, n) ELSE @], n)
  <2>1. [rbt EXCEPT !.cached_min = IF @ = n THEN rbnode_next(rbt, n) ELSE @] = a
    BY <1>3, <1>5
  <2> QED  BY <1>8, <2>1
<1>18. \/ /\ r.color = "RED" \/ (~Red(m, r.node) /\ r.parent = NULL)
          /\ rbt' = m /\ op' = Idle
       \/ rbt' = Paint(m, {r.node}, {}) /\ op' = Idle
       \/ /\ r.color = "BLACK" /\ ~Red(m, r.node) /\ r.parent # NULL
          /\ rbt' = m /\ op' = [at |-> "remove", node |-> r.node, parent |-> r.parent]
  BY <1>9, <1>17, Zenon DEF rbt_remove
<1>19. CASE /\ r.color = "RED" \/ ~Red(m, r.node)
            /\ rbt' = m
            /\ \/ op' = Idle
               \/ /\ r.parent # NULL
                  /\ op' = [at |-> "remove", node |-> r.node, parent |-> r.parent]
  <2>1. WellFormed' /\ MinCached'
    BY <1>1, <1>4, <1>11, <1>19 DEF WellFormed, MinCached
  <2>2. RootBlack'
    BY <1>16, <1>19 DEF RootBlack
  <2>3. OpTypeOK'
    BY <1>1, <1>11, <1>19 DEF OpTypeOK
  <2> QED  BY <2>1, <2>2, <2>3 DEF TreeInv
<1>20. CASE rbt' = Paint(m, {r.node}, {}) /\ op' = Idle
  <2>1. Tree(rbt', members \ {n}, g) /\ Painted(m, {r.node}, {}, rbt')
    BY <1>14, <1>20, PaintTree
  <2>2. WellFormed' /\ MinCached'
    BY <1>1, <1>4, <1>11, <2>1 DEF WellFormed, MinCached, Painted
  <2>3. RootBlack'
    BY <1>11, <1>13, <1>15, <2>1 DEF RootBlack, Painted
  <2> QED  BY <1>20, <2>2, <2>3 DEF TreeInv, OpTypeOK
<1> QED  BY <1>18, <1>19, <1>20

\* A turn of rbt_remove_fixup.
LEMMA RemoveFixupKeeps ==
    ASSUME TreeInv, rbt_remove_fixup
    PROVE  TreeInv'
<1>1. PICK node \in Nodes \cup {NULL}, p \in members :
        op = [at |-> "remove", node |-> node, parent |-> p]
  BY InvFacts DEF rbt_remove_fixup
<1>2. op.parent = p /\ op.node = node /\ op.at = "remove"
  BY <1>1
<1>3. PICK f : Tree(rbt, members, f)
  BY DEF TreeInv, WellFormed
<1>4. members' = members
  BY DEF rbt_remove_fixup
<1>5. rbt.root # NULL /\ rbt.color[rbt.root] = "BLACK" /\ rbt.root \in Nodes
  <2>1. rbt.root # NULL
    BY <1>1, <1>3 DEF Tree, Spans
  <2> QED  BY <1>2, <2>1, InvFacts
<1>6. Least(members, rbt.cached_min)
  BY DEF TreeInv, MinCached
<1>7. PICK d : d = IF rbt.kid["left"][p] = node THEN "left" ELSE "right"
  BY Zenon
<1>8. PICK o : o = Other(d)
  BY Zenon
<1>9. d \in Sides /\ o \in Sides /\ p \in Nodes
  BY <1>3, <1>7, <1>8, LiesFacts DEF Sides, Other, Tree
<1>10. PICK s : s = rbt.kid[o][p]
  BY Zenon
<1>11. PICK k : k = IF Red(rbt, s) THEN rbt_rotate(Paint(rbt, {s}, {p}), p, d) ELSE rbt
  BY Zenon
<1>12. PICK sib : sib = k.kid[o][p]
  BY Zenon
<1>13. \/ UNCHANGED <<rbt, op>>
       \/ /\ s # NULL /\ sib # NULL /\ \E e \in Sides : Red(k, k.kid[e][sib])
          /\ rbt' = FixupBlackSibling(k, p, sib, d) /\ op' = Idle
       \/ /\ s # NULL /\ sib # NULL
          /\ rbt' = Paint(k, {p}, {sib})
          /\ op' = IF Red(k, p) \/ k.parent[p] = NULL THEN Idle
                   ELSE [op EXCEPT !.node = p, !.parent = k.parent[p]]
  BY <1>2, <1>7, <1>8, <1>10, <1>11, <1>12, Zenon DEF rbt_remove_fixup
<1>14. /\ \E g : Tree(k, members, g)
       /\ k.cached_min = rbt.cached_min
       /\ k.root # NULL /\ k.color[k.root] = "BLACK"
  <2>1. CASE ~Red(rbt, s)
    BY <1>3, <1>5, <1>11, <2>1
  <2>2. CASE Red(rbt, s)
    <3>1. PICK a : a = Paint(rbt, {s}, {p})
      BY Zenon
    <3>2. Tree(a, members, f) /\ Painted(rbt, {s}, {p}, a)
      BY <1>3, <3>1, PaintTree
    <3>3. s # NULL /\ s = a.kid[Other(d)][p]
      BY <1>8, <1>10, <2>2, <3>2 DEF Red, Painted
    <3>4. k = rbt_rotate(a, p, d)
      BY <1>11, <2>2, <3>1
    <3>5. (\E g : Tree(k, members, g)) /\ Rotated(a, p, d, s, k)
      BY <1>9, <3>2, <3>3, <3>4, RotateKeeps
    <3>6. /\ k.color = a.color /\ k.cached_min = rbt.cached_min
          /\ k.root = IF rbt.root = p THEN s ELSE rbt.root
      BY <3>2, <3>5 DEF Rotated, Painted
    <3>7. s \in Nodes
      BY <1>3, <1>9, <1>10, <3>3, TreeFacts
    <3>8. a.color[s] = "BLACK" /\ (rbt.root # p => a.color[rbt.root] = "BLACK")
      BY <1>5, <3>2, <3>7 DEF Painted
    <3> QED  BY <1>5, <3>3, <3>5, <3>6, <3>8
  <2> QED  BY <2>1, <2>2
<1>15. PICK g : Tree(k, members, g)
  BY <1>14
<1>16. CASE UNCHANGED <<rbt, op>>
  BY <1>4, <1>16 DEF TreeInv, WellFormed, MinCached, RootBlack, OpTypeOK
<1>17. CASE /\ sib # NULL /\ \E e \in Sides : Red(k, k.kid[e][sib])
            /\ rbt' = FixupBlackSibling(k, p, sib, d) /\ op' = Idle
  <2>1. Turned(k, members, rbt', NULL)
    BY <1>8, <1>9, <1>12, <1>14, <1>15, <1>17, FixupBlackSiblingTree
  <2>2. WellFormed' /\ MinCached'
    BY <1>4, <1>6, <1>14, <2>1 DEF WellFormed, MinCached, Turned
  <2>3. RootBlack'
    BY <2>1 DEF RootBlack, Turned
  <2> QED  BY <1>17, <2>2, <2>3 DEF TreeInv, OpTypeOK
<1>18. CASE /\ sib # NULL /\ rbt' = Paint(k, {p}, {sib})
            /\ op' = IF Red(k, p) \/ k.parent[p] = NULL THEN Idle
                     ELSE [op EXCEPT !.node = p, !.parent = k.parent[p]]
  <2>1. Tree(rbt', members, g) /\ Painted(k, {p}, {sib}, rbt')
    BY <1>15, <1>18, PaintTree
  <2>2. WellFormed' /\ MinCached'
    BY <1>4, <1>6, <1>14, <2>1 DEF WellFormed, MinCached, Painted
  <2>3. sib # k.root
    BY <1>9, <1>12, <1>15, <1>18, Kin
  <2>4. k.root \in Nodes
    BY <1>14, <1>15 DEF Tree, Memory
  <2>5. RootBlack'
    BY <1>14, <2>1, <2>3, <2>4 DEF RootBlack, Painted
  <2>6. k.parent[p] # NULL => k.parent[p] \in members
    BY <1>9, <1>15, Kin
  <2>7. op' = Idle \/ /\ k.parent[p] # NULL
                      /\ op' = [at |-> "remove", node |-> p, parent |-> k.parent[p]]
    BY <1>1, <1>18
  <2>8. OpTypeOK'
    BY <1>4, <1>9, <2>6, <2>7 DEF OpTypeOK
  <2> QED  BY <2>2, <2>5, <2>8 DEF TreeInv
<1> QED  BY <1>13, <1>16, <1>17, <1>18

\* Every call and every turn preserves the invariant.
LEMMA TreeStep == TreeInv /\ [Next]_vars => TreeInv'
<1> SUFFICES ASSUME TreeInv, [Next]_vars PROVE TreeInv'
  OBVIOUS
<1>1. ASSUME NEW n \in Nodes, rbt_insert(n) PROVE TreeInv'
  BY <1>1, InsertKeeps
<1>2. ASSUME NEW n \in Nodes, rbt_remove(n) PROVE TreeInv'
  BY <1>2, RemoveKeeps
<1>3. CASE rbt_insert_fixup
  BY <1>3, InsertFixupKeeps
<1>4. CASE rbt_remove_fixup
  BY <1>4, RemoveFixupKeeps
<1>5. CASE UNCHANGED vars
  BY <1>5 DEF vars, TreeInv, WellFormed, MinCached, RootBlack, OpTypeOK
<1> QED  BY <1>1, <1>2, <1>3, <1>4, <1>5 DEF Next

\* The invariant holds throughout.
LEMMA TreeInvariant == Spec => []TreeInv
BY TreeInit, TreeStep, PTL DEF Spec

\* The subtrees that SearchTree computes are those of the invariant.
LEMMA SubtreeIs ==
    ASSUME NEW m, NEW S, NEW f, Tree(m, S, f)
    PROVE  \A x \in Nodes \cup {NULL} : Subtree(m)[x] = f[x]
<1> DEFINE Eqn(b) == b = [x \in Nodes \cup {NULL} |->
                            IF x = NULL THEN {}
                            ELSE {x} \cup b[m.kid["left"][x]] \cup b[m.kid["right"][x]]]
<1>1. Eqn(f)
  <2>1. f = [x \in Nodes \cup {NULL} |-> f[x]]
    BY DEF Tree, Spans
  <2>2. \A x \in Nodes \cup {NULL} : f[x] = IF x = NULL THEN {}
            ELSE {x} \cup f[m.kid["left"][x]] \cup f[m.kid["right"][x]]
    BY KeyAssumption DEF Tree, Spans
  <2> QED  BY <2>1, <2>2
<1>2. Subtree(m) = CHOOSE b : Eqn(b)
  BY DEF Subtree
<1>3. PICK b : b = Subtree(m)
  BY Zenon
<1>4. Eqn(b)
  BY <1>1, <1>2, <1>3, Zenon
<1>5. /\ b[NULL] = {}
      /\ \A x \in Nodes : b[x] = {x} \cup b[m.kid["left"][x]] \cup b[m.kid["right"][x]]
  BY <1>4, KeyAssumption
<1> DEFINE P == {x \in Nodes : b[x] = f[x]}
<1>6. ASSUME NEW x \in Nodes, \A d \in Sides : m.kid[d][x] # NULL => m.kid[d][x] \in P
      PROVE  x \in P
  <2>1. f[NULL] = {} /\ f[x] = {x} \cup f[m.kid["left"][x]] \cup f[m.kid["right"][x]]
    BY DEF Tree, Spans
  <2>2. \A d \in Sides : b[m.kid[d][x]] = f[m.kid[d][x]]
    BY <1>5, <1>6, <2>1
  <2>3. b[m.kid["left"][x]] = f[m.kid["left"][x]] /\ b[m.kid["right"][x]] = f[m.kid["right"][x]]
    BY <2>2 DEF Sides
  <2> QED  BY <1>5, <2>1, <2>3
<1> HIDE DEF P
<1>7. Nodes \subseteq P
  BY <1>6, TreeInduction
<1> USE DEF P
<1>8. \A x \in Nodes : b[x] = f[x]
  BY <1>7
<1>9. f[NULL] = {}
  BY DEF Tree, Spans
<1> QED  BY <1>3, <1>5, <1>8, <1>9

\* What the invariant says of the properties.
LEMMA InvSearchTree == TreeInv => SearchTree
<1> SUFFICES ASSUME TreeInv PROVE SearchTree
  OBVIOUS
<1>1. PICK f : Tree(rbt, members, f)
  BY DEF TreeInv, WellFormed
<1>2. PICK below : below = Subtree(rbt)
  BY Zenon
<1>3. \A x \in Nodes \cup {NULL} : below[x] = f[x]
  BY <1>1, <1>2, SubtreeIs
<1>4. members \in SUBSET Nodes /\ rbt.root \in Nodes \cup {NULL} /\ f[rbt.root] = members
      /\ f \in [Nodes \cup {NULL} -> SUBSET Nodes]
  BY <1>1 DEF Tree, Spans, Memory
<1>5. below[rbt.root] = members
  BY <1>3, <1>4
<1>6. ASSUME NEW n \in members, NEW d \in Sides, NEW x \in below[rbt.kid[d][n]]
      PROVE  Lies(d, x, n) /\ x \in Nodes
  <2>1. n \in Nodes /\ rbt.kid[d][n] \in Nodes \cup {NULL}
    BY <1>1, <1>4, TreeFacts
  <2>2. x \in f[rbt.kid[d][n]]
    BY <1>3, <1>6, <2>1
  <2> QED  BY <1>1, <1>4, <2>1, <2>2, TreeFacts
<1>7. ASSUME NEW n \in members
      PROVE  /\ \A x \in below[rbt.kid["left"][n]] : Key[x] < Key[n]
             /\ \A x \in below[rbt.kid["right"][n]] : Key[x] > Key[n]
  <2>1. \A x \in below[rbt.kid["left"][n]] : Lies("left", x, n)
    BY <1>6 DEF Sides
  <2>2. \A x \in below[rbt.kid["right"][n]] : Lies("right", x, n) /\ x \in Nodes
    BY <1>6 DEF Sides
  <2>3. Key[n] \in Int /\ \A x \in Nodes : Key[x] \in Int
    BY <1>4, KeyAssumption
  <2> QED  BY <2>1, <2>2, <2>3 DEF Lies
<1>8. ASSUME NEW n \in members, NEW d \in Sides, rbt.kid[d][n] # NULL
      PROVE  rbt.parent[rbt.kid[d][n]] = n
  BY <1>1, <1>4, <1>8 DEF Tree, Linked
<1>9. rbt.root # NULL => rbt.parent[rbt.root] = NULL
  BY <1>1 DEF Tree, Linked
<1> QED  BY <1>2, <1>5, <1>7, <1>8, <1>9 DEF SearchTree

\* The minimum is cached; the walk to the right from the root finds the maximum.
LEMMA InvMinMax == TreeInv => MinMax
<1> SUFFICES ASSUME TreeInv PROVE MinMax
  OBVIOUS
<1>1. PICK f : Tree(rbt, members, f)
  BY DEF TreeInv, WellFormed
<1>2. members \in SUBSET Nodes /\ rbt.root \in Nodes \cup {NULL} /\ f[rbt.root] = members
      /\ f[NULL] = {} /\ \A x \in Nodes : x \in f[x] /\ Key[x] \in Int
  BY <1>1, TreeFacts, KeyAssumption DEF Tree, Spans, Memory, Sides
<1>3. Least(members, rbt.cached_min)
  BY DEF TreeInv, MinCached
<1>4. CASE members = {}
  <2>1. rbt.root = NULL
    BY <1>2, <1>4
  <2> QED  BY <1>3, <1>4, <2>1 DEF MinMax, Least, rbt_empty, rbt_min, rbt_max
<1>5. CASE members # {}
  <2>1. rbt.root # NULL /\ rbt.root \in Nodes
    BY <1>2, <1>5
  <2>2. PICK z : z = Outermost(rbt, rbt.root, "right")
    BY Zenon
  <2>3. rbt_max(rbt) = z
    BY <2>1, <2>2 DEF rbt_max
  <2>4. Extreme(f, rbt.root, "right", z)
    BY <1>1, <2>1, <2>2, OutermostIsLast DEF Sides
  <2>5. z \in members /\ \A w \in members : w = z \/ Lies("left", w, z)
    BY <1>2, <2>4 DEF Extreme, Other
  <2>6. \A w \in members : Key[w] <= Key[z]
    BY <1>2, <2>5 DEF Lies
  <2> QED  BY <1>3, <1>5, <2>3, <2>5, <2>6 DEF MinMax, Least, rbt_min
<1> QED  BY <1>4, <1>5

\* The two walks, seen from either side.
LEMMA InvNeighbours == TreeInv => Neighbours
<1> SUFFICES ASSUME TreeInv, NEW n \in members, NEW d \in Sides
             PROVE  Nearest(n, d, Adjacent(rbt, n, d))
  BY DEF Neighbours, rbnode_next, rbnode_prev, Sides
<1>1. PICK f : Tree(rbt, members, f)
  BY DEF TreeInv, WellFormed
<1>2. PICK z : z = Adjacent(rbt, n, d)
  BY Zenon
<1>3. NextTo(members, n, d, z)
  BY <1>1, <1>2, AdjacentIsNext
<1>4. \A x \in members : Key[x] \in Int
  BY <1>1, KeyAssumption DEF Tree
<1>5. \A x \in members : Beyond(x, d) = {y \in members : Lies(d, y, x)}
  BY <1>4 DEF Beyond, Lies, Sides
<1>6. CASE \A y \in members : ~Lies(d, y, n)
  BY <1>2, <1>3, <1>5, <1>6 DEF NextTo, Nearest
<1>7. CASE \E y \in members : Lies(d, y, n)
  <2>1. /\ z \in members /\ Lies(d, z, n)
        /\ \A y \in members : Lies(d, y, n) => y = z \/ Lies(d, y, z)
    BY <1>3, <1>7 DEF NextTo
  <2>2. z \in Beyond(n, d) /\ \A y \in Beyond(n, d) : y = z \/ y \in Beyond(z, d)
    BY <1>5, <2>1
  <2> QED  BY <1>2, <2>2 DEF Nearest
<1> QED  BY <1>6, <1>7

\* Whatever the keys, and whatever rbt_insert and rbt_remove are called for in
\* whatever order: the nodes inserted and not removed make up a search tree with
\* both pointers of every edge, after every call and every turn of its fixup.
THEOREM TreeSearches == Spec => []SearchTree
BY TreeInvariant, InvSearchTree, PTL

\* The cached minimum and rbt_max are the ends of the tree, whatever the calls.
THEOREM TreeEnds == Spec => []MinMax
BY TreeInvariant, InvMinMax, PTL

\* rbnode_next and rbnode_prev go to the neighbours in the order of the keys, or
\* end, in every tree that the calls can build.
THEOREM TreeWalks == Spec => []Neighbours
BY TreeInvariant, InvNeighbours, PTL
=============================================================================
