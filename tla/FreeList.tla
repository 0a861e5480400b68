------------------------------ MODULE FreeList ------------------------------
(***************************************************************************)
(* The free-list allocator, Allocator/src/FreeList.c.                      *)
(*                                                                         *)
(* A free list is a chain of memory pools.  Every pool is one malloc chunk *)
(* that starts with the pool's metadata and is otherwise cut into blocks;  *)
(* the blocks not handed out are chained in the pool's free list.  An      *)
(* allocation takes the first free block, in the first pool, that has room *)
(* for it, and gives back what it does not need as a smaller free block; a *)
(* deallocation pushes the block on its pool's list.  Blocks are never     *)
(* merged.  When no pool has room the chain grows by one pool.             *)
(*                                                                         *)
(* Addresses and sizes are numbers of bytes, with the sizes of an LP64     *)
(* build.  What a header stores in memory is a record: that no write of a  *)
(* caller or of the allocator reaches another's memory is the subject of   *)
(* the invariants below.                                                   *)
(***************************************************************************)
EXTENDS Align, SystemHeap, Sequences, SequencesExt

CONSTANTS
  UINT32_MAX,   \* largest size an occupied header can hold
  SIZE_MAX,     \* largest size_t
  PoolSizes,    \* the pool_size arguments of free_list_ctor
  Requests      \* the pairs <<size, alignment>> of free_list_allocate

ASSUME WidthAssumption ==
  /\ UINT32_MAX \in Nat
  /\ SIZE_MAX \in Nat
  /\ 24 <= UINT32_MAX /\ UINT32_MAX + 32 <= SIZE_MAX
  /\ PoolSizes \subseteq 0 .. SIZE_MAX
  /\ Requests \subseteq Nat \X Nat

(* Alignments are powers of two, as C has them, and so one, two or a       *)
(* multiple of four; 0 is what a caller may pass by mistake.               *)
ASSUME AlignmentAssumption ==
  \A q \in Requests : q[2] \in {0, 1, 2} \/ q[2] % 4 = 0

VARIABLES
  heap,      \* the chunks malloc has given out
  pools,     \* the next_pool chain: [addr, end], addr of the metadata, pool_end
  free,      \* free[p]: the chain from free_block of pool p, of [addr, size]
  occupied   \* the allocations in use: their headers' size and padding, the
             \* address ptr given to the caller and the len it asked for

vars == <<heap, pools, free, occupied>>

-----------------------------------------------------------------------------
(* sizeof and alignof of the structures of FreeList.c. *)
OccupiedHeaderSize  == 8    \* FreeListOccupiedBlockHeader: two uint32_t
OccupiedHeaderAlign == 4
FreeHeaderSize      == 16   \* FreeListFreeBlockHeader: size_t and a pointer
FreeHeaderAlign     == 8
POOL_METADATA_SIZE  == 24   \* FreeListMemoryPool: three pointers
FreeListSize        == 8    \* FreeList: one pointer

(* Arithmetic on size_t, and the casts to uint32_t. *)
SizeT(n)  == IF n <= SIZE_MAX THEN n ELSE n % (SIZE_MAX + 1)
UInt32(n) == IF n <= UINT32_MAX THEN n ELSE n % (UINT32_MAX + 1)

Block == [addr : Nat, size : Nat]
Pool  == [addr : Nat, end : Nat]
Taken == [ptr : Nat, len : Nat, size : Nat, padding : Nat]

BlockEnd(b) == b.addr + b.size

(* Where a pool's blocks begin, and the bytes it has for them.             *)
PoolStart(pool) == pool.addr + POOL_METADATA_SIZE
PoolSize(pool)  == pool.end - PoolStart(pool)

(* The block an allocation was cut from, found again from its header. *)
BlockOf(o) ==
  [addr |-> o.ptr - OccupiedHeaderSize - o.padding, size |-> o.size]

-----------------------------------------------------------------------------
(* free_list_pool_ctor: what it asks malloc for, and the pool it lays out. *)
(* The FreeList itself lies in front of the first pool's metadata.         *)
AllocSize(size) ==
  SizeT(POOL_METADATA_SIZE + OccupiedHeaderSize + MAX(size, FreeHeaderSize))

InFront(first) == IF first THEN FreeListSize ELSE 0

PoolAddr(base, first) == base + InFront(first)

FirstBlock(base, size, first) ==
  [addr |-> PoolAddr(base, first) + POOL_METADATA_SIZE,
   size |-> SizeT(MAX(size, FreeHeaderSize) + InFront(first))]

NewPool(base, size, first) ==
  [addr |-> PoolAddr(base, first),
   end  |-> BlockEnd(FirstBlock(base, size, first))]

(* A bug: aligning the header instead of the address behind it. *)
PayloadBehindAlignedHeader(b, alignment) ==
  AlignPtr(b.addr, MAX(alignment, OccupiedHeaderAlign)) + OccupiedHeaderSize

(* free_list_pool_allocate: the address the caller gets from a free block, *)
(* the room it needs, and the end of the part that is kept for it.         *)
Payload(b, alignment) ==
  AlignPtr(b.addr + OccupiedHeaderSize, MAX(alignment, OccupiedHeaderAlign))

(* A bug: testing for room as if alignment cost no padding. *)
FitsIgnoringPadding(b, size, alignment) ==
  b.addr + OccupiedHeaderSize + size <= BlockEnd(b)

Fits(b, size, alignment) == Payload(b, alignment) + size <= BlockEnd(b)

SplitPoint(b, size, alignment) ==
  AlignPtr(Payload(b, alignment) + size, FreeHeaderAlign)

(* Bugs: splitting whatever is left, or whenever a byte is left. *)
SplitsAlways(b, size, alignment) == TRUE
SplitsForAnyRest(b, size, alignment) ==
  SplitPoint(b, size, alignment) < BlockEnd(b)

Splits(b, size, alignment) ==
  SplitPoint(b, size, alignment) + FreeHeaderSize < BlockEnd(b)

(* The rest of a split block, in its place in the list. *)
Remainder(b, size, alignment) ==
  LET split == SplitPoint(b, size, alignment)
  IN  [addr |-> split, size |-> BlockEnd(b) - split]

(* A bug: unlinking the block and losing its rest. *)
FreeAfterLosingRest(list, i, size, alignment) == RemoveAt(list, i)

FreeAfter(list, i, size, alignment) ==
  IF Splits(list[i], size, alignment)
  THEN [list EXCEPT ![i] = Remainder(list[i], size, alignment)]
  ELSE RemoveAt(list, i)

(* Bugs: recording the size before the split, or the bytes asked for, or   *)
(* no padding.                                                             *)
HeaderOfWholeBlock(b, size, alignment) ==
  [ptr     |-> Payload(b, alignment),
   len     |-> size,
   size    |-> UInt32(b.size),
   padding |-> UInt32(Payload(b, alignment) - OccupiedHeaderSize - b.addr)]

HeaderOfPayload(b, size, alignment) ==
  [ptr     |-> Payload(b, alignment),
   len     |-> size,
   size    |-> UInt32(OccupiedHeaderSize + size),
   padding |-> UInt32(Payload(b, alignment) - OccupiedHeaderSize - b.addr)]

HeaderWithoutPadding(b, size, alignment) ==
  [ptr     |-> Payload(b, alignment),
   len     |-> size,
   size    |-> UInt32(b.size),
   padding |-> 0]

Header(b, size, alignment) ==
  [ptr     |-> Payload(b, alignment),
   len     |-> size,
   size    |-> UInt32(IF Splits(b, size, alignment)
                      THEN SplitPoint(b, size, alignment) - b.addr
                      ELSE b.size),
   padding |-> UInt32(Payload(b, alignment) - OccupiedHeaderSize - b.addr)]

(* A bug: leaving no room for the padding of an alignment. *)
RequiredBlockSizeUnpadded(size, alignment) ==
  IF alignment = 0 \/ size = 0 \/ OccupiedHeaderSize + size > UINT32_MAX
  THEN 0 ELSE OccupiedHeaderSize + size

(* free_list_required_block_size; its overflow checks are implied by the   *)
(* last one, made here on unbounded numbers.                               *)
RequiredBlockSize(size, alignment) ==
  LET required == OccupiedHeaderSize + size
                    + MAX(alignment, OccupiedHeaderAlign) - 1
  IN  IF alignment = 0 \/ size = 0 \/ required > UINT32_MAX
      THEN 0 ELSE required

(* free_list_pool_check_ptr. *)
CheckPtr(pool, ptr) == PoolStart(pool) <= ptr /\ ptr < pool.end

-----------------------------------------------------------------------------
Init ==
  /\ heap = {}
  /\ pools = <<>>
  /\ free = <<>>
  /\ occupied = {}

(* free_list_ctor(pool_size), when malloc has the memory. *)
Ctor(pool_size) ==
  /\ pools = <<>>
  /\ pool_size # 0
  /\ \E base \in Bases :
       /\ CanPlace(heap, base, AllocSize(pool_size))
       /\ heap' = Malloc(heap, base, AllocSize(pool_size))
       /\ pools' = <<NewPool(base, pool_size, TRUE)>>
       /\ free' = << <<FirstBlock(base, pool_size, TRUE)>> >>
  /\ UNCHANGED occupied

(* A bug: freeing the first pool, like the others, by its own address. *)
DtorByPoolAddress ==
  /\ pools # <<>>
  /\ heap' = FreeAll(heap, {pools[p].addr : p \in DOMAIN pools})
  /\ pools' = <<>>
  /\ free' = <<>>
  /\ occupied' = {}

(* free_list_dtor: every later pool is freed by its own address, the first *)
(* one by the address of the FreeList in front of it.                      *)
Dtor ==
  /\ pools # <<>>
  /\ heap' = FreeAll(heap, {pools[1].addr - FreeListSize}
                             \cup {pools[p].addr : p \in 2 .. Len(pools)})
  /\ pools' = <<>>
  /\ free' = <<>>
  /\ occupied' = {}

(* The pools that have room for a request, and the first place in one. *)
ValidSize(size) == size \in 1 .. UINT32_MAX

Serves(p, size, alignment) ==
  \E i \in DOMAIN free[p] : Fits(free[p][i], size, alignment)

NoneServes(size, alignment) ==
  ValidSize(size) => \A p \in DOMAIN pools : ~Serves(p, size, alignment)

FirstFit(p, i, size, alignment) ==
  /\ Fits(free[p][i], size, alignment)
  /\ \A j \in 1 .. i - 1 : ~Fits(free[p][j], size, alignment)
  /\ \A q \in 1 .. p - 1 : ~Serves(q, size, alignment)

(* free_list_allocate served by a pool of the chain. *)
AllocateExisting(size, alignment) ==
  /\ ValidSize(size)
  /\ \E p \in DOMAIN pools : \E i \in DOMAIN free[p] :
       /\ FirstFit(p, i, size, alignment)
       /\ free' = [free EXCEPT ![p] = FreeAfter(@, i, size, alignment)]
       /\ occupied' = occupied \cup {Header(free[p][i], size, alignment)}
  /\ UNCHANGED <<heap, pools>>

(* free_list_allocate that appends a pool as large as the first one, or    *)
(* larger when the request needs it, and takes the request from it.  That  *)
(* the new pool has room for it is FreshPoolServes below.                  *)
AllocateGrowing(size, alignment) ==
  LET pool_size == MAX(RequiredBlockSize(size, alignment), PoolSize(pools[1]))
  IN  /\ pools # <<>>
      /\ NoneServes(size, alignment)
      /\ RequiredBlockSize(size, alignment) # 0
      /\ \E base \in Bases :
           LET block == FirstBlock(base, pool_size, FALSE)
           IN  /\ CanPlace(heap, base, AllocSize(pool_size))
               /\ heap' = Malloc(heap, base, AllocSize(pool_size))
               /\ pools' = Append(pools, NewPool(base, pool_size, FALSE))
               /\ free' = Append(free, FreeAfter(<<block>>, 1, size, alignment))
               /\ occupied' = occupied \cup {Header(block, size, alignment)}

(* free_list_allocate that returns NULL: no pool has room, and the request *)
(* is refused or malloc has no memory.                                     *)
AllocateNull(size, alignment) ==
  /\ NoneServes(size, alignment)
  /\ UNCHANGED vars

(* free_list_deallocate of an allocation in use: the first pool whose      *)
(* range holds the address gets the block the header describes.            *)
Deallocate(o) ==
  /\ \E p \in DOMAIN pools :
       /\ CheckPtr(pools[p], o.ptr)
       /\ \A q \in 1 .. p - 1 : ~CheckPtr(pools[q], o.ptr)
       /\ free' = [free EXCEPT ![p] = <<BlockOf(o)>> \o @]
  /\ occupied' = occupied \ {o}
  /\ UNCHANGED <<heap, pools>>

(* free_list_deallocate of an address in no pool is ignored. *)
DeallocateForeign(ptr) ==
  /\ \A p \in DOMAIN pools : ~CheckPtr(pools[p], ptr)
  /\ UNCHANGED vars

Next ==
  \/ \E pool_size \in PoolSizes : Ctor(pool_size)
  \/ \E q \in Requests : \/ AllocateExisting(q[1], q[2])
                         \/ AllocateGrowing(q[1], q[2])
                         \/ AllocateNull(q[1], q[2])
  \/ \E o \in occupied : Deallocate(o)
  \/ \E ptr \in Bases \cup {0} : DeallocateForeign(ptr)
  \/ Dtor

Spec == Init /\ [][Next]_vars

-----------------------------------------------------------------------------
Disjoint(b, c) == BlockEnd(b) <= c.addr \/ BlockEnd(c) <= b.addr

Inside(b, pool) == PoolStart(pool) <= b.addr /\ BlockEnd(b) <= pool.end

(* All blocks of pool p: those on its list and those handed out from it.   *)
BlocksOf(p) ==
  {free[p][i] : i \in DOMAIN free[p]}
    \cup {b \in {BlockOf(o) : o \in occupied} : Inside(b, pools[p])}

(* The chunk malloc gave for pool p. *)
ChunkOf(p) ==
  IF p = 1
  THEN [base |-> pools[1].addr - FreeListSize,
        len  |-> AllocSize(PoolSize(pools[1]) - FreeListSize)]
  ELSE [base |-> pools[p].addr, len |-> AllocSize(PoolSize(pools[p]))]

(* The variables hold what the structures of the code can hold: as many    *)
(* lists as pools, sizes that are not negative, headers of two uint32_t.   *)
TypeOK ==
  /\ heap \subseteq Chunk
  /\ pools \in Seq(Pool)
  /\ free \in Seq(Seq(Block))
  /\ Len(free) = Len(pools)
  /\ occupied \subseteq Taken
  /\ \A o \in occupied : o.size <= UINT32_MAX /\ o.padding <= UINT32_MAX

(* No byte belongs to two blocks, free or in use, of one pool or of two:   *)
(* neither a caller's writes nor a free-list header written into a block   *)
(* reach memory that is used for something else.                           *)
NoOverlap ==
  /\ \A p, q \in DOMAIN free : \A i \in DOMAIN free[p], j \in DOMAIN free[q] :
       (p # q \/ i # j) => Disjoint(free[p][i], free[q][j])
  /\ \A o \in occupied : \A p \in DOMAIN free : \A i \in DOMAIN free[p] :
       Disjoint(BlockOf(o), free[p][i])
  /\ \A o, u \in occupied : o # u => Disjoint(BlockOf(o), BlockOf(u))

(* Splitting and giving back lose no byte of a pool: its blocks follow one *)
(* another from the end of its metadata to pool_end.                       *)
Tiled ==
  \A p \in DOMAIN pools :
    {b.addr : b \in BlocksOf(p)} \cup {pools[p].end}
      = {BlockEnd(b) : b \in BlocksOf(p)} \cup {PoolStart(pools[p])}

(* Every block, also one in use that will be freed later, has the size and *)
(* alignment of a free header, which deallocate writes at its start.       *)
BlocksHoldHeader ==
  \A p \in DOMAIN pools : \A b \in BlocksOf(p) :
    b.size >= FreeHeaderSize /\ b.addr % FreeHeaderAlign = 0

(* The header in front of an allocation and all the bytes its caller asked *)
(* for lie in the block cut for it, and the block in one of the pools.     *)
PayloadInBlock ==
  \A o \in occupied :
    /\ BlockOf(o).addr <= o.ptr - OccupiedHeaderSize
    /\ o.ptr + o.len <= BlockEnd(BlockOf(o))
    /\ \E p \in DOMAIN pools : Inside(BlockOf(o), pools[p])

(* free_list_required_block_size asks for enough: the pool that is added   *)
(* for a request serves it wherever malloc places it, so that an added     *)
(* pool never stays empty while the request fails.                         *)
FreshPoolServes ==
  pools # <<>> =>
    \A q \in Requests, base \in Bases :
      LET required == RequiredBlockSize(q[1], q[2])
      IN  required # 0 =>
            Fits(FirstBlock(base, MAX(required, PoolSize(pools[1])), FALSE),
                 q[1], q[2])

(* What a header stores is enough to give the whole block back: once freed *)
(* it has room for the allocation that was in it, at every alignment that  *)
(* allocation had.                                                         *)
FreedBlockReusable ==
  \A o \in occupied : \A q \in Requests :
    (q[2] # 0 /\ o.ptr % q[2] = 0) => Fits(BlockOf(o), o.len, q[2])

(* The chunks in use are those of the pools of the chain, each freed by    *)
(* the address malloc returned: destruction leaves none behind.            *)
NoLeak == heap = {ChunkOf(p) : p \in DOMAIN pools}

(* Neighbouring blocks are never joined again: where a block starts, one   *)
(* starts until the free list is destroyed.                                *)
FragmentationIsPermanent ==
  [][pools' # <<>> =>
       \A p \in DOMAIN pools :
         {b.addr : b \in BlocksOf(p)} \subseteq {b.addr : b \in BlocksOf(p)'}]_vars

(* The memory its callers use, as the contract of a memory resource has it. *)
Live(occ) == {[ptr |-> o.ptr, len |-> o.len] : o \in occ}

Contract == INSTANCE MemoryResource WITH live <- Live(occupied)

(* A free list implements that contract: what it hands out is as large and *)
(* as aligned as asked and shares no byte with anything else in use.       *)
ImplementsContract == Contract!Spec

-----------------------------------------------------------------------------
(* FreeList.h promises a pointer to allocated memory: every pool lies in   *)
(* the chunk that was allocated for it.                                    *)
PoolsInChunks ==
  \A p \in DOMAIN pools : \E c \in heap :
    c.base <= pools[p].addr /\ pools[p].end <= c.base + c.len

(* What holds instead: the overrun is that of the first pool alone and no  *)
(* larger than the FreeList in front of it, which is the gap that the      *)
(* other invariants need malloc to keep; a free header at the start of the *)
(* pool always lies in the chunk.                                          *)
OverrunBounded ==
  \A p \in DOMAIN pools : \E c \in heap :
    /\ c.base + InFront(p = 1) <= pools[p].addr
    /\ pools[p].end <= c.base + c.len + InFront(p = 1)
    /\ PoolStart(pools[p]) + FreeHeaderSize <= c.base + c.len
=============================================================================
