-------------------------------- MODULE Pool --------------------------------
(***************************************************************************)
(* The pool allocator, Allocator/src/Pool.c.                               *)
(*                                                                         *)
(* A pool keeps a chain of levels, one for every size of block it was      *)
(* asked for, and a level a chain of sub pools.  Every sub pool is one     *)
(* malloc chunk: its structure and `count' blocks of the level's size,     *)
(* those not handed out chained through their own memory.  An allocation   *)
(* takes the head of the first chain of its level that is not empty and    *)
(* adds a sub pool when all are; a deallocation finds the sub pool by      *)
(* address.                                                                *)
(*                                                                         *)
(* Sizes do not wrap: of the requests, those whose count * elem_size       *)
(* exceeds SIZE_MAX are outside this model.                                *)
(***************************************************************************)
EXTENDS Align, SystemHeap, Sequences, SequencesExt

CONSTANTS
  Counts,    \* the count arguments of pool_ctor
  Requests   \* the pairs <<size, alignment>> of pool_allocate

(* pool_ctor takes a count of 0 as well; the chain such a sub pool would   *)
(* have is laid out in front of its memory.                                *)
ASSUME PoolAssumption ==
  /\ Counts \subseteq Nat \ {0}
  /\ Requests \subseteq Nat \X Nat

VARIABLES
  heap,     \* the chunks malloc has given out
  pool,     \* [addr, count], or NULL
  levels,   \* the next_pool_dif_size chain: [elem_size, subs], where subs is
            \* the next_pool_same_size chain of [addr, free], free the chain
            \* of addresses from free_block
  live,     \* the allocations in use: a set of [ptr, len]
  crashed   \* a NULL pointer has been dereferenced

vars == <<heap, pool, levels, live, crashed>>

-----------------------------------------------------------------------------
(* sizeof of the structures of Pool.c, and alignof of a free block. *)
PoolStructSize  == 16   \* Pool: a size and a pointer
FirstLevelSize  == 32   \* FirstLevelPool: three pointers and a size
SecondLevelSize == 16   \* SecondLevelPool: two pointers
FreeBlockAlign  == 8    \* PoolFreeBlock: a pointer

NULL == [addr |-> 0, count |-> 0]

(* The first sub pool of a level is its FirstLevelPool. *)
MetaSize(s) == IF s = 1 THEN FirstLevelSize ELSE SecondLevelSize

(* The size of the blocks that serve a request. *)

\* A bug: leaving no room for the link of a free block.
AlignedSizeOfRequest(size, alignment) == AlignSize(size, alignment)

\* A bug: aligning for the link only.
AlignedSizeOfLink(size, alignment) == AlignSize(size, FreeBlockAlign)

AlignedSize(size, alignment) == AlignSize(size, MAX(alignment, FreeBlockAlign))

(* sub_pool_ctor: the chunk it asks for, and the blocks it chains. *)
SubPoolSize(s, elem_size) == pool.count * elem_size + MetaSize(s)

\* A bug: chaining up to and including the end.
FreshChainTooLong(start, elem_size) ==
  [i \in 1 .. pool.count + 1 |-> start + (i - 1) * elem_size]

FreshChain(start, elem_size) ==
  [i \in 1 .. pool.count |-> start + (i - 1) * elem_size]

(* second_level_ctor and first_level_ctor, with the first block taken. *)
NewSub(base, s, elem_size) ==
  [addr |-> base, free |-> Tail(FreshChain(base + MetaSize(s), elem_size))]

NewLevel(base, elem_size) ==
  [elem_size |-> elem_size, subs |-> <<NewSub(base, 1, elem_size)>>]

(* The blocks' range in sub pool s of level l. *)
Start(l, s) == levels[l].subs[s].addr + MetaSize(s)

End(l, s) == Start(l, s) + pool.count * levels[l].elem_size

Holds(l, s, ptr) == Start(l, s) <= ptr /\ ptr < End(l, s)

(* find_first_level_by_size. *)

\* A bug: comparing with the size before it is aligned.
SameSizeUnaligned(l, size, alignment) == levels[l].elem_size = size

SameSize(l, size, alignment) ==
  levels[l].elem_size = AlignedSize(size, alignment)

IsLevelFor(l, size, alignment) ==
  /\ SameSize(l, size, alignment)
  /\ \A k \in 1 .. l - 1 : ~SameSize(k, size, alignment)

NoLevelFor(size, alignment) ==
  \A l \in DOMAIN levels : ~SameSize(l, size, alignment)

\* A bug: looking at the last sub pool alone.
ExhaustedLast(l) == Last(levels[l].subs).free = <<>>

Exhausted(l) == \A s \in DOMAIN levels[l].subs : levels[l].subs[s].free = <<>>

-----------------------------------------------------------------------------
Init ==
  /\ heap = {}
  /\ pool = NULL
  /\ levels = <<>>
  /\ live = {}
  /\ crashed = FALSE

(* pool_ctor(count), when malloc has the memory. *)
Ctor(count) ==
  /\ pool = NULL
  /\ \E base \in Bases :
       /\ CanPlace(heap, base, PoolStructSize)
       /\ heap' = Malloc(heap, base, PoolStructSize)
       /\ pool' = [addr |-> base, count |-> count]
  /\ UNCHANGED <<levels, live, crashed>>

Valid(size, alignment) == size # 0 /\ alignment # 0

Running == pool # NULL /\ ~crashed

(* pool_allocate from a level that has a free block. *)
AllocateExisting(size, alignment) ==
  /\ Running
  /\ Valid(size, alignment)
  /\ \E l \in DOMAIN levels :
       /\ IsLevelFor(l, size, alignment)
       /\ \E s \in DOMAIN levels[l].subs :
            LET free == levels[l].subs[s].free
            IN  /\ free # <<>>
                /\ \A r \in 1 .. s - 1 : levels[l].subs[r].free = <<>>
                /\ levels' = [levels EXCEPT ![l].subs[s].free = Tail(@)]
                /\ live' = live \cup {[ptr |-> Head(free), len |-> size]}
  /\ UNCHANGED <<heap, pool, crashed>>

(* pool_allocate that appends a sub pool to its level, all of whose blocks *)
(* are in use, and returns the new sub pool's first block.                 *)
AllocateNewSub(size, alignment) ==
  /\ Running
  /\ Valid(size, alignment)
  /\ \E l \in DOMAIN levels, base \in Bases :
       LET s         == Len(levels[l].subs) + 1
           elem_size == levels[l].elem_size
       IN  /\ IsLevelFor(l, size, alignment)
           /\ Exhausted(l)
           /\ CanPlace(heap, base, SubPoolSize(s, elem_size))
           /\ heap' = Malloc(heap, base, SubPoolSize(s, elem_size))
           /\ levels' = [levels EXCEPT ![l].subs =
                           Append(@, NewSub(base, s, elem_size))]
           /\ live' = live \cup {[ptr |-> base + MetaSize(s), len |-> size]}
  /\ UNCHANGED <<pool, crashed>>

(* pool_allocate that appends a level for a size not asked for before.     *)
AllocateNewLevel(size, alignment) ==
  LET elem_size == AlignedSize(size, alignment)
  IN  /\ Running
      /\ Valid(size, alignment)
      /\ NoLevelFor(size, alignment)
      /\ \E base \in Bases :
           /\ CanPlace(heap, base, SubPoolSize(1, elem_size))
           /\ heap' = Malloc(heap, base, SubPoolSize(1, elem_size))
           /\ levels' = Append(levels, NewLevel(base, elem_size))
           /\ live' = live \cup {[ptr |-> base + MetaSize(1), len |-> size]}
      /\ UNCHANGED <<pool, crashed>>

(* pool_allocate that returns NULL: the request is empty, or malloc has no *)
(* memory for a sub pool or for a level other than the first.              *)
AllocateNull(size, alignment) ==
  /\ Running
  /\ \/ ~Valid(size, alignment)
     \/ \E l \in DOMAIN levels : IsLevelFor(l, size, alignment) /\ Exhausted(l)
     \/ levels # <<>> /\ NoLevelFor(size, alignment)
  /\ UNCHANGED vars

(* pool_allocate when malloc has no memory for the first level: it goes on *)
(* with the NULL that first_level_ctor returned.                           *)
AllocateFirstOutOfMemory(size, alignment) ==
  /\ Running
  /\ Valid(size, alignment)
  /\ levels = <<>>
  /\ crashed' = TRUE
  /\ UNCHANGED <<heap, pool, levels, live>>

(* pool_deallocate: the first sub pool whose range holds the address gets  *)
(* the block.                                                              *)
IsSubPoolOf(l, s, ptr) ==
  /\ Holds(l, s, ptr)
  /\ \A k \in DOMAIN levels : \A r \in DOMAIN levels[k].subs :
       (k < l \/ (k = l /\ r < s)) => ~Holds(k, r, ptr)

Deallocate(o) ==
  /\ Running
  /\ \E l \in DOMAIN levels : \E s \in DOMAIN levels[l].subs :
       /\ IsSubPoolOf(l, s, o.ptr)
       /\ levels' = [levels EXCEPT ![l].subs[s].free = <<o.ptr>> \o @]
  /\ live' = live \ {o}
  /\ UNCHANGED <<heap, pool, crashed>>

(* pool_deallocate of an address in no sub pool is ignored. *)
DeallocateForeign(ptr) ==
  /\ Running
  /\ \A l \in DOMAIN levels : \A s \in DOMAIN levels[l].subs : ~Holds(l, s, ptr)
  /\ UNCHANGED vars

(* A bug: freeing the levels but not the sub pools chained to them. *)
DtorFirstSubsOnly ==
  /\ Running
  /\ heap' = FreeAll(heap, {levels[l].subs[1].addr : l \in DOMAIN levels}
                             \cup {pool.addr})
  /\ pool' = NULL
  /\ levels' = <<>>
  /\ live' = {}
  /\ UNCHANGED crashed

(* pool_dtor. *)
Dtor ==
  /\ Running
  /\ heap' = FreeAll(heap,
               {pool.addr} \cup
               UNION {{levels[l].subs[s].addr : s \in DOMAIN levels[l].subs} :
                        l \in DOMAIN levels})
  /\ pool' = NULL
  /\ levels' = <<>>
  /\ live' = {}
  /\ UNCHANGED crashed

Next ==
  \/ \E count \in Counts : Ctor(count)
  \/ \E q \in Requests : \/ AllocateExisting(q[1], q[2])
                         \/ AllocateNewSub(q[1], q[2])
                         \/ AllocateNewLevel(q[1], q[2])
                         \/ AllocateNull(q[1], q[2])
                         \/ AllocateFirstOutOfMemory(q[1], q[2])
  \/ \E o \in live : Deallocate(o)
  \/ \E ptr \in Bases \cup {0} : DeallocateForeign(ptr)
  \/ Dtor

Spec == Init /\ [][Next]_vars

-----------------------------------------------------------------------------
Sub   == [addr : Nat, free : Seq(Nat)]
Level == [elem_size : Nat, subs : Seq(Sub)]

(* The variables hold what the structures hold; a block has the size and   *)
(* the alignment of the link that is written into it when it is free.      *)
TypeOK ==
  /\ heap \subseteq Chunk
  /\ pool \in [addr : Nat, count : Nat]
  /\ levels \in Seq(Level)
  /\ \A l \in DOMAIN levels :
       levels[l].elem_size > 0 /\ levels[l].elem_size % FreeBlockAlign = 0
  /\ live \subseteq [ptr : Nat, len : Nat]
  /\ crashed \in BOOLEAN

BlocksOf(l, s) ==
  {Start(l, s) + (i - 1) * levels[l].elem_size : i \in 1 .. pool.count}

InUse(l, s) == {o.ptr : o \in {u \in live : Holds(l, s, u.ptr)}}

(* Every block of a sub pool is either once on its chain or in use: none   *)
(* is lost, chained twice, or chained in another sub pool.                 *)
EachBlockOnce ==
  \A l \in DOMAIN levels : \A s \in DOMAIN levels[l].subs :
    LET free == levels[l].subs[s].free
    IN  /\ IsInjective(free)
        /\ ToSet(free) \cap InUse(l, s) = {}
        /\ ToSet(free) \cup InUse(l, s) = BlocksOf(l, s)

(* There is one level for a size of block: a block that is given back is   *)
(* found again by the next request of its size.                            *)
OneLevelPerSize ==
  \A k, l \in DOMAIN levels :
    levels[k].elem_size = levels[l].elem_size => k = l

(* The chunks in use are the pool and its sub pools, each large enough for *)
(* the blocks chained in it: destruction leaves none behind.               *)
NoLeak ==
  heap = IF pool = NULL THEN {}
         ELSE {[base |-> pool.addr, len |-> PoolStructSize]} \cup
              UNION {{[base |-> levels[l].subs[s].addr,
                       len  |-> End(l, s) - levels[l].subs[s].addr] :
                        s \in DOMAIN levels[l].subs} : l \in DOMAIN levels}

(* A level gets another sub pool only when each of its blocks is in use:   *)
(* what was given back is used up first.                                   *)
GrowsOnlyWhenFull ==
  [][\A l \in DOMAIN levels \cap DOMAIN levels' :
       Len(levels'[l].subs) > Len(levels[l].subs) =>
         \A s \in DOMAIN levels[l].subs : InUse(l, s) = BlocksOf(l, s)]_vars

Contract == INSTANCE MemoryResource

(* A pool implements the contract of a memory resource, for the alignments *)
(* of fundamental types: malloc's alignment is all it builds on.           *)
ImplementsContract == Contract!Spec

-----------------------------------------------------------------------------
(* Pool.h: an allocation that fails returns NULL.                          *)
NeverCrashes == ~crashed
=============================================================================
