# Verification of cmlib

cmlib is a C23 library of memory allocators and containers.  This directory
holds TLA+ specifications of its parts, the TLC configurations that check them
on small instances, and proofs of their main properties for every value of
their constants.

The library is sequential: it starts no threads, and its functions return before
another one is called.  What makes it hard is memory.  An allocator is right
only if no sequence of calls, in any order, with any sizes and alignments, and
with malloc failing or placing its chunks anywhere, gives a byte to two owners.
A unit test tries a few sequences; a wrong one usually shows only long after
the call that caused it.  The specifications therefore keep addresses as
numbers and let malloc choose them.

## 1. The system

| Component (code) | State | Operations | Hard behaviours |
|---|---|---|---|
| Alignment (`Allocator/Allocator.h`, `common.h`) | none | `MAX`, `CMLIB_DETAILS_ALIGN`, `align_size`, `align_ptr` | alignments that are no powers of two, wrap-around |
| C heap (`CountingMalloc.c`; malloc itself is external) | chunks given out, two counters | malloc, calloc, free | failure, any placement |
| Free list (`FreeList.c`) | chain of pools; in each a chain of free blocks; headers in front of allocations | ctor, dtor, allocate, deallocate, dump_dot | splitting, padding, growth, 32-bit headers, blocks never merged |
| Arena (`Arena.c`) | buffer, current, end | ctor, dtor, allocate, deallocate, flush | wrap-around, use after flush |
| Pool (`Pool.c`) | chain of levels, each a chain of sub pools, each a chain of free blocks | ctor, dtor, allocate, deallocate | choice of level, growth, malloc failing in the middle |
| MemoryResource (`Allocator.h`) and wrappers (`*Resource.c`, `Allocator.c`) | pointers to functions and to an allocator | allocate, deallocate, `*_to_resource`, ctor, dtor | two owners of one allocator |
| List (`List.h`, `List.c`) | sentinel, nodes with two links, a resource per list | ctor, dtor, insert, insert_node, extract, erase, loops | loops whose body changes the list, nodes moved between lists |
| Vector (`Vector.h`, `Vector.c`) | header (resource, size, capacity), elements | ctor, dtor, add, pop, reserve, clear, loops | growth that fails, pop of an empty vector, stale loop end |
| String (`String.c`) | resource, data, size, capacity | ctor, append, realloc, printf, replace_all, slices | a string appended to itself, terminators |
| ScratchBuffer (`ScratchBuffer.c`) | one global String | ctor, append, pop, clear | a constructor that fails half way |
| IO (`IO.c`) | a static path buffer | real_path, read_file, file names | a read that fails half way |
| Logger (`Logger.c`) | one global file | init, log macros, finish at exit | two initialisations (one file stays open, one is closed twice) |
| Error, Result (`Error/`) | none | codes and macros | - |

The containers reach an allocator only through a `MemoryResource`, two function
pointers: `allocate(resource, size, alignment)` and `deallocate(resource, ptr)`.
The allocators get their memory from malloc through `cmlib_details_malloc`.
The contract of a memory resource is thus the interface at which the two halves
of the library meet, and it has a module of its own, `MemoryResource`.  Vector,
List and String each hold a resource; ScratchBuffer is a String, and IO fills
one.

What makes each part correct:

- an allocator: what it hands out is as large and as aligned as asked and
  overlaps nothing in use; its own headers and links never lie in memory a
  caller uses; it loses no memory; its destruction frees every chunk, each by
  the address malloc returned; a failure of malloc is NULL and changes nothing;
- the alignment macro: it rounds up, by less than the alignment;
- a list: the links of neighbours undo each other; every node is in one list,
  or detached, or freed; a loop stays on its list;
- a vector, a string: what was put in is there after growth; a failure leaves
  the old contents; the terminator is where size says.

PROJECT.json lists the hazards, each at its line, with the properties that
cover it or the reason why none does yet.

## 2. Modules

| Module | What it is |
|---|---|
| `Align` | the alignment helpers as arithmetic |
| `AlignMacro` | the macro bit by bit, in words of any size, and what its callers rely on |
| `SystemHeap` | malloc and free: a set of chunks, any placement (external) |
| `MemoryResource` | abstract: the contract of a memory resource |
| `FreeList`, `MCFreeList` | `FreeList.c` and its instances for TLC |
| `Arena`, `MCArena` | `Arena.c` and its instances |
| `Pool`, `MCPool` | `Pool.c` and its instances |
| `NodeSequences` | abstract: a list as a sequence of nodes |
| `List`, `MCList` | `List.h`, `List.c` and an instance |
| `ValueSequences` | abstract: a vector as a sequence of values |
| `Vector`, `MCVector` | `Vector.h`, `Vector.c` and an instance |
| `CStrings` | texts as the C functions see them, and what replacing means |
| `Texts` | abstract: a string as a text |
| `String` | `String.c` on the malloc and calloc resources of `Allocator.c` |
| `ScratchBuffer`, `IO` | `ScratchBuffer.c` and `IO.c`, each on top of `String` |
| `StringUsers`, `MCString` | the three together, and an instance |
| `ReplaceAll`, `MCReplaceAll` | the loops of `string_replace_all`, and instances |
| `AlignProofs` | theorems about `AlignMacro`, lemmas about `AlignUp` |
| `FreeListProofs` | theorems about `FreeList` |
| `ArenaProofs` | theorems about `Arena` |
| `PoolProofs` | theorems about `Pool` |
| `ListProofs` | theorems about `List` |
| `VectorProofs` | theorems about `Vector` |
| `StringProofs` | theorems about `StringUsers` |
| `ReplaceAllProofs` | theorems about `ReplaceAll` |

`FreeList`, `Arena` and `Pool` each extend `Align` and `SystemHeap` and
instantiate `MemoryResource` under a refinement mapping of `live`, the set of
allocations in use.  `List` instantiates `NodeSequences` with the sequence that
a walk along `next` meets.  `Vector` instantiates `ValueSequences` with the
elements each vector holds.  `ScratchBuffer` and `IO` extend `String`, as their
code works on strings by its functions; `StringUsers` extends both, takes their
steps together and instantiates `Texts` with the characters each string holds.
`ReplaceAll` is apart: it has the steps inside one call, of which `String` has
the result.

That lists, vectors and strings implement these specifications says two things.
Every step maps to some step of the abstract specification, or to a stutter; and
it maps to the one its function is for.  An abstract `Next` lets a text be
cleared at any time, so the first alone would accept a `string_append_str` that
clears.  The second is stated by `Means` (`List`, `Vector`) and `Meaning`
(`StringUsers`): appending a literal extends the text by it, reservation leaves
it alone, erasing takes out the node that was given, and so on for every action.

### How state and actions correspond to the code

Addresses and sizes are natural numbers of bytes, and the sizes of structures
are those of an LP64 build.  A chain of structures is a sequence, in the order
of the chain.  Contents of memory that the code reads back (a header, a link)
are records; that nothing else is written over them is what the invariants say.

*Free list.* `pools` is the chain from `FreeList.pool`, an element holding the
address of the metadata and `pool_end`; `free[p]` is the chain from
`free_block`; `occupied` holds the header in front of every allocation in use,
with the address and length its caller knows.  `Ctor`, `Dtor`, `Deallocate` and
`DeallocateForeign` are the functions of these names, the last for addresses
that lie in no pool.  `free_list_allocate` is three actions, one per outcome:
`AllocateExisting` (the first block that fits in the first pool that has one),
`AllocateGrowing` (a pool is appended, and serves), `AllocateNull`.
`NewPool`, `FirstBlock` and `AllocSize` are `free_list_pool_ctor`; `Payload`,
`Fits`, `SplitPoint`, `Splits`, `FreeAfter` and `Header` are the steps of
`free_list_pool_allocate`.

*Arena.* `arena` has the three pointers of the structure.  All sums on
addresses are `size_t` sums that wrap.  `handed` is what callers may still use.

*Pool.* `levels` is the `next_pool_dif_size` chain and `subs` in it the
`next_pool_same_size` chain.  `pool_allocate` is five actions, one per outcome,
among them `AllocateFirstOutOfMemory`, after which the program is no longer
running (`crashed`).

*List.* A list is named by its sentinel; `prev` and `next` are the links of
sentinels and nodes; `resource[n]` says which resource the memory of node n came
from, NULL when it is free.  `iter` is a `LIST_ITER` or `LIST_REVERSE_ITER`
loop that is running: every other action is then a statement of its body.
Conjuncts marked `caller` are what the code cannot check and its callers must
respect; they are as weak as the properties allow: a node may be passed with a
list it is not in, as long as both lists use the same resource.

*Vector.* Vectors share a resource, of which only the contract is used: it
grants a block that is not in use, or NULL.  `mem[b]` is the block at address b:
the length it was granted, the header's `size` and `capacity`, and the cells of
its elements, NULL where nothing was written yet; `vec[v]` is the block that the
caller's variable points into.  `vec_add` is three actions: with room
(`AddInPlace`), with growth (`AddGrowing`: request, copy, header, deallocation,
assignment) and without success (`AddNoMemory`).  `vec_reserve` always takes a
new block, larger or smaller.  `iter` is a running `VEC_ITER`, whose end was
fixed when it began.

*Strings.* `str[s]` is the structure the caller holds, `mem[b]` the block at
address b: the resource it came from and its characters, NULL where fresh memory
of malloc was never written (calloc's is zero).  Operations call each other, so
each is first written as the set of its outcomes, an outcome being the memory
and the structure afterwards: `Constructed` (`string_ctor_capacity`),
`Reallocated` (`string_realloc`), `Appended` (`string_append_str`,
`string_vprintf`), `ConstructedFrom` (`string_ctor_str`), `Cleared`.  An
operation that allocates has no outcome when no memory is granted, and the call
then changes nothing; `CtorPrintf`, `RealPath` and `ScratchCtor` compose two.
The failures that do change something are actions: `CtorPrintfFails` (a buffer
was constructed and is destroyed again), `ScratchCtorFails` (the old
buffer is already gone), `RealPathNoMemory` (the string is already cleared) and
`ReadFileFails` (the beginning of the file is already in the buffer, whose size
is still the old one).  Characters are the slash and another one; a file may
also have a zero in it, at which `string_replace_all` stops.

*string_replace_all.* `ReplaceAll` has a step for every turn of its two loops;
`text`, `from` and `to` are the arguments, chosen at the start, `pc` the place
in the function, `at` the pointer `found` and then `reader`.  A `from` is a
`Str`: its characters up to their zero, and its size.

A failure of malloc that makes a constructor fail before it holds any memory
changes nothing and is a stuttering step; those that happen later, or inside an
operation on an existing object, are actions (`CtorPrintfFails`, `AllocateNull`,
`InsertNothing`, `AddNoMemory`, `AllocateFirstOutOfMemory`).  Some of them leave
everything as it was by definition, as `AllocateNull` of `Pool` does: where the
code then writes a NULL over the NULL at the end of a chain, the chain being a
sequence in the model, no property says that it did so at the end.

## 3. Runs

| Run | Checks | Instance |
|---|---|---|
| `FreeList` | 8 invariants, 1 action property, the contract | 3 places for chunks, pool sizes 12 and 53, 4 requests |
| `FreeListFirstPool` | violation of `PoolsInChunks` | the same |
| `AlignMacro` | 2 facts about the macro | all values and alignments of 7 bits |
| `Arena` | 3 invariants, the contract | 2 places, capacities 0, 3, 26, 65535, 6 requests |
| `ArenaWrap` | violation of `HandedBelowMark` | the same, with a request of 65520 bytes |
| `Pool` | 4 invariants, 1 action property, the contract | 4 places, 1 or 2 blocks per sub pool, 5 requests |
| `PoolOutOfMemory` | violation of `NeverCrashes` | the same |
| `List` | 4 invariants, refinement of `NodeSequences` | 3 lists on 2 resources, 3 nodes |
| `Vector` | 3 invariants, 1 action property, refinement of `ValueSequences` | 2 vectors, 3 blocks, 2 values |
| `String` | 3 invariants, 1 action property, refinement of `Texts` | the scratch buffer and a string, 3 blocks of up to 4 (malloc) or 3 (calloc) characters |
| `ReplaceAll` | 2 invariants, 1 liveness property | texts up to 5 characters, `from` and `to` up to 3 |
| `ReplaceAllSlice` | violation of `Fits` | the same, `from` a part of a longer text |

Why the bounds are enough:

- `FreeList`: no place is a multiple of 32, so the request aligned to 32 costs a
  fresh pool padding; the pools hold one to three blocks; the requests include
  one that splits a block, one that leaves too little to split, one that needs a
  pool larger than the first and one with alignment 0, which existing pools
  serve and growth refuses.  Chains of three pools and of several free blocks
  are reached, so first fit passes over blocks and pools.  `UINT32_MAX` is 1023
  and `SIZE_MAX` 65535: neither is reached, which is what the assumption of the
  theorems says.
- `Arena`: addresses end at 65535.  A capacity of 65535 wraps in `arena_ctor`;
  the arena then has its end in front of its buffer and the run shows that it
  serves nothing.
- `Pool`: two levels and three sub pools fit, so a level has up to three sub
  pools and two levels alternate.  Two requests share a level.
- `List`: with three nodes a list has a first, a middle and a last node, and
  a node can move between two lists that share a resource while a loop runs.
  The nodes are symmetric, and so are the two lists that share a resource.
  Every list is constructed once, as `list_ctor` declares a variable.
- `Vector`: with two vectors and three blocks one vector finds a block to grow
  into, and none when the other took it.  Vectors begin with capacity 1, so two
  growths are reached; `MaxLen` refuses the third, as a resource with too little
  memory does.  Reservations of 0, 1 and 3 elements are refused, shrink and
  enlarge a vector; the ranges of a loop end inside and behind its elements.
  `SIZE_MAX` is 255 and no request wraps, which is what the assumption of the
  theorems says.  Vectors, blocks and values are symmetric.
- `String`: with blocks of four characters a string grows twice, and one string
  can grow while the other holds a block.  The third block is then always free,
  so memory is refused for one reason only: more characters are asked for than
  the resource has (`MaxLen`); the failures that change something are actions
  that need no refusal.  calloc has one character less than malloc, which keeps
  the run short: strings of both resources stand beside each other all the same,
  and what the two do differently, the contents of fresh memory, shows in a
  buffer of three characters as in one of four.  The literals make texts that
  are cut, copied in part, appended to themselves and replaced by shorter, equal
  and longer ones; paths of up to three characters have a slash in front, in the
  middle, at the end, two of them or none.  Blocks are symmetric.
- `ReplaceAll`: all texts of two characters up to length 5, and all arguments up
  to length 3, the empty ones included: occurrences overlap, touch each other,
  and stand at both ends; the result is empty, shorter, as long or longer.  The
  count wraps at `SIZE_MAX` = 31, which no call reaches.
- No two requests of an instance have the same size, so that an allocation
  shows the contract which request it answers.

Deadlock is checked except in `Pool` and `PoolOutOfMemory`, where a crash ends
the program, in `List`, where all lists may have been destroyed, and in
`ReplaceAll` and `ReplaceAllSlice`, where the function returns.

Fairness is assumed in `ReplaceAll` alone: WF of its next step, because a C
function that was called runs on until it returns, and nothing else runs in
between.  `Returns` says that it does return; an empty `from` would otherwise be
found for ever.  The other specifications take a whole call as a step, and
nothing in a sequential library happens unless its caller calls it: no fairness
is justified there, and no liveness property stated.  Their loops walk finite
chains.  That a `LIST_ITER` loop can end depends on its body, which may insert
for ever; `LoopStaysOnList` says what the library guarantees.

`EndsInZero` is an action property and no invariant, because two states without
the zero are reached: a string constructed by capacity alone in malloc's memory
(its first character is whatever was there), and one into which a file was not
read to its end.  The property shows that both end with the next operation that
changes the size.

### What the runs found

1. The first pool of every free list ends 8 bytes behind its malloc chunk
   (`FreeListFirstPool`): `free_list_pool_ctor` enlarges the pool by the size of
   the `FreeList` after it computed the size of the chunk.  `OverrunBounded` says
   that this is all: every later pool ends in its chunk.
2. An arena grants a request whose size wraps around the address space
   (`ArenaWrap`).
3. A pool whose very first level cannot get memory dereferences NULL
   (`PoolOutOfMemory`).
4. `string_replace_all` given a part of a longer text as `from` counts other
   occurrences than it replaces, and may write behind its buffer
   (`ReplaceAllSlice`): one pass uses the characters, the other the size.

The other runs pass: apart from these four, the allocators keep the contract
of a memory resource, every operation on a list or a vector does to its sequence
what it is for, and every operation on a string to its text.

Because of the first finding, the `FreeList` run gives malloc a gap of 8 bytes
between chunks (as glibc's chunk headers are): its invariants are those of a
heap in which the overrun hits nobody else's memory.

## 4. Proofs

TLAPS proves, for all constants that satisfy the assumptions:

- `AlignProofs`: `AgreesWithAlignUp` and `SafeForAnyAlignment` of the macro, for
  every word size.
- `FreeListProofs`: `TypeOK`, `NoOverlap`, `PayloadInBlock`, `BlocksHoldHeader`,
  `FreshPoolServes`, `FreedBlockReusable`, `Tiled`, `NoLeak`,
  `OverrunBounded`, `FragmentationIsPermanent`, and that the free list implements
  `MemoryResource`.
- `ArenaProofs`: `TypeOK`, `HandedBelowMark`, `NoLeak`,
  `MarkMovesBackOnlyWhenUnused`, and that the arena implements `MemoryResource`.
- `PoolProofs`: `TypeOK`, `EachBlockOnce`, `OneLevelPerSize`, `NoLeak`,
  `GrowsOnlyWhenFull`, and that the pool implements `MemoryResource`.
- `ListProofs`: `TypeOK`, `WellLinked`, `NodesAccounted`, `LoopStaysOnList`, and
  that lists implement `NodeSequences`.
- `VectorProofs`: `TypeOK`, `OneBlockEach`, `LoopInBounds`, `MovesOnlyWhenFull`,
  and that vectors implement `ValueSequences`.
- `StringProofs`: `TypeOK`, `OneBufferEach`, `EndsInZero` and `FolderAndName` of
  strings, the scratch buffer and the reading of files together, and that they
  implement `Texts`.
- `ReplaceAllProofs`: `Fits`, `ReplacesAll` and `Advances` of the loops of
  `string_replace_all`.

Assumptions, besides those on constants in the modules themselves (malloc's
results are aligned to 16; alignments are 0, 1, 2 or multiples of 4, which covers
the powers of two):

- `HeadersHoldPools` (free list): no pool is larger than a header's 32 bits can
  describe, and malloc keeps at least 8 bytes between chunks.  Without the first
  `FreedBlockReusable` is false, without the second the first finding lets two
  pools overlap.
- `NothingWraps` (arena): no capacity and no request reaches the end of the
  address space.  Without it `HandedBelowMark` is false (`ArenaWrap`).
- `CapacitiesFit` (vector): no capacity makes the size of a block wrap: the
  resource grants at most half of `SIZE_MAX`, so twice a granted capacity fits,
  and callers reserve only what fits.  Without it `TypeOK` is false: the block
  is smaller than the capacity needs.
- `AlignmentsArePowers` (pool, for `TypeOK` alone): an alignment above that of a
  link is a multiple of it.  Otherwise a block's size is rounded to a number
  that is no multiple of 8, and the second link of a sub pool is misaligned.
- `FundamentalAlignments` (pool, for the contract alone): no alignment is above
  malloc's 16, as the first block stands a fixed distance behind the chunk.
- `WholeFroms` (`string_replace_all`): a `from` ends where its zero is.  Without
  it `Fits` is false (`ReplaceAllSlice`).
- `ResultsFit` (`string_replace_all`, for `Fits` alone): the result of replacing
  every character is no longer than a `size_t` can say.

`AlignProofs` and `AdvancesAlways` need none.  `MarkMovesBackOnlyWhenUnused`,
`OverrunBounded` and `Advances` are proved only; TLC agreed on the instances of
section 3, but no run repeats it.

*The macro's argument.*  `x & y` is by definition the word whose bits are the
products of the bits of x and y, bit i of x being `(x \div 2^i) % 2`.
`WordOfBits` shows that there is such a word, by the smallest length at which
there would be none, and `BitOfAnd` that the choice is one.  A sum with a multiple
of a power of two has the low bits of the other summand (`BitOfSum`), a
complement flips every bit (`BitOfComplement`), and `2^k - 1` has ones below bit
k and zeros from there on (`BitOfOnes`).  So masking with the complement of
`2^k - 1` leaves a multiple of `2^k` and takes away less than that
(`MaskedMultiple`, `MaskedBounds`), and `AlignUp` is the only number of which
this can be said (`MacroIsAlignUp`).  For an alignment that is no power of two
the mask still keeps the zeros in which the alignment or the value ends.  The
provers know nothing of `2^n`; that it doubles with n follows from the library's
theorem on the number of subsets, `FS_SUBSET`, taken as the library states it
(its proof there leaves that one fact about powers open).

*The free list's argument.*  None of the properties is inductive.  That two
blocks are disjoint after a split needs to know that the allocation and the
rest lie in the old block; that a deallocation gives the right block to the
right pool needs to know that every allocation lies in one pool and that pools
are disjoint.  The inductive invariant `IInv` collects this: `Sound(pools, free,
occupied)` says that pools lie apart, that every block on a list is in its pool
and large and aligned enough for a free header, that every header describes such
a block and an aligned payload in it, and that all blocks are disjoint; `InHeap`
ties the pools to malloc's chunks.  `Sound` has parameters, so that three lemmas
carry the proof: `GrowSound` (a pool is appended), `TakeSound` (an allocation is
cut from a free block) and `GiveSound` (a block is pushed back).  An allocation
that grows the chain is `GrowSound` followed by `TakeSound`.  The lemmas rest on
facts about `Payload`, `SplitPoint`, `Header` and `FreeAfter`, and these on the
facts about `AlignUp` in `AlignProofs`, which the proofs of all three allocators
instantiate.  The refinement maps each allocation to
the contract's `Allocate`: the alignment comes from `PayloadAligned`, and that
the new region overlaps no other from the disjointness of blocks.

`Tiled` and `NoLeak` need more: `KInv` adds to `IInv` that the blocks of every
pool follow one another and that malloc's chunks are those of the pools.  Of a
pool the proof looks at two sets, the addresses where its blocks start and those
where they end: `Tiled` says that they are the same but for the pool's own start
and end.  Cutting a block adds the same address to both, or nothing; giving one
back moves a block from one set of blocks to the other and changes neither; a
fresh pool is one block.  As no step takes an address out of these sets,
`FragmentationIsPermanent` follows from the same lemmas.

*The arena's argument.*  `IInv` says that there is no arena and no chunk, or
exactly one chunk, laid out by `NewArena`, the mark in its buffer, and everything
handed out below the mark and pairwise apart.

*The pool's argument.*  A sub pool is found by following two chains, and a step
changes one of them somewhere.  `View(levels)` flattens both into one function
from places (level, sub pool) to what is there, so that a step is one change of
that function.  `Sound(c, V, live)` judges it: the chain of a sub pool has no
address twice and only addresses of its blocks, every allocation is a block of
exactly one sub pool that its chain has not, every block is one or the other,
and no two sub pools share a byte.  `AddSound`, `TakeSound` and `GiveSound` show
that the three things the code does keep it; `IInv` adds the order of the chains
(one level per size) and the chunks of malloc's heap.  That the right sub pool
gets a block back, `pool_deallocate` being given nothing but its address, follows
from the sub pools being apart.

*The list's argument.*  The properties are stated with a walk along `next`, which
says nothing about what a step does to a link in the middle.  `Linked` therefore
judges the links against sequences of nodes: around list l the links go from
each place of its sequence to the next and back (`Ring`), no node is in two
places (`Distinct`), its memory is of its list's resource (`Owned`), one in no
list is detached (`Unlinked`), and a loop is at a place of its list.  Inserting
and extracting four links is inserting or removing one element of one sequence
(`InsertLinked`, `RemoveLinked`), whatever else the node was before.  `WalkOfRing`
finds the sequence again: a walk along the links of a ring visits its places in
order, by the smallest number of steps for which it would not.  So `IInv` can
say that the links are `Linked` to what the walk meets; the invariants and the
refinement of `NodeSequences` are read off the sequences.  `Inserts` and
`Removes` say of the two changes what they do to the sequences, and at which
node; `Meant` puts every operation on one of them.

*The vector's argument.*  `OneBlockEach` and `LoopInBounds` are not inductive:
that a copy has only written elements needs that of the block it is made from,
and that a loop stays in bounds after its vector moved needs that the copy has
at least as many elements as the loop's end.  `IInv` says so: `Sound(mem, vec)`,
every block in use is `Good` (at most `capacity` elements, all written, room for
the capacity) and belongs to exactly one variable, and `Follows`, a loop ends
within its vector.  The operations do four things to the memory (place, write,
move, release a block), and a lemma each shows that it keeps `Sound`; `Follows`
is kept because growth keeps the size and the guards of the caller keep the
rest.  For the refinement `Written(r)` is the sequence in a block: writing one
more cell appends, a smaller size cuts, and the other vectors' blocks are not
touched (`OthersKept`).  So each operation is the one of `ValueSequences` that it
is for.

*The strings' argument.*  That a buffer has one owner is not inductive without
the shape of the buffers: growth copies a text, so the text must be written.
`IInv` says that every string is `Good` (its buffer is a block of its resource,
one cell longer than the capacity, written as far as the size), that every block
in use is some string's and no block two strings'.  Operations are composed of
others, and so is the proof: `Follows(m, x, o)` says what an operation on the
string x in the memory m may do, namely make x good again, in its old buffer or
in one that was free, give the old one back if it has another, and touch nothing
else.  It is transitive (`FollowsTrans`), a lemma per function of the code shows
that its outcomes follow (`ReallocatedFollows`, `AppendedFollows`, ...), and
`StepKeeps` shows that a step of one string to an outcome that follows keeps
`IInv`, and satisfies `EndsInZero` if the outcome `Ends`.  The recursive function
of `Replaced` gets its existence and its type from `Least`: there is no smallest
suffix of the text for which they fail.  No assumption is needed besides those
on constants, which only say that special values are no characters or blocks.

For the refinement of `Texts` the same functions of the code get a second lemma
each, on the text their outcomes hold (`Holding`): what growth copies, what is
written behind it, and that nothing else of it changes.  A block belongs to one
string, so a step on one leaves the others' texts alone (`OthersKept`), and
`ShownStep` turns both into the operation of `Texts` the call is for.  Growth and
reservation alone are stutters.  `Meant` collects what the lemmas say of each
operation.

*The loops of string_replace_all.*  Both are compared with one function,
`Rest[i]`, the text from position i on with its occurrences replaced, of which
`Replaced` is the value at 1.  `RestSkips` shows that where no occurrence begins
the text stays as it is; that is what `strstr`, by which the first loop jumps,
has in common with the second loop, which compares at every character.
`IInv` says of the first loop that what it counted accounts for the difference
in length between the result and what is left of it (`Accounts`), and of the
second that what it wrote, followed by `Rest` from where it reads, is the
result.  At the end of the first nothing is left, so the size it makes room for
is the length of the result, and the second cannot write more.

`Advances` says that no step goes back: each enters a later part of the function,
or moves on in the text and not behind its end.  So at most twice the length of
the text and four steps are taken.  Its invariant `PlaceInv` only places the
pointers in the text.  It holds for every `from`, those without `WholeFroms`
too, because an empty one is refused before the loops.

## 5. Only model-checked, and why

- `Returns` of `ReplaceAll`: liveness is out of the prover's reach.  Its safety
  half, `Advances`, is proved; that the steps left are taken needs the fairness.

Where alignments are not powers of two, `AlignUp` and the macro differ: the
allocators are specified with `AlignUp`, so what is checked and proved of them
is about alignments that are powers of two.

## 6. Not modelled, and why

- `free_list_dump_dot`, logging and printing change no state.
- The counters of `CountingMalloc.c` are statistics that nothing reads.
- Callers' errors the code cannot detect: freeing an address inside a pool that
  is no allocation, erasing the node a loop is at, using a list after
  `list_dtor`.
- A pool with a count of 0, pool requests whose `count * elem_size` wraps,
  alignments above malloc's in a pool, a free list whose size wraps: see the
  hazards.  These are inputs the code mishandles and does not reject.
- Popping an empty vector, whose size then wraps (a hazard), and `vec_reserve` of
  a NULL vector, whose header is read without a test.  Where elements and headers
  lie relative to their alignment: blocks of `Vector` are names.
- Appending a part of a string to the string itself when it must grow, and
  replacing in a string that has lost its zero in a failed reading.
- Comparing and printing of strings: no state changes.  Whether a path
  names a file is the file system's answer; `FolderAndName` is about those that
  do.
- The resource wrappers: their functions forward to the allocators, which are
  modelled; `*_to_resource` copies a pointer and, against README.md:207-208 of
  the library, leaves the source as it is.
- Logger: output.  What a second initialisation does to the log files is among
  the hazards.  Error and Result: codes.
- What `arena_ctor` writes into a chunk whose size wrapped: the pointers of the
  arena are not kept in memory.

## 7. What is left

Every invariant and action property that a passing run checks is proved, and so
is every refinement.  What a next step would add is the alignment of a vector's
header and elements in the block a resource grants (`Vector.c:35`), over `Align`
and `MemoryResource`.
