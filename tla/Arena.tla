------------------------------- MODULE Arena --------------------------------
(***************************************************************************)
(* The monotonic arena, Allocator/src/Arena.c.                             *)
(*                                                                         *)
(* An arena is one malloc chunk that starts with the Arena structure.  An  *)
(* allocation is cut at the mark `current', which only a flush moves back; *)
(* deallocation does nothing.  Addresses and sizes wrap at SIZE_MAX.       *)
(***************************************************************************)
EXTENDS Align, SystemHeap

CONSTANTS
  SIZE_MAX,     \* largest size_t
  Capacities,   \* the capacity arguments of arena_ctor
  Requests      \* the pairs <<size, alignment>> of arena_allocate

ASSUME ArenaAssumption ==
  /\ SIZE_MAX \in Nat
  /\ Capacities \subseteq 0 .. SIZE_MAX
  /\ Requests \subseteq (0 .. SIZE_MAX) \X (0 .. SIZE_MAX)

VARIABLES
  heap,    \* the chunks malloc has given out
  arena,   \* [buffer, current, end], or NULL
  handed   \* what callers use: the [ptr, len] they were given since the last
           \* flush and have not deallocated

vars == <<heap, arena, handed>>

-----------------------------------------------------------------------------
ArenaSize == 24   \* sizeof(Arena): three pointers

Pointers == [buffer : Nat, current : Nat, end : Nat]

NULL == [buffer |-> 0, current |-> 0, end |-> 0]

SizeT(n) == IF n <= SIZE_MAX THEN n ELSE n % (SIZE_MAX + 1)

(* What arena_ctor asks malloc for, and the arena it lays out there. *)

\* A bug: forgetting the room the Arena structure takes.
AllocSizeWithoutHeader(capacity) == capacity

AllocSize(capacity) == SizeT(ArenaSize + capacity)

NewArena(base, capacity) ==
  [buffer  |-> base + ArenaSize,
   current |-> base + ArenaSize,
   end     |-> SizeT(base + ArenaSize + capacity)]

(* Where arena_allocate puts an allocation, and the mark behind it. *)
Place(alignment) == SizeT(AlignPtr(arena.current, alignment))

\* A bug: moving the mark as if alignment had cost no padding.
MarkIgnoringPadding(size, alignment) == SizeT(arena.current + size)

Mark(size, alignment) == SizeT(Place(alignment) + size)

\* A bug: looking for room before the address is aligned.
FitsUnaligned(size, alignment) == SizeT(arena.current + size) <= arena.end

Fits(size, alignment) == SizeT(Place(alignment) + size) <= arena.end

-----------------------------------------------------------------------------
Init ==
  /\ heap = {}
  /\ arena = NULL
  /\ handed = {}

(* arena_ctor, when malloc has the memory. *)
Ctor(capacity) ==
  /\ arena = NULL
  /\ capacity # 0
  /\ \E base \in Bases :
       /\ CanPlace(heap, base, AllocSize(capacity))
       /\ heap' = Malloc(heap, base, AllocSize(capacity))
       /\ arena' = NewArena(base, capacity)
  /\ UNCHANGED handed

(* arena_allocate. *)
Valid(size, alignment) == size # 0 /\ alignment # 0

Allocate(size, alignment) ==
  /\ arena # NULL
  /\ Valid(size, alignment)
  /\ Fits(size, alignment)
  /\ arena' = [arena EXCEPT !.current = Mark(size, alignment)]
  /\ handed' = handed \cup {[ptr |-> Place(alignment), len |-> size]}
  /\ UNCHANGED heap

AllocateNull(size, alignment) ==
  /\ arena # NULL
  /\ Valid(size, alignment) => ~Fits(size, alignment)
  /\ UNCHANGED vars

(* A bug: taking every allocation back as if it were the last one. *)
DeallocateLast(r) ==
  /\ arena' = [arena EXCEPT !.current = r.ptr]
  /\ handed' = handed \ {r}
  /\ UNCHANGED heap

(* arena_deallocate: its caller no longer uses the memory; the arena keeps *)
(* it.                                                                     *)
Deallocate(r) ==
  /\ handed' = handed \ {r}
  /\ UNCHANGED <<heap, arena>>

(* arena_flush: whatever was handed out is invalid from here on. *)
Flush ==
  /\ arena # NULL
  /\ arena' = [arena EXCEPT !.current = arena.buffer]
  /\ handed' = {}
  /\ UNCHANGED heap

(* A bug: freeing the buffer instead of the Arena in front of it. *)
DtorByBuffer ==
  /\ arena # NULL
  /\ heap' = FreeAll(heap, {arena.buffer})
  /\ arena' = NULL
  /\ handed' = {}

(* arena_dtor. *)
Dtor ==
  /\ arena # NULL
  /\ heap' = FreeAll(heap, {arena.buffer - ArenaSize})
  /\ arena' = NULL
  /\ handed' = {}

Next ==
  \/ \E capacity \in Capacities : Ctor(capacity)
  \/ \E q \in Requests : Allocate(q[1], q[2]) \/ AllocateNull(q[1], q[2])
  \/ \E r \in handed : Deallocate(r)
  \/ Flush
  \/ Dtor

Spec == Init /\ [][Next]_vars

-----------------------------------------------------------------------------
Allocation == [ptr : Nat, len : Nat]

(* The variables hold what the structures hold, with the mark in the       *)
(* buffer.  A capacity that wraps leaves the end in front of the buffer:   *)
(* such an arena must never move its mark.                                 *)
TypeOK ==
  /\ heap \subseteq Chunk
  /\ arena \in Pointers
  /\ arena.current \in {arena.buffer} \cup (arena.buffer .. arena.end)
  /\ handed \subseteq Allocation

(* Everything handed out lies below the mark and inside the chunk malloc   *)
(* gave the arena: no caller writes into the Arena, into an allocation yet *)
(* to come, or behind the chunk.                                           *)
HandedBelowMark ==
  \A r \in handed :
    /\ arena.buffer <= r.ptr
    /\ r.ptr + r.len <= arena.current
    /\ \E c \in heap : c.base + ArenaSize = arena.buffer
                       /\ arena.current <= c.base + c.len

(* The mark moves back only when nobody uses the memory behind it.         *)
MarkMovesBackOnlyWhenUnused ==
  [][arena'.current < arena.current => handed' = {}]_vars

(* The chunk of a living arena is the only one; destruction frees it, by   *)
(* the address malloc returned.                                            *)
NoLeak ==
  IF arena = NULL THEN heap = {}
  ELSE \E c \in heap : heap = {c} /\ c.base = arena.buffer - ArenaSize

Contract == INSTANCE MemoryResource WITH live <- handed

(* An arena implements the contract of a memory resource: memory in use is *)
(* never handed out again before a flush.                                  *)
ImplementsContract == Contract!Spec
=============================================================================
