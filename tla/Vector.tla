------------------------------- MODULE Vector -------------------------------
(***************************************************************************)
(* The vector, Vector/Vector.h and Vector/src/Vector.c.                    *)
(*                                                                         *)
(* A vector is one block of its memory resource: a header and room for     *)
(* `capacity' elements.  The caller's variable points behind the header,   *)
(* and the macros that may move the block assign to it.  Several vectors   *)
(* share a resource, whose contract is all that is used of it: it returns  *)
(* a block not in use, of the asked size, or NULL.                         *)
(*                                                                         *)
(* A loop by VEC_ITER runs while its body calls the other operations; what *)
(* the body must leave alone is in the guards marked "caller".             *)
(***************************************************************************)
EXTENDS Naturals, Sequences, SequencesExt

CONSTANTS
  Vectors,        \* the variables that point to vectors, of one element type
  Blocks,         \* the addresses the resource places blocks at
  Values,         \* what an element may hold
  ElemSize,       \* sizeof an element
  SIZE_MAX,       \* largest size_t
  MaxLen,         \* the largest block the resource ever grants
  Reservations,   \* the new_capacity arguments of vec_reserve
  Ranges,         \* the pairs of bounds VEC_ITER may be given
  CMLIB_VEC_DEFAULT_CAPACITY,
  NULL            \* no block, no loop, and the contents of fresh memory

ASSUME VectorAssumption ==
  /\ ElemSize \in Nat \ {0}
  /\ SIZE_MAX \in Nat /\ MaxLen \in 0 .. SIZE_MAX
  /\ Reservations \subseteq 0 .. SIZE_MAX
  /\ Ranges \subseteq Nat \X Nat
  /\ CMLIB_VEC_DEFAULT_CAPACITY \in 1 .. SIZE_MAX

VARIABLES
  mem,    \* mem[b]: the block at address b, or NULL
  vec,    \* vec[v]: the block the caller's variable v points to, or NULL
  iter    \* the loop that runs: [vec, at, end], or NULL

vars == <<mem, vec, iter>>

-----------------------------------------------------------------------------
HeaderSize == 24   \* sizeof(cmlib_details_VHeader_): a pointer and two sizes

MIN(x, y) == IF x < y THEN x ELSE y

SizeT(n) == IF n <= SIZE_MAX THEN n ELSE n % (SIZE_MAX + 1)

(* A block with a vector in it: its header, and the cells of its elements. *)
Block ==
  [len : Nat, size : Nat, capacity : Nat, cells : Seq(Values \cup {NULL})]

Loop == [vec : Vectors, at : Nat, end : Nat]

ASSUME NullAssumption == NULL \notin Blocks \cup Values \cup Block \cup Loop

(* cmlib_details_vec_ctor: the bytes it asks for, and the vector in them.  *)
RequestSize(capacity) == SizeT(SizeT(capacity * ElemSize) + HeaderSize)

NewBlock(capacity, size, cells) ==
  [len      |-> RequestSize(capacity),
   size     |-> size,
   capacity |-> capacity,
   cells    |-> cells]

Fresh(capacity) == NewBlock(capacity, 0, [i \in 1 .. capacity |-> NULL])

(* The resource may grant a vector of this capacity at address b.          *)
Granted(b, capacity) ==
  /\ mem[b] = NULL
  /\ capacity # 0
  /\ RequestSize(capacity) <= MaxLen

(* The first `size' elements of the vector at b, copied to a fresh block.  *)

\* A bug: forgetting the last element.
CopyAllButLast(b, capacity, size) ==
  NewBlock(capacity, size,
    [i \in 1 .. capacity |-> IF i < size THEN mem[b].cells[i] ELSE NULL])

Copy(b, capacity, size) ==
  NewBlock(capacity, size,
    [i \in 1 .. capacity |-> IF i <= size THEN mem[b].cells[i] ELSE NULL])

Put(r, x) ==
  [r EXCEPT !.cells = [@ EXCEPT ![r.size + 1] = x], !.size = @ + 1]

(* No room for another element: cmlib_details_vec_realloc must grow.       *)

\* Bugs: growing one element too late or too early.
FullTooLate(b)  == mem[b].size > mem[b].capacity
FullTooEarly(b) == mem[b].size + 1 >= mem[b].capacity

Full(b) == mem[b].size >= mem[b].capacity

(* The old block goes back to the resource, and v points to the new one.   *)

\* A bug: not giving the old block back.
MoveLeavingOld(v, b, r) ==
  /\ mem' = [mem EXCEPT ![b] = r]
  /\ vec' = [vec EXCEPT ![v] = b]

Move(v, b, r) ==
  /\ mem' = [mem EXCEPT ![b] = r, ![vec[v]] = NULL]
  /\ vec' = [vec EXCEPT ![v] = b]

(* The body of a loop over v leaves it the elements the loop was begun     *)
(* with.                                                                   *)
LeavesLoop(v, size) == iter # NULL /\ iter.vec = v => size >= iter.end

-----------------------------------------------------------------------------
Init ==
  /\ mem = [b \in Blocks |-> NULL]
  /\ vec = [v \in Vectors |-> NULL]
  /\ iter = NULL

(* vec_ctor, when the resource has the memory. *)
Ctor(v) ==
  /\ vec[v] = NULL
  /\ \E b \in Blocks :
       /\ Granted(b, CMLIB_VEC_DEFAULT_CAPACITY)
       /\ mem' = [mem EXCEPT ![b] = Fresh(CMLIB_VEC_DEFAULT_CAPACITY)]
       /\ vec' = [vec EXCEPT ![v] = b]
  /\ UNCHANGED iter

(* vec_add with room for the element, with growth to twice the capacity,   *)
(* and without success.                                                    *)
AddInPlace(v, x) ==
  /\ vec[v] # NULL
  /\ ~Full(vec[v])
  /\ mem' = [mem EXCEPT ![vec[v]] = Put(@, x)]
  /\ UNCHANGED <<vec, iter>>

AddGrowing(v, x) ==
  /\ vec[v] # NULL
  /\ Full(vec[v])
  /\ LET old          == mem[vec[v]]
         new_capacity == SizeT(old.capacity * 2)
     IN  \E b \in Blocks :
           /\ Granted(b, new_capacity)
           /\ Move(v, b, Put(Copy(vec[v], new_capacity, old.size), x))
  /\ UNCHANGED iter

AddNoMemory(v) ==
  /\ vec[v] # NULL => Full(vec[v])
  /\ UNCHANGED vars

(* vec_pop of a vector with elements. *)
Pop(v) ==
  /\ vec[v] # NULL
  /\ mem[vec[v]].size > 0                                  \* caller
  /\ LeavesLoop(v, mem[vec[v]].size - 1)                   \* caller
  /\ mem' = [mem EXCEPT ![vec[v]].size = @ - 1]
  /\ UNCHANGED <<vec, iter>>

(* vec_reserve: always a new block, with the elements that fit in it.      *)
Reserve(v, new_capacity) ==
  /\ vec[v] # NULL                                         \* caller
  /\ LET size == MIN(mem[vec[v]].size, new_capacity)
     IN  /\ LeavesLoop(v, size)                            \* caller
         /\ \E b \in Blocks :
              /\ Granted(b, new_capacity)
              /\ Move(v, b, Copy(vec[v], new_capacity, size))
  /\ UNCHANGED iter

ReserveNoMemory(v) ==
  /\ vec[v] # NULL                                         \* caller
  /\ UNCHANGED vars

(* vec_clear. *)
Clear(v) ==
  /\ vec[v] # NULL
  /\ LeavesLoop(v, 0)                                      \* caller
  /\ mem' = [mem EXCEPT ![vec[v]].size = 0]
  /\ UNCHANGED <<vec, iter>>

(* vec_dtor; the caller's variable is not used any more. *)
Dtor(v) ==
  /\ vec[v] # NULL
  /\ iter # NULL => iter.vec # v                           \* caller
  /\ mem' = [mem EXCEPT ![vec[v]] = NULL]
  /\ vec' = [vec EXCEPT ![v] = NULL]
  /\ UNCHANGED iter

(* VEC_ITER over all elements or over a range; its end is fixed at the     *)
(* start.                                                                  *)

\* A bug: taking the range as it is given.
RangeEndAsGiven(last, size) == last

RangeEnd(last, size) == MIN(last, size)

Begin(v) ==
  /\ vec[v] # NULL
  /\ iter = NULL
  /\ LET size == mem[vec[v]].size
     IN  iter' \in {[vec |-> v, at |-> 0, end |-> size]} \cup
                   {[vec |-> v, at |-> r[1], end |-> RangeEnd(r[2], size)] :
                      r \in Ranges}
  /\ UNCHANGED <<mem, vec>>

Step ==
  /\ iter # NULL
  /\ iter.at < iter.end
  /\ iter' = [iter EXCEPT !.at = @ + 1]
  /\ UNCHANGED <<mem, vec>>

End ==
  /\ iter # NULL
  /\ iter.at >= iter.end
  /\ iter' = NULL
  /\ UNCHANGED <<mem, vec>>

Next ==
  \/ \E v \in Vectors :
       \/ Ctor(v) \/ Dtor(v)
       \/ \E x \in Values : AddInPlace(v, x) \/ AddGrowing(v, x)
       \/ AddNoMemory(v)
       \/ Pop(v) \/ Clear(v)
       \/ \E new_capacity \in Reservations : Reserve(v, new_capacity)
       \/ ReserveNoMemory(v)
       \/ Begin(v)
  \/ Step
  \/ End

Spec == Init /\ [][Next]_vars

-----------------------------------------------------------------------------
InUse == {b \in Blocks : mem[b] # NULL}

(* The variables hold what the structures hold; a vector has no more       *)
(* elements than its capacity, and its block room for as many.             *)
Sane(r) ==
  /\ r.size <= r.capacity
  /\ Len(r.cells) = r.capacity
  /\ r.len >= HeaderSize + r.capacity * ElemSize

TypeOK ==
  /\ mem \in [Blocks -> Block \cup {NULL}]
  /\ vec \in [Vectors -> Blocks \cup {NULL}]
  /\ iter \in Loop \cup {NULL}
  /\ \A b \in InUse : Sane(mem[b])

(* Every block in use belongs to one vector and every vector has one: no   *)
(* growth, reservation or failure leaves a block behind, frees one that is *)
(* used, or gives one to two vectors.                                      *)
OneBlockEach ==
  /\ {vec[v] : v \in Vectors} \ {NULL} = InUse
  /\ \A v, w \in Vectors : (v # w /\ vec[v] # NULL) => vec[v] # vec[w]

(* The elements a loop reads are there, in the block its vector has now,   *)
(* whatever its body adds, reserves or moves.                              *)
LoopInBounds ==
  iter # NULL =>
    /\ vec[iter.vec] # NULL
    /\ \A i \in iter.at + 1 .. iter.end :
         /\ i <= mem[vec[iter.vec]].size
         /\ mem[vec[iter.vec]].cells[i] # NULL

(* Adding an element moves a vector only when it is full: as long as there *)
(* is room, pointers to its elements stay valid.                           *)
MovesOnlyWhenFull ==
  [][\A v \in Vectors :
       (/\ vec[v] # NULL /\ vec'[v] # NULL
        /\ mem'[vec'[v]].size > mem[vec[v]].size)
         => (vec'[v] = vec[v] <=> mem[vec[v]].size < mem[vec[v]].capacity)]_vars

Elements ==
  [v \in Vectors |->
     IF vec[v] = NULL THEN <<>>
     ELSE [i \in 1 .. mem[vec[v]].size |-> mem[vec[v]].cells[i]]]

Sequence == INSTANCE ValueSequences
              WITH seqs <- Elements, Cuts <- Reservations \cup {0}

(* What each operation does to the elements of its vector, and to no other *)
(* one's: a reservation only cuts what does not fit in it.                 *)
Means(v) ==
  /\ \A x \in Values : AddInPlace(v, x) \/ AddGrowing(v, x) => Sequence!Add(v, x)
  /\ Pop(v) => Sequence!Pop(v)
  /\ Clear(v) \/ Dtor(v) => Sequence!Cut(v, 0)
  /\ Ctor(v) => UNCHANGED Elements
  /\ \A new_capacity \in Reservations :
       Reserve(v, new_capacity) =>
         IF new_capacity < Len(Elements[v]) THEN Sequence!Cut(v, new_capacity)
         ELSE UNCHANGED Elements

(* Vectors that share a resource behave as sequences of values, and every  *)
(* operation does to its sequence what it is for.                          *)
ImplementsSequence == Sequence!Spec /\ [][\A v \in Vectors : Means(v)]_vars
=============================================================================
