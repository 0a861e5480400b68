---------------------------- MODULE VectorProofs ----------------------------
(***************************************************************************)
(* Theorems about Vector, for any number of vectors, blocks and values.    *)
(*                                                                         *)
(* The contents of a block are judged by Good(r), the memory by            *)
(* Sound(m, w) on the blocks and the callers' variables, and a running     *)
(* loop by Follows(m, w, it).  The code does four things to the memory: it *)
(* places a new block, writes into one, moves one and releases one; a      *)
(* lemma each shows that this keeps the judgement.                         *)
(***************************************************************************)
EXTENDS Vector, SequenceTheorems, TLAPS

(* The assumption of the theorems: no capacity makes the size of a block   *)
(* wrap, neither one that is asked for nor twice one that was granted.     *)
CapacitiesFit ==
  /\ 2 * MaxLen <= SIZE_MAX
  /\ CMLIB_VEC_DEFAULT_CAPACITY * ElemSize + HeaderSize <= SIZE_MAX
  /\ \A c \in Reservations : c * ElemSize + HeaderSize <= SIZE_MAX

(* The block r holds a vector whose elements have all been written. *)
Good(r) ==
  /\ r \in Block
  /\ Sane(r)
  /\ r.len <= MaxLen
  /\ \A i \in 1 .. r.size : r.cells[i] \in Values

(* Every block in use is such a vector, and belongs to one variable. *)
Sound(m, w) ==
  /\ m \in [Blocks -> Block \cup {NULL}]
  /\ w \in [Vectors -> Blocks \cup {NULL}]
  /\ \A b \in Blocks : m[b] # NULL => Good(m[b])
  /\ \A v \in Vectors : w[v] # NULL => m[w[v]] # NULL
  /\ \A b \in Blocks : m[b] # NULL => \E v \in Vectors : w[v] = b
  /\ \A u, v \in Vectors : (u # v /\ w[u] # NULL) => w[u] # w[v]

(* A loop runs over elements that its vector has. *)
Follows(m, w, it) ==
  it # NULL => w[it.vec] # NULL /\ it.end <= m[w[it.vec]].size

IInv ==
  /\ Sound(mem, vec)
  /\ iter \in Loop \cup {NULL}
  /\ Follows(mem, vec, iter)

-----------------------------------------------------------------------------
(* Single blocks.                                                          *)

(* A capacity for which the request does not wrap gets the room it needs.  *)
LEMMA RequestExact ==
  ASSUME NEW c \in Nat, c * ElemSize + HeaderSize <= SIZE_MAX
  PROVE  RequestSize(c) = c * ElemSize + HeaderSize
<1> DEFINE n == c * ElemSize
<1>1. n \in Nat
  BY VectorAssumption
<1> HIDE DEF n
<1>2. n <= SIZE_MAX /\ n + HeaderSize <= SIZE_MAX
  BY <1>1, VectorAssumption DEF n, HeaderSize
<1>3. SizeT(n) = n /\ SizeT(n + HeaderSize) = n + HeaderSize
  BY <1>1, <1>2, VectorAssumption DEF SizeT
<1>4. QED
  BY <1>3 DEF RequestSize, n

(* Neither does the request for twice a capacity that was granted.         *)
LEMMA DoubleFits ==
  ASSUME CapacitiesFit, NEW r, Good(r)
  PROVE  /\ SizeT(r.capacity * 2) = r.capacity * 2
         /\ (r.capacity * 2) * ElemSize + HeaderSize <= SIZE_MAX
<1> DEFINE c == r.capacity
           n == c * ElemSize
<1>1. c \in Nat /\ n \in Nat /\ n >= c
  <2>1. c \in Nat
    BY DEF Good, Block
  <2>2. n >= c /\ n \in Nat
    BY <2>1, VectorAssumption
  <2>3. QED
    BY <2>1, <2>2
<1>2. r.len \in Nat /\ r.len <= MaxLen /\ r.len >= HeaderSize + n
  BY DEF Good, Sane, Block
<1>3. (c * 2) * ElemSize = 2 * n
  BY <1>1, VectorAssumption
<1> HIDE DEF n
<1>4. MaxLen \in Nat /\ SIZE_MAX \in Nat /\ 2 * MaxLen <= SIZE_MAX
  BY VectorAssumption DEF CapacitiesFit
<1>5. 2 * n + 24 <= SIZE_MAX /\ c * 2 <= SIZE_MAX
  BY <1>1, <1>2, <1>4 DEF HeaderSize
<1>6. SizeT(c * 2) = c * 2
  BY <1>1, <1>5 DEF SizeT
<1>7. QED
  BY <1>3, <1>5, <1>6 DEF HeaderSize

(* What a granted copy is made of; a copy of no elements is a new vector.  *)
LEMMA CopyGood ==
  ASSUME NEW b, NEW c \in Nat \ {0}, NEW size \in Nat, size <= c,
         c * ElemSize + HeaderSize <= SIZE_MAX, RequestSize(c) <= MaxLen,
         size = 0 \/ (Good(mem[b]) /\ size <= mem[b].size)
  PROVE  /\ Good(Copy(b, c, size))
         /\ Copy(b, c, size).size = size
         /\ Copy(b, c, size).capacity = c
         /\ \A i \in 1 .. size : Copy(b, c, size).cells[i] = mem[b].cells[i]
<1> DEFINE cells == [i \in 1 .. c |-> IF i <= size THEN mem[b].cells[i]
                                                   ELSE NULL]
           r == Copy(b, c, size)
<1>1. r = [len |-> RequestSize(c), size |-> size, capacity |-> c,
           cells |-> cells]
  BY DEF Copy, NewBlock
<1>2. \A i \in 1 .. c : i <= size => mem[b].cells[i] \in Values
  <2>1. CASE size = 0
    BY <2>1
  <2>2. CASE Good(mem[b]) /\ size <= mem[b].size
    <3>1. mem[b].size \in Nat
      BY <2>2 DEF Good, Block
    <3>2. QED
      BY <2>2, <3>1 DEF Good
  <2>3. QED
    BY <2>1, <2>2
<1>3. cells \in Seq(Values \cup {NULL}) /\ Len(cells) = c
  BY <1>2
<1>4. RequestSize(c) \in Nat
  <2>1. c * ElemSize \in Nat
    BY VectorAssumption
  <2>2. QED
    BY <2>1, RequestExact DEF HeaderSize
<1>5. r \in Block /\ r.len = RequestSize(c) /\ r.size = size
      /\ r.capacity = c /\ r.cells = cells
  BY <1>1, <1>3, <1>4 DEF Block
<1>6. \A i \in 1 .. size : cells[i] = mem[b].cells[i] /\ cells[i] \in Values
  BY <1>2
<1> HIDE DEF cells, r
<1>7. Sane(r)
  <2>1. r.len = r.capacity * ElemSize + HeaderSize
    BY <1>5, RequestExact
  <2>2. r.capacity * ElemSize \in Nat
    BY <1>5, VectorAssumption
  <2>3. QED
    BY <1>3, <1>5, <2>1, <2>2 DEF Sane, HeaderSize
<1>8. QED
  BY <1>5, <1>6, <1>7 DEF Good, r

LEMMA FreshGood ==
  ASSUME NEW c \in Nat \ {0}, c * ElemSize + HeaderSize <= SIZE_MAX,
         RequestSize(c) <= MaxLen
  PROVE  Good(Fresh(c)) /\ Fresh(c).size = 0
<1> DEFINE cells == [i \in 1 .. c |-> NULL]
           r == Fresh(c)
<1>1. RequestSize(c) \in Nat /\ RequestSize(c) >= HeaderSize + c * ElemSize
  <2>1. c * ElemSize \in Nat
    BY VectorAssumption
  <2>2. QED
    BY <2>1, RequestExact DEF HeaderSize
<1>2. cells \in Seq(Values \cup {NULL}) /\ Len(cells) = c
  OBVIOUS
<1>3. r \in Block /\ r.len = RequestSize(c) /\ r.size = 0 /\ r.capacity = c
      /\ r.cells = cells
  BY <1>1, <1>2 DEF Fresh, NewBlock, Block
<1> HIDE DEF cells, r
<1>4. QED
  BY <1>1, <1>2, <1>3 DEF Good, Sane, r

(* Writing an element where there is room. *)
LEMMA PutGood ==
  ASSUME NEW r, Good(r), r.size < r.capacity, NEW x \in Values
  PROVE  /\ Good(Put(r, x))
         /\ Put(r, x).size = r.size + 1
         /\ \A i \in 1 .. r.size : Put(r, x).cells[i] = r.cells[i]
         /\ Put(r, x).cells[r.size + 1] = x
<1> DEFINE cells == [r.cells EXCEPT ![r.size + 1] = x]
           p == Put(r, x)
<1>1. /\ r \in Block /\ r.size \in Nat /\ r.capacity \in Nat
      /\ r.cells \in Seq(Values \cup {NULL}) /\ Len(r.cells) = r.capacity
  BY DEF Good, Sane, Block
<1>2. /\ p \in Block /\ p.cells = cells /\ p.size = r.size + 1
      /\ p.capacity = r.capacity /\ p.len = r.len
  <2>1. cells \in Seq(Values \cup {NULL})
    BY <1>1
  <2>2. p = [r EXCEPT !.cells = cells, !.size = r.size + 1]
    BY <1>1 DEF Put, Block
  <2> HIDE DEF cells, p
  <2>3. p = [len |-> r.len, size |-> r.size + 1, capacity |-> r.capacity,
             cells |-> cells]
    BY <1>1, <2>2 DEF Block
  <2>4. r.len \in Nat /\ r.size + 1 \in Nat
    BY <1>1 DEF Block
  <2>5. QED
    BY <1>1, <2>1, <2>3, <2>4 DEF Block
<1>3. /\ Len(cells) = r.capacity
      /\ \A i \in 1 .. r.size : cells[i] = r.cells[i]
      /\ cells[r.size + 1] = x
  BY <1>1
<1> HIDE DEF cells, p
<1>4. \A i \in 1 .. r.size + 1 : cells[i] \in Values
  BY <1>1, <1>3 DEF Good
<1>5. QED
  BY <1>1, <1>2, <1>3, <1>4 DEF Good, Sane, p

(* Dropping elements at the end. *)
LEMMA ShrinkGood ==
  ASSUME NEW r, Good(r), NEW n \in 0 .. r.size
  PROVE  LET s == [r EXCEPT !.size = n]
         IN  Good(s) /\ s.size = n /\ s.cells = r.cells
<1> DEFINE s == [r EXCEPT !.size = n]
<1>1. r \in Block /\ r.size \in Nat /\ r.capacity \in Nat
  BY DEF Good, Block
<1>2. /\ s \in Block /\ s.size = n /\ s.cells = r.cells
      /\ s.capacity = r.capacity /\ s.len = r.len
  BY <1>1 DEF Block
<1> HIDE DEF s
<1>3. QED
  BY <1>1, <1>2 DEF Good, Sane, s

-----------------------------------------------------------------------------
(* The memory.                                                             *)

(* A good block is not NULL. *)
LEMMA GoodBlock ==
  ASSUME NEW r, Good(r) PROVE r \in Block /\ r # NULL
BY NullAssumption DEF Good

(* A new vector in a block that was free. *)
LEMMA PlaceSound ==
  ASSUME NEW m, NEW w, Sound(m, w), NEW v \in Vectors, w[v] = NULL,
         NEW b \in Blocks, m[b] = NULL, NEW r, Good(r)
  PROVE  Sound([m EXCEPT ![b] = r], [w EXCEPT ![v] = b])
BY GoodBlock, NullAssumption DEF Sound

(* Writing into the block of a vector. *)
LEMMA WriteSound ==
  ASSUME NEW m, NEW w, Sound(m, w), NEW v \in Vectors, w[v] # NULL,
         NEW r, Good(r)
  PROVE  Sound([m EXCEPT ![w[v]] = r], w)
BY GoodBlock, NullAssumption DEF Sound

(* Moving a vector to a block that was free. *)
LEMMA MoveSound ==
  ASSUME NEW m, NEW w, Sound(m, w), NEW v \in Vectors, w[v] # NULL,
         NEW b \in Blocks, m[b] = NULL, NEW r, Good(r)
  PROVE  Sound([m EXCEPT ![b] = r, ![w[v]] = NULL], [w EXCEPT ![v] = b])
BY GoodBlock, NullAssumption DEF Sound

(* Releasing a vector's block. *)
LEMMA ReleaseSound ==
  ASSUME NEW m, NEW w, Sound(m, w), NEW v \in Vectors, w[v] # NULL
  PROVE  Sound([m EXCEPT ![w[v]] = NULL], [w EXCEPT ![v] = NULL])
BY NullAssumption DEF Sound

-----------------------------------------------------------------------------
(* The steps.                                                              *)

(* What the invariant says of a vector, and of one that a loop runs over.  *)
LEMMA VectorGood ==
  ASSUME IInv, NEW v \in Vectors, vec[v] # NULL
  PROVE  /\ vec[v] \in Blocks /\ Good(mem[vec[v]])
         /\ mem[vec[v]].size \in Nat /\ mem[vec[v]].capacity \in Nat
         /\ mem[vec[v]].size <= mem[vec[v]].capacity
BY DEF IInv, Sound, Good, Sane, Block

(* The copies the code makes, for a capacity the resource has granted.     *)
LEMMA GrantedCopyGood ==
  ASSUME IInv, NEW v \in Vectors, vec[v] # NULL, NEW b \in Blocks,
         NEW c \in Nat, Granted(b, c), c * ElemSize + HeaderSize <= SIZE_MAX,
         NEW size \in Nat, size <= c, size <= mem[vec[v]].size
  PROVE  LET r == Copy(vec[v], c, size)
         IN  /\ Good(r) /\ r.size = size /\ r.capacity = c
             /\ \A i \in 1 .. size : r.cells[i] = mem[vec[v]].cells[i]
<1>1. c \in Nat \ {0} /\ RequestSize(c) <= MaxLen /\ Good(mem[vec[v]])
  BY VectorGood DEF Granted
<1>2. QED
  BY <1>1, CopyGood

(* A vector that v did not have, placed; the other vectors keep theirs.    *)
LEMMA PlaceKeeps ==
  ASSUME IInv, NEW v \in Vectors, vec[v] = NULL, NEW b \in Blocks,
         mem[b] = NULL, NEW r, Good(r), UNCHANGED iter,
         mem' = [mem EXCEPT ![b] = r], vec' = [vec EXCEPT ![v] = b]
  PROVE  IInv'
<1>1. Sound(mem', vec')
  BY PlaceSound DEF IInv
<1>2. Follows(mem', vec', iter')
  BY NullAssumption DEF IInv, Sound, Follows, Loop
<1>3. QED
  BY <1>1, <1>2 DEF IInv

(* A vector written where it is, or moved: a loop over it must still find  *)
(* the elements it was begun with.                                         *)
LEMMA WriteKeeps ==
  ASSUME IInv, NEW v \in Vectors, vec[v] # NULL, NEW r, Good(r),
         LeavesLoop(v, r.size), UNCHANGED <<vec, iter>>,
         mem' = [mem EXCEPT ![vec[v]] = r]
  PROVE  IInv'
<1>1. Sound(mem', vec')
  BY WriteSound DEF IInv
<1>2. Follows(mem', vec', iter')
  BY NullAssumption DEF IInv, Sound, Follows, Loop, LeavesLoop
<1>3. QED
  BY <1>1, <1>2 DEF IInv

LEMMA MoveKeeps ==
  ASSUME IInv, NEW v \in Vectors, vec[v] # NULL, NEW b \in Blocks,
         mem[b] = NULL, NEW r, Good(r), LeavesLoop(v, r.size),
         UNCHANGED iter, Move(v, b, r)
  PROVE  IInv'
<1>1. Sound(mem', vec')
  BY MoveSound DEF IInv, Move
<1>2. Follows(mem', vec', iter')
  BY NullAssumption DEF IInv, Sound, Follows, Loop, LeavesLoop, Move
<1>3. QED
  BY <1>1, <1>2 DEF IInv

(* Adding elements never takes one from a loop. *)
LEMMA LargerLeavesLoop ==
  ASSUME IInv, NEW v \in Vectors, vec[v] # NULL,
         NEW size \in Nat, size >= mem[vec[v]].size
  PROVE  LeavesLoop(v, size)
BY VectorGood, NullAssumption DEF IInv, Follows, LeavesLoop, Loop

LEMMA InitInv == Init => IInv
<1> SUFFICES ASSUME Init PROVE IInv
  OBVIOUS
<1>1. Sound(mem, vec)
  BY DEF Init, Sound
<1>2. QED
  BY <1>1 DEF Init, IInv, Follows

LEMMA CtorInv ==
  ASSUME CapacitiesFit, IInv, NEW v \in Vectors, Ctor(v)
  PROVE  IInv'
<1> DEFINE c == CMLIB_VEC_DEFAULT_CAPACITY
<1>1. PICK b \in Blocks :
        /\ Granted(b, c)
        /\ mem' = [mem EXCEPT ![b] = Fresh(c)]
        /\ vec' = [vec EXCEPT ![v] = b]
  BY DEF Ctor
<1>2. Good(Fresh(c))
  BY <1>1, FreshGood, VectorAssumption DEF Granted, CapacitiesFit
<1>3. QED
  BY <1>1, <1>2, PlaceKeeps DEF Ctor, Granted

LEMMA AddInPlaceInv ==
  ASSUME IInv, NEW v \in Vectors, NEW x \in Values, AddInPlace(v, x)
  PROVE  IInv'
<1> DEFINE old == mem[vec[v]]
<1>1. Good(old) /\ old.size \in Nat /\ old.size < old.capacity
  BY VectorGood DEF AddInPlace, Full
<1>2. Good(Put(old, x)) /\ Put(old, x).size = old.size + 1
  BY <1>1, PutGood
<1>3. LeavesLoop(v, Put(old, x).size)
  BY <1>1, <1>2, LargerLeavesLoop DEF AddInPlace
<1>4. mem' = [mem EXCEPT ![vec[v]] = Put(old, x)]
  BY DEF AddInPlace, IInv, Sound
<1>5. QED
  BY <1>2, <1>3, <1>4, WriteKeeps DEF AddInPlace

(* What is moved by a growing vec_add: all elements, and the new one.      *)
LEMMA Grown ==
  ASSUME CapacitiesFit, IInv, NEW v \in Vectors, vec[v] # NULL, Full(vec[v]),
         NEW x \in Values, NEW b \in Blocks,
         Granted(b, SizeT(mem[vec[v]].capacity * 2))
  PROVE  LET old == mem[vec[v]]
             r   == Put(Copy(vec[v], SizeT(old.capacity * 2), old.size), x)
         IN  /\ Good(r) /\ r.size = old.size + 1
             /\ \A i \in 1 .. old.size : r.cells[i] = old.cells[i]
             /\ r.cells[old.size + 1] = x
<1> DEFINE old == mem[vec[v]]
           c   == SizeT(old.capacity * 2)
           r   == Copy(vec[v], c, old.size)
<1>1. /\ Good(old) /\ old.size \in Nat /\ old.capacity \in Nat
      /\ old.size <= old.capacity
  BY VectorGood
<1>2. c = old.capacity * 2 /\ c * ElemSize + HeaderSize <= SIZE_MAX
  BY <1>1, DoubleFits
<1>3. c # 0
  BY DEF Granted
<1>4. c \in Nat /\ old.size <= c /\ old.size < c
  BY <1>1, <1>2, <1>3
<1>5. /\ Good(r) /\ r.size = old.size /\ r.capacity = c
      /\ \A i \in 1 .. old.size : r.cells[i] = old.cells[i]
  BY <1>1, <1>2, <1>4, GrantedCopyGood
<1> HIDE DEF r, old, c
<1>6. /\ Good(Put(r, x)) /\ Put(r, x).size = old.size + 1
      /\ \A i \in 1 .. old.size : Put(r, x).cells[i] = old.cells[i]
      /\ Put(r, x).cells[old.size + 1] = x
  BY <1>4, <1>5, PutGood
<1>7. QED
  BY <1>6 DEF r, old, c

LEMMA AddGrowingInv ==
  ASSUME CapacitiesFit, IInv, NEW v \in Vectors, NEW x \in Values,
         AddGrowing(v, x)
  PROVE  IInv'
<1> DEFINE old == mem[vec[v]]
           c   == SizeT(old.capacity * 2)
           r   == Put(Copy(vec[v], c, old.size), x)
<1>1. vec[v] # NULL /\ Full(vec[v]) /\ UNCHANGED iter
  BY DEF AddGrowing
<1>2. PICK b \in Blocks : Granted(b, c) /\ Move(v, b, r)
  BY DEF AddGrowing
<1>3. Good(r) /\ r.size = old.size + 1
  BY <1>1, <1>2, Grown
<1>4. old.size \in Nat
  BY <1>1, VectorGood
<1>5. LeavesLoop(v, r.size)
  BY <1>1, <1>3, <1>4, LargerLeavesLoop
<1>6. QED
  BY <1>1, <1>2, <1>3, <1>5, MoveKeeps DEF Granted

LEMMA PopInv ==
  ASSUME IInv, NEW v \in Vectors, Pop(v)
  PROVE  IInv'
<1> DEFINE old == mem[vec[v]]
           r   == [old EXCEPT !.size = old.size - 1]
<1>1. Good(old) /\ old.size \in Nat /\ old.size > 0
  BY VectorGood DEF Pop
<1>2. Good(r) /\ r.size = old.size - 1
  <2>1. old.size - 1 \in 0 .. old.size
    BY <1>1
  <2> HIDE DEF old
  <2>2. QED
    BY <1>1, <2>1, ShrinkGood
<1>3. mem' = [mem EXCEPT ![vec[v]] = r]
  BY DEF Pop, IInv, Sound
<1>4. QED
  BY <1>2, <1>3, WriteKeeps DEF Pop

LEMMA ClearInv ==
  ASSUME IInv, NEW v \in Vectors, Clear(v)
  PROVE  IInv'
<1> DEFINE old == mem[vec[v]]
           r   == [old EXCEPT !.size = 0]
<1>1. Good(old) /\ old.size \in Nat
  BY VectorGood DEF Clear
<1>2. Good(r) /\ r.size = 0
  BY <1>1, ShrinkGood
<1>3. mem' = [mem EXCEPT ![vec[v]] = r]
  BY DEF Clear, IInv, Sound
<1>4. QED
  BY <1>2, <1>3, WriteKeeps DEF Clear

LEMMA ReserveInv ==
  ASSUME CapacitiesFit, IInv, NEW v \in Vectors, NEW c \in Reservations,
         Reserve(v, c)
  PROVE  IInv'
<1> DEFINE size == MIN(mem[vec[v]].size, c)
           r    == Copy(vec[v], c, size)
<1>1. vec[v] # NULL /\ LeavesLoop(v, size) /\ UNCHANGED iter
  BY DEF Reserve
<1>2. PICK b \in Blocks : Granted(b, c) /\ Move(v, b, r)
  BY DEF Reserve
<1>3. c \in Nat /\ c * ElemSize + HeaderSize <= SIZE_MAX
  BY VectorAssumption DEF CapacitiesFit
<1>4. size \in Nat /\ size <= c /\ size <= mem[vec[v]].size
  BY <1>1, <1>3, VectorGood DEF MIN
<1> HIDE DEF size
<1>5. Good(r) /\ r.size = size
  BY <1>1, <1>2, <1>3, <1>4, GrantedCopyGood
<1>6. QED
  BY <1>1, <1>2, <1>5, MoveKeeps DEF Granted

LEMMA DtorInv ==
  ASSUME IInv, NEW v \in Vectors, Dtor(v)
  PROVE  IInv'
<1>1. Sound(mem', vec')
  BY ReleaseSound DEF IInv, Dtor
<1>2. Follows(mem', vec', iter')
  BY NullAssumption DEF IInv, Sound, Follows, Loop, Dtor
<1>3. QED
  BY <1>1, <1>2 DEF IInv, Dtor

LEMMA BeginInv ==
  ASSUME IInv, NEW v \in Vectors, Begin(v)
  PROVE  IInv'
<1> DEFINE size == mem[vec[v]].size
<1>1. vec[v] # NULL /\ size \in Nat
  BY VectorGood DEF Begin
<1>2. \/ iter' = [vec |-> v, at |-> 0, end |-> size]
      \/ \E r \in Ranges :
           iter' = [vec |-> v, at |-> r[1], end |-> RangeEnd(r[2], size)]
  BY DEF Begin
<1>3. \A r \in Ranges :
        /\ r[1] \in Nat /\ RangeEnd(r[2], size) \in Nat
        /\ RangeEnd(r[2], size) <= size
  BY <1>1, VectorAssumption DEF RangeEnd, MIN
<1>4. iter' \in Loop /\ iter'.vec = v /\ iter'.end <= size
  BY <1>1, <1>2, <1>3 DEF Loop
<1>5. QED
  BY <1>1, <1>4 DEF IInv, Follows, Begin

LEMMA StepInv ==
  ASSUME IInv, Step
  PROVE  IInv'
<1>1. iter \in Loop /\ iter' \in Loop /\ iter'.vec = iter.vec
      /\ iter'.end = iter.end
  BY DEF IInv, Step, Loop
<1>2. QED
  BY <1>1 DEF IInv, Step, Follows

LEMMA EndInv ==
  ASSUME IInv, End
  PROVE  IInv'
BY DEF IInv, End, Follows

(* Every step keeps the invariant. *)
LEMMA NextInv ==
  ASSUME CapacitiesFit, IInv, [Next]_vars
  PROVE  IInv'
<1>1. CASE UNCHANGED vars
  BY <1>1 DEF vars, IInv, Sound, Follows
<1>2. ASSUME NEW v \in Vectors, Ctor(v) PROVE IInv'
  BY <1>2, CtorInv
<1>3. ASSUME NEW v \in Vectors, Dtor(v) PROVE IInv'
  BY <1>3, DtorInv
<1>4. ASSUME NEW v \in Vectors, NEW x \in Values,
             AddInPlace(v, x) \/ AddGrowing(v, x)
      PROVE  IInv'
  BY <1>4, AddInPlaceInv, AddGrowingInv
<1>5. ASSUME NEW v \in Vectors, AddNoMemory(v) \/ ReserveNoMemory(v)
      PROVE  IInv'
  BY <1>1, <1>5 DEF AddNoMemory, ReserveNoMemory
<1>6. ASSUME NEW v \in Vectors, Pop(v) \/ Clear(v) PROVE IInv'
  BY <1>6, PopInv, ClearInv
<1>7. ASSUME NEW v \in Vectors, NEW c \in Reservations, Reserve(v, c)
      PROVE  IInv'
  BY <1>7, ReserveInv
<1>8. ASSUME NEW v \in Vectors, Begin(v) PROVE IInv'
  BY <1>8, BeginInv
<1>9. CASE Step \/ End
  BY <1>9, StepInv, EndInv
<1>10. QED
  BY <1>1, <1>2, <1>3, <1>4, <1>5, <1>6, <1>7, <1>8, <1>9 DEF Next

-----------------------------------------------------------------------------
(* Theorems.                                                               *)

(* The inductive invariant holds in every run of a program whose           *)
(* capacities do not make the size of a block wrap.                        *)
THEOREM Invariance ==
  ASSUME CapacitiesFit
  PROVE  Spec => []IInv
<1>1. IInv /\ [Next]_vars => IInv'
  BY NextInv
<1>2. QED
  BY <1>1, InitInv, PTL DEF Spec

(* Every vector has at most the elements of its capacity, and a block with *)
(* room for them behind the header (vec_add, vec_reserve).                 *)
THEOREM TypeOKAlways ==
  ASSUME CapacitiesFit
  PROVE  Spec => []TypeOK
<1>1. IInv => TypeOK
  BY DEF IInv, Sound, Good, TypeOK, InUse
<1>2. QED
  BY <1>1, Invariance, PTL

(* No growth, reservation or failure leaks a block, frees one in use or    *)
(* shares one (cmlib_details_vec_realloc).                                 *)
THEOREM OneBlockEachAlways ==
  ASSUME CapacitiesFit
  PROVE  Spec => []OneBlockEach
<1>1. IInv => OneBlockEach
  BY NullAssumption DEF IInv, Sound, OneBlockEach, InUse
<1>2. QED
  BY <1>1, Invariance, PTL

(* A loop by VEC_ITER reads elements its vector has now, and that were     *)
(* written.                                                                *)
THEOREM LoopInBoundsAlways ==
  ASSUME CapacitiesFit
  PROVE  Spec => []LoopInBounds
<1>1. ASSUME IInv, iter # NULL
      PROVE  /\ vec[iter.vec] # NULL
             /\ \A i \in iter.at + 1 .. iter.end :
                  /\ i <= mem[vec[iter.vec]].size
                  /\ mem[vec[iter.vec]].cells[i] # NULL
  <2> DEFINE r == mem[vec[iter.vec]]
  <2>1. iter \in Loop /\ vec[iter.vec] # NULL /\ iter.end <= r.size
    BY <1>1 DEF IInv, Follows
  <2>2. Good(r) /\ r.size \in Nat
    BY <1>1, <2>1, VectorGood DEF Loop
  <2>3. iter.at \in Nat /\ iter.end \in Nat
    BY <2>1 DEF Loop
  <2> HIDE DEF r
  <2>4. \A i \in iter.at + 1 .. iter.end :
          i <= r.size /\ i \in 1 .. r.size
    BY <2>1, <2>2, <2>3
  <2>5. \A i \in 1 .. r.size : r.cells[i] # NULL
    BY <2>2, NullAssumption DEF Good
  <2>6. QED
    BY <2>1, <2>4, <2>5 DEF r
<1>2. IInv => LoopInBounds
  BY <1>1 DEF LoopInBounds
<1>3. QED
  BY <1>2, Invariance, PTL

-----------------------------------------------------------------------------
(* Vectors as sequences.                                                   *)

(* The sequence of the elements in a block. *)
Written(r) == [i \in 1 .. r.size |-> r.cells[i]]

(* A step over v leaves the other vectors alone. *)
OthersKept(v) ==
  \A u \in Vectors \ {v} :
    vec'[u] = vec[u] /\ (vec[u] # NULL => mem'[vec[u]] = mem[vec[u]])

LEMMA WrittenSeq ==
  ASSUME NEW r, Good(r)
  PROVE  Written(r) \in Seq(Values) /\ Len(Written(r)) = r.size
BY DEF Good, Block, Written

(* One more element, and the others as they were. *)
LEMMA WrittenAdd ==
  ASSUME NEW r, Good(r), NEW s, NEW x \in Values, s.size = r.size + 1,
         \A i \in 1 .. r.size : s.cells[i] = r.cells[i],
         s.cells[r.size + 1] = x
  PROVE  Written(s) = Append(Written(r), x)
<1>1. r.size \in Nat /\ Written(r) \in Seq(Values) /\ Len(Written(r)) = r.size
  BY WrittenSeq DEF Good, Block
<1>2. \A i \in 1 .. r.size : Written(r)[i] = s.cells[i]
  BY DEF Written
<1> DEFINE w == Written(r)
           a == Append(w, x)
<1> HIDE DEF w
<1>3. /\ a \in Seq(Values) /\ Len(a) = Len(w) + 1
      /\ \A i \in 1 .. Len(w) : a[i] = w[i]
      /\ a[Len(w) + 1] = x
  BY <1>1, AppendProperties DEF w
<1> HIDE DEF a
<1>4. a = [i \in 1 .. r.size + 1 |-> a[i]]
  BY <1>1, <1>3 DEF w
<1>5. \A i \in 1 .. r.size + 1 : s.cells[i] = a[i]
  <2>1. \A i \in 1 .. r.size + 1 : i \in 1 .. r.size \/ i = r.size + 1
    BY <1>1
  <2>2. Len(w) = r.size /\ \A i \in 1 .. r.size : w[i] = s.cells[i]
    BY <1>1, <1>2 DEF w
  <2>3. QED
    BY <1>3, <2>1, <2>2
<1>6. QED
  BY <1>4, <1>5 DEF Written, a, w

(* The first elements only. *)
LEMMA WrittenCut ==
  ASSUME NEW r, Good(r), NEW s, s.size \in 0 .. r.size,
         \A i \in 1 .. s.size : s.cells[i] = r.cells[i]
  PROVE  Written(s) = SubSeq(Written(r), 1, s.size)
<1>1. r.size \in Nat /\ Written(r) \in Seq(Values) /\ Len(Written(r)) = r.size
  BY WrittenSeq DEF Good, Block
<1> DEFINE w == Written(r)
           n == s.size
<1>2. \A i \in 1 .. n : s.cells[i] = w[i]
  BY <1>1 DEF Written
<1>3. n \in Nat /\ w \in Seq(Values) /\ n <= Len(w)
  BY <1>1
<1> HIDE DEF w
<1>4. SubSeq(w, 1, n) = [i \in 1 .. n |-> w[i]]
  BY <1>3
<1>5. QED
  BY <1>2, <1>4 DEF Written, w

(* The four things done to the memory keep the other vectors. *)
LEMMA PlaceOthers ==
  ASSUME IInv, NEW v \in Vectors, NEW b \in Blocks, mem[b] = NULL, NEW r,
         mem' = [mem EXCEPT ![b] = r], vec' = [vec EXCEPT ![v] = b]
  PROVE  OthersKept(v)
BY DEF IInv, Sound, OthersKept

LEMMA WriteOthers ==
  ASSUME IInv, NEW v \in Vectors, vec[v] # NULL, NEW r,
         mem' = [mem EXCEPT ![vec[v]] = r], UNCHANGED vec
  PROVE  OthersKept(v)
BY DEF IInv, Sound, OthersKept

LEMMA MoveOthers ==
  ASSUME IInv, NEW v \in Vectors, vec[v] # NULL, NEW b \in Blocks,
         mem[b] = NULL, NEW r, Move(v, b, r)
  PROVE  OthersKept(v) /\ vec'[v] = b /\ b # vec[v] /\ mem'[b] = r
BY DEF IInv, Sound, OthersKept, Move

LEMMA ReleaseOthers ==
  ASSUME IInv, NEW v \in Vectors, Dtor(v)
  PROVE  OthersKept(v)
BY DEF IInv, Sound, OthersKept, Dtor

(* What a step does to the sequence of v is all that it does. *)
LEMMA OneSequence ==
  ASSUME NEW v \in Vectors, OthersKept(v), NEW s, Elements'[v] = s
  PROVE  Elements' = [Elements EXCEPT ![v] = s]
<1>1. \A u \in Vectors \ {v} : Elements'[u] = Elements[u]
  BY DEF Elements, OthersKept
<1>2. Elements' = [u \in Vectors |-> Elements'[u]]
  BY DEF Elements
<1>3. Elements = [u \in Vectors |-> Elements[u]]
  BY DEF Elements
<1> HIDE DEF Elements
<1>4. QED
  BY <1>1, <1>2, <1>3

(* A vector that keeps its variable, block and elements keeps its sequence. *)
LEMMA SameSequences ==
  ASSUME UNCHANGED <<mem, vec>>
  PROVE  Elements' = Elements
BY DEF Elements

LEMMA ElementsOf ==
  ASSUME NEW v \in Vectors
  PROVE  /\ vec[v] = NULL => Elements[v] = <<>>
         /\ vec[v] # NULL => Elements[v] = Written(mem[vec[v]])
         /\ vec'[v] = NULL => Elements'[v] = <<>>
         /\ vec'[v] # NULL => Elements'[v] = Written(mem'[vec'[v]])
BY DEF Elements, Written

(* A step that leaves v, at any place, with one element more. *)
LEMMA AddSequence ==
  ASSUME IInv, NEW v \in Vectors, OthersKept(v), vec[v] # NULL,
         vec'[v] # NULL, NEW x \in Values, NEW s, mem'[vec'[v]] = s,
         s.size = mem[vec[v]].size + 1,
         \A i \in 1 .. mem[vec[v]].size : s.cells[i] = mem[vec[v]].cells[i],
         s.cells[mem[vec[v]].size + 1] = x
  PROVE  Sequence!Add(v, x)
<1> DEFINE r == mem[vec[v]]
<1>1. Good(r)
  BY VectorGood
<1>2. Written(s) = Append(Written(r), x)
  BY <1>1, WrittenAdd
<1>3. Elements'[v] = Append(Elements[v], x)
  BY <1>2, ElementsOf
<1>4. QED
  BY <1>3, OneSequence DEF Sequence!Add

(* A step that leaves v with its first elements. *)
LEMMA CutSequence ==
  ASSUME IInv, NEW v \in Vectors, OthersKept(v), vec[v] # NULL,
         vec'[v] # NULL, NEW s, mem'[vec'[v]] = s,
         s.size \in 0 .. mem[vec[v]].size,
         \A i \in 1 .. s.size : s.cells[i] = mem[vec[v]].cells[i]
  PROVE  /\ Elements' = [Elements EXCEPT ![v] = SubSeq(@, 1, s.size)]
         /\ Len(Elements[v]) = mem[vec[v]].size
<1> DEFINE r == mem[vec[v]]
<1>1. Good(r)
  BY VectorGood
<1>2. Written(s) = SubSeq(Written(r), 1, s.size) /\ Len(Written(r)) = r.size
  BY <1>1, WrittenCut, WrittenSeq
<1>3. /\ Elements'[v] = SubSeq(Elements[v], 1, s.size)
      /\ Len(Elements[v]) = r.size
  BY <1>2, ElementsOf
<1>4. QED
  BY <1>3, OneSequence

LEMMA AddInPlaceAdds ==
  ASSUME IInv, NEW v \in Vectors, NEW x \in Values, AddInPlace(v, x)
  PROVE  Sequence!Add(v, x)
<1> DEFINE old == mem[vec[v]]
           s   == Put(old, x)
<1>1. Good(old) /\ old.size \in Nat /\ old.size < old.capacity
  BY VectorGood DEF AddInPlace, Full
<1>2. /\ s.size = old.size + 1 /\ s.cells[old.size + 1] = x
      /\ \A i \in 1 .. old.size : s.cells[i] = old.cells[i]
  BY <1>1, PutGood
<1>3. mem' = [mem EXCEPT ![vec[v]] = s]
  BY DEF AddInPlace, IInv, Sound
<1>4. mem'[vec'[v]] = s /\ vec'[v] # NULL /\ vec[v] # NULL
  BY <1>3, VectorGood DEF AddInPlace, IInv, Sound
<1>5. OthersKept(v)
  BY <1>3, WriteOthers DEF AddInPlace
<1>6. QED
  BY <1>2, <1>4, <1>5, AddSequence

LEMMA AddGrowingAdds ==
  ASSUME CapacitiesFit, IInv, NEW v \in Vectors, NEW x \in Values,
         AddGrowing(v, x)
  PROVE  Sequence!Add(v, x)
<1> DEFINE old == mem[vec[v]]
           c   == SizeT(old.capacity * 2)
           s   == Put(Copy(vec[v], c, old.size), x)
<1>1. vec[v] # NULL /\ Full(vec[v])
  BY DEF AddGrowing
<1>2. PICK b \in Blocks : Granted(b, c) /\ Move(v, b, s)
  BY DEF AddGrowing
<1>3. /\ s.size = old.size + 1 /\ s.cells[old.size + 1] = x
      /\ \A i \in 1 .. old.size : s.cells[i] = old.cells[i]
  BY <1>1, <1>2, Grown
<1> HIDE DEF s
<1>4. OthersKept(v) /\ mem'[vec'[v]] = s /\ vec'[v] # NULL
  BY <1>1, <1>2, MoveOthers, NullAssumption DEF Granted
<1>5. QED
  BY <1>1, <1>3, <1>4, AddSequence

LEMMA PopPops ==
  ASSUME IInv, NEW v \in Vectors, Pop(v)
  PROVE  Sequence!Pop(v)
<1> DEFINE old == mem[vec[v]]
           s   == [old EXCEPT !.size = old.size - 1]
<1>1. /\ Good(old) /\ old.size \in Nat /\ old.size > 0 /\ vec[v] # NULL
      /\ old \in Block
  BY VectorGood DEF Pop, Good
<1>2. s.size = old.size - 1 /\ s.cells = old.cells
  BY <1>1 DEF Block
<1>3. mem' = [mem EXCEPT ![vec[v]] = s]
  BY DEF Pop, IInv, Sound
<1>4. OthersKept(v) /\ mem'[vec'[v]] = s /\ vec'[v] # NULL
  BY <1>1, <1>3, VectorGood, WriteOthers DEF Pop, IInv, Sound
<1>5. old.size - 1 \in 0 .. old.size
  BY <1>1
<1> HIDE DEF s, old
<1>6. /\ Elements' = [Elements EXCEPT ![v] = SubSeq(@, 1, old.size - 1)]
      /\ Len(Elements[v]) = old.size
  BY <1>1, <1>2, <1>4, <1>5, CutSequence DEF old
<1>7. Elements[v] # <<>>
  BY <1>1, <1>6
<1>8. QED
  BY <1>6, <1>7 DEF Sequence!Pop, Sequence!Front, Front

LEMMA ClearCuts ==
  ASSUME IInv, NEW v \in Vectors, Clear(v)
  PROVE  Sequence!Cut(v, 0)
<1> DEFINE old == mem[vec[v]]
           s   == [old EXCEPT !.size = 0]
<1>1. Good(old) /\ old.size \in Nat /\ vec[v] # NULL /\ old \in Block
  BY VectorGood DEF Clear, Good
<1>2. s.size = 0 /\ s.cells = old.cells
  BY <1>1 DEF Block
<1>3. mem' = [mem EXCEPT ![vec[v]] = s]
  BY DEF Clear, IInv, Sound
<1>4. OthersKept(v) /\ mem'[vec'[v]] = s /\ vec'[v] # NULL
  BY <1>1, <1>3, VectorGood, WriteOthers DEF Clear, IInv, Sound
<1> HIDE DEF s, old
<1>5. /\ Elements' = [Elements EXCEPT ![v] = SubSeq(@, 1, 0)]
      /\ Len(Elements[v]) = old.size
  BY <1>1, <1>2, <1>4, CutSequence DEF old
<1>6. QED
  BY <1>1, <1>5 DEF Sequence!Cut

LEMMA ReserveCuts ==
  ASSUME CapacitiesFit, IInv, NEW v \in Vectors, NEW c \in Reservations,
         Reserve(v, c)
  PROVE  IF c < Len(Elements[v]) THEN Sequence!Cut(v, c) ELSE UNCHANGED Elements
<1> DEFINE old  == mem[vec[v]]
           size == MIN(old.size, c)
           s    == Copy(vec[v], c, size)
<1>1. vec[v] # NULL
  BY DEF Reserve
<1>2. PICK b \in Blocks : Granted(b, c) /\ Move(v, b, s)
  BY DEF Reserve
<1>3. c \in Nat /\ c * ElemSize + HeaderSize <= SIZE_MAX
  BY VectorAssumption DEF CapacitiesFit
<1>4. /\ old.size \in Nat /\ size \in 0 .. old.size /\ size <= c
      /\ (size = old.size /\ c >= old.size) \/ (size = c /\ c < old.size)
  BY <1>1, <1>3, VectorGood DEF MIN
<1> HIDE DEF size
<1>5. s.size = size /\ \A i \in 1 .. size : s.cells[i] = old.cells[i]
  BY <1>1, <1>2, <1>3, <1>4, GrantedCopyGood
<1> HIDE DEF s
<1>6. OthersKept(v) /\ mem'[vec'[v]] = s /\ vec'[v] # NULL
  BY <1>1, <1>2, MoveOthers, NullAssumption DEF Granted
<1>7. /\ Elements' = [Elements EXCEPT ![v] = SubSeq(@, 1, size)]
      /\ Len(Elements[v]) = old.size
  BY <1>1, <1>4, <1>5, <1>6, CutSequence
<1>8. CASE size = old.size /\ c >= old.size
  <2>1. Elements[v] \in Seq(Values)
    BY <1>1, VectorGood, WrittenSeq, ElementsOf
  <2>2. SubSeq(Elements[v], 1, Len(Elements[v])) = Elements[v]
    BY <2>1, SubSeqFull
  <2>3. Elements = [u \in Vectors |-> Elements[u]]
    BY DEF Elements
  <2>4. ~ c < Len(Elements[v])
    BY <1>3, <1>4, <1>7, <1>8
  <2> HIDE DEF Elements
  <2>5. Elements' = Elements
    BY <1>7, <1>8, <2>2, <2>3
  <2>6. QED
    BY <2>4, <2>5
<1>9. CASE size = c /\ c < old.size
  BY <1>3, <1>4, <1>7, <1>9 DEF Sequence!Cut
<1>10. QED
  BY <1>4, <1>8, <1>9

LEMMA CtorStutters ==
  ASSUME CapacitiesFit, IInv, NEW v \in Vectors, Ctor(v)
  PROVE  Elements' = Elements
<1> DEFINE c == CMLIB_VEC_DEFAULT_CAPACITY
<1>1. PICK b \in Blocks :
        /\ Granted(b, c)
        /\ mem' = [mem EXCEPT ![b] = Fresh(c)]
        /\ vec' = [vec EXCEPT ![v] = b]
  BY DEF Ctor
<1>2. OthersKept(v)
  BY <1>1, PlaceOthers DEF Granted
<1>3. vec[v] = NULL /\ vec'[v] # NULL /\ mem'[vec'[v]] = Fresh(c)
  BY <1>1, NullAssumption DEF Ctor, IInv, Sound
<1>4. Fresh(c).size = 0
  BY DEF Fresh, NewBlock
<1>5. Written(Fresh(c)) = <<>>
  BY <1>4 DEF Written
<1>6. Elements'[v] = Elements[v]
  BY <1>3, <1>5, ElementsOf
<1>7. Elements' = [Elements EXCEPT ![v] = Elements[v]]
  BY <1>2, <1>6, OneSequence
<1>8. Elements = [u \in Vectors |-> Elements[u]]
  BY DEF Elements
<1> HIDE DEF Elements
<1>9. QED
  BY <1>7, <1>8

LEMMA DtorCuts ==
  ASSUME IInv, NEW v \in Vectors, Dtor(v)
  PROVE  Sequence!Cut(v, 0)
<1>1. OthersKept(v) /\ vec[v] # NULL /\ vec'[v] = NULL
  BY ReleaseOthers DEF Dtor, IInv, Sound
<1>2. Elements[v] \in Seq(Values) /\ Elements'[v] = <<>>
  BY <1>1, VectorGood, WrittenSeq, ElementsOf
<1>3. SubSeq(Elements[v], 1, 0) = <<>> /\ 0 <= Len(Elements[v])
  BY <1>2, SubSeqEmpty
<1>4. Elements' = [Elements EXCEPT ![v] = <<>>]
  BY <1>1, <1>2, OneSequence
<1>5. QED
  BY <1>3, <1>4 DEF Sequence!Cut

(* Every operation does to its sequence what it is for. *)
LEMMA Meant ==
  ASSUME CapacitiesFit, IInv, NEW v \in Vectors
  PROVE  Means(v)
BY AddInPlaceAdds, AddGrowingAdds, PopPops, ClearCuts, DtorCuts, CtorStutters, ReserveCuts
   DEF Means

(* Every step is a step of the abstract sequences, or none of theirs. *)
LEMMA NextImplements ==
  ASSUME CapacitiesFit, IInv, [Next]_vars
  PROVE  [Sequence!Next]_Elements
<1>1. CASE UNCHANGED <<mem, vec>>
  BY <1>1, SameSequences
<1>2. ASSUME NEW v \in Vectors, Ctor(v) PROVE [Sequence!Next]_Elements
  BY <1>2, CtorStutters
<1>3. ASSUME NEW v \in Vectors, Dtor(v) \/ Clear(v)
      PROVE  [Sequence!Next]_Elements
  BY <1>3, DtorCuts, ClearCuts DEF Sequence!Next
<1>4. ASSUME NEW v \in Vectors, NEW x \in Values,
             AddInPlace(v, x) \/ AddGrowing(v, x)
      PROVE  [Sequence!Next]_Elements
  BY <1>4, AddInPlaceAdds, AddGrowingAdds DEF Sequence!Next
<1>5. ASSUME NEW v \in Vectors, Pop(v) PROVE [Sequence!Next]_Elements
  BY <1>5, PopPops DEF Sequence!Next
<1>6. ASSUME NEW v \in Vectors, NEW c \in Reservations, Reserve(v, c)
      PROVE  [Sequence!Next]_Elements
  BY <1>6, ReserveCuts DEF Sequence!Next
<1>7. CASE UNCHANGED vars
  BY <1>1, <1>7 DEF vars
<1>8. ASSUME NEW v \in Vectors,
             AddNoMemory(v) \/ ReserveNoMemory(v) \/ Begin(v)
      PROVE  [Sequence!Next]_Elements
  BY <1>1, <1>7, <1>8 DEF AddNoMemory, ReserveNoMemory, Begin
<1>9. CASE Step \/ End
  BY <1>1, <1>9 DEF Step, End
<1>10. QED
  BY <1>2, <1>3, <1>4, <1>5, <1>6, <1>7, <1>8, <1>9 DEF Next

(* Vectors that share a resource behave as sequences of values: the code's *)
(* additions, growths and reservations lose, invent and reorder nothing,   *)
(* and what each does to its sequence is what it is for.                   *)
THEOREM Refinement ==
  ASSUME CapacitiesFit
  PROVE  Spec => ImplementsSequence
<1>1. Init => Sequence!Init
  BY DEF Init, Sequence!Init, Elements
<1>2. IInv /\ [Next]_vars => [Sequence!Next]_Elements
  BY NextImplements
<1>3. IInv => \A v \in Vectors : Means(v)
  BY Meant
<1>4. Spec => Sequence!Spec
  BY <1>1, <1>2, Invariance, PTL DEF Spec, Sequence!Spec
<1>5. Spec => [][\A v \in Vectors : Means(v)]_vars
  BY <1>3, Invariance, PTL DEF Spec
<1>6. QED
  BY <1>4, <1>5 DEF ImplementsSequence

-----------------------------------------------------------------------------
(* When a vector moves.                                                    *)

(* v has more elements after the step. *)
Grows(v) ==
  /\ vec[v] # NULL
  /\ vec'[v] # NULL
  /\ mem'[vec'[v]].size > mem[vec[v]].size

LEMMA GrowsAlone ==
  ASSUME IInv, NEW u \in Vectors, NEW v \in Vectors, OthersKept(u), Grows(v)
  PROVE  u = v
BY VectorGood DEF OthersKept, Grows

(* A vector written where it is grows only when its element is added. *)
LEMMA AddInPlaceMoves ==
  ASSUME IInv, NEW u \in Vectors, NEW v \in Vectors, NEW x \in Values,
         AddInPlace(u, x), Grows(v)
  PROVE  vec'[v] = vec[v] /\ mem[vec[v]].size < mem[vec[v]].capacity
<1>1. OthersKept(u)
  BY WriteOthers DEF AddInPlace, IInv, Sound
<1>2. u = v
  BY <1>1, GrowsAlone
<1>3. QED
  BY <1>2, VectorGood DEF AddInPlace, Full

LEMMA AddGrowingMoves ==
  ASSUME IInv, NEW u \in Vectors, NEW v \in Vectors, NEW x \in Values,
         AddGrowing(u, x), Grows(v)
  PROVE  vec'[v] # vec[v] /\ ~(mem[vec[v]].size < mem[vec[v]].capacity)
<1> DEFINE old == mem[vec[u]]
           c   == SizeT(old.capacity * 2)
           s   == Put(Copy(vec[u], c, old.size), x)
<1>1. vec[u] # NULL /\ Full(vec[u])
  BY DEF AddGrowing
<1>2. PICK b \in Blocks : Granted(b, c) /\ Move(u, b, s)
  BY DEF AddGrowing
<1> HIDE DEF s, c
<1>3. OthersKept(u) /\ vec'[u] # vec[u]
  BY <1>1, <1>2, MoveOthers DEF Granted
<1>4. u = v
  BY <1>3, GrowsAlone
<1>5. QED
  BY <1>1, <1>3, <1>4, VectorGood DEF Full

(* What cuts a vector makes none grow. *)
LEMMA CutGrowsNone ==
  ASSUME IInv, NEW u \in Vectors, NEW v \in Vectors, OthersKept(u),
         mem'[vec'[u]].size \in 0 .. mem[vec[u]].size
  PROVE  ~Grows(v)
<1> SUFFICES ASSUME Grows(v) PROVE FALSE
  OBVIOUS
<1>1. u = v
  BY GrowsAlone
<1>2. QED
  BY <1>1, VectorGood DEF Grows

LEMMA PopGrowsNone ==
  ASSUME IInv, NEW u \in Vectors, NEW v \in Vectors, Pop(u) \/ Clear(u)
  PROVE  ~Grows(v)
<1> DEFINE old == mem[vec[u]]
<1>1. /\ vec[u] # NULL /\ old \in Block /\ old.size \in Nat
      /\ vec[u] \in Blocks
  BY VectorGood DEF Pop, Clear, Good
<1>2. PICK n \in 0 .. old.size :
        mem' = [mem EXCEPT ![vec[u]] = [old EXCEPT !.size = n]]
  <2>1. CASE Pop(u)
    <3>1. old.size - 1 \in 0 .. old.size
      BY <1>1, <2>1 DEF Pop
    <3>2. mem' = [mem EXCEPT ![vec[u]] = [old EXCEPT !.size = old.size - 1]]
      BY <2>1 DEF Pop, IInv, Sound
    <3> HIDE DEF old
    <3>3. QED
      BY <3>1, <3>2
  <2>2. CASE Clear(u)
    <3>1. mem' = [mem EXCEPT ![vec[u]] = [old EXCEPT !.size = 0]]
      BY <2>2 DEF Clear, IInv, Sound
    <3>2. 0 \in 0 .. old.size
      BY <1>1
    <3> HIDE DEF old
    <3>3. QED
      BY <3>1, <3>2
  <2>3. QED
    BY <2>1, <2>2
<1>3. OthersKept(u) /\ vec' = vec
  BY <1>1, <1>2, WriteOthers DEF Pop, Clear
<1>4. mem'[vec[u]].size = n
  <2>1. mem'[vec[u]] = [old EXCEPT !.size = n]
    BY <1>1, <1>2 DEF IInv, Sound
  <2>2. QED
    BY <1>1, <2>1 DEF Block
<1>5. QED
  BY <1>3, <1>4, CutGrowsNone

LEMMA ReserveGrowsNone ==
  ASSUME CapacitiesFit, IInv, NEW u \in Vectors, NEW v \in Vectors,
         NEW c \in Reservations, Reserve(u, c)
  PROVE  ~Grows(v)
<1> DEFINE size == MIN(mem[vec[u]].size, c)
           s    == Copy(vec[u], c, size)
<1>1. vec[u] # NULL
  BY DEF Reserve
<1>2. PICK b \in Blocks : Granted(b, c) /\ Move(u, b, s)
  BY DEF Reserve
<1>3. size \in 0 .. mem[vec[u]].size
  BY <1>1, VectorGood, VectorAssumption DEF MIN
<1>4. s.size = size
  BY DEF Copy, NewBlock
<1> HIDE DEF s, size
<1>5. OthersKept(u) /\ mem'[vec'[u]] = s
  BY <1>1, <1>2, MoveOthers DEF Granted
<1>6. QED
  BY <1>3, <1>4, <1>5, CutGrowsNone

LEMMA CtorGrowsNone ==
  ASSUME IInv, NEW u \in Vectors, NEW v \in Vectors, Ctor(u) \/ Dtor(u)
  PROVE  ~Grows(v)
<1>1. OthersKept(u)
  BY PlaceOthers, ReleaseOthers DEF Ctor, Granted
<1>2. vec[u] = NULL \/ vec'[u] = NULL
  BY DEF Ctor, Dtor, IInv, Sound
<1>3. QED
  BY <1>1, <1>2, GrowsAlone DEF Grows

(* Adding an element moves a vector only when it is full, so that pointers *)
(* to elements stay valid while there is room (vec_add).                   *)
THEOREM MovesOnlyWhenFullAlways ==
  ASSUME CapacitiesFit
  PROVE  Spec => MovesOnlyWhenFull
<1> DEFINE Stays(v) ==
      vec'[v] = vec[v] <=> mem[vec[v]].size < mem[vec[v]].capacity
<1>1. ASSUME IInv, [Next]_vars, NEW v \in Vectors, Grows(v)
      PROVE  Stays(v)
  <2>1. CASE UNCHANGED <<mem, vec>>
    BY <1>1, <2>1, VectorGood DEF Grows
  <2>2. ASSUME NEW u \in Vectors, NEW x \in Values,
               AddInPlace(u, x) \/ AddGrowing(u, x)
        PROVE  Stays(v)
    BY <1>1, <2>2, AddInPlaceMoves, AddGrowingMoves
  <2>3. ASSUME NEW u \in Vectors,
               Ctor(u) \/ Dtor(u) \/ Pop(u) \/ Clear(u)
        PROVE  Stays(v)
    BY <1>1, <2>3, CtorGrowsNone, PopGrowsNone
  <2>4. ASSUME NEW u \in Vectors, NEW c \in Reservations, Reserve(u, c)
        PROVE  Stays(v)
    BY <1>1, <2>4, ReserveGrowsNone
  <2>5. CASE UNCHANGED vars
    BY <2>1, <2>5 DEF vars
  <2>6. ASSUME NEW u \in Vectors,
               AddNoMemory(u) \/ ReserveNoMemory(u) \/ Begin(u)
        PROVE  Stays(v)
    BY <2>1, <2>5, <2>6 DEF AddNoMemory, ReserveNoMemory, Begin
  <2>7. CASE Step \/ End
    BY <2>1, <2>7 DEF Step, End
  <2>8. QED
    BY <1>1, <2>2, <2>3, <2>4, <2>5, <2>6, <2>7 DEF Next
<1>2. IInv /\ [Next]_vars => \A v \in Vectors : Grows(v) => Stays(v)
  BY <1>1
<1>3. IInv /\ [Next]_vars =>
        \A v \in Vectors :
          (/\ vec[v] # NULL /\ vec'[v] # NULL
           /\ mem'[vec'[v]].size > mem[vec[v]].size)
            => (vec'[v] = vec[v] <=> mem[vec[v]].size < mem[vec[v]].capacity)
  BY <1>2 DEF Grows
<1>4. QED
  BY <1>3, Invariance, PTL DEF Spec, MovesOnlyWhenFull
=============================================================================
