---------------------------- MODULE ArenaProofs -----------------------------
(***************************************************************************)
(* Theorems about Arena, for every capacity and request that stays inside  *)
(* the address space wherever malloc places the arena.  Without that       *)
(* assumption they are false: the run ArenaWrap has the counterexample.    *)
(***************************************************************************)
EXTENDS Arena, TLAPS

(* The macro's word and its arguments are of no concern to the lemmas.     *)
LOCAL Arithmetic ==
  INSTANCE AlignProofs WITH WordBits <- 1, value <- 0, alignment <- 0

(* What AlignProofs shows of AlignUp.                                      *)
LEMMA AlignUpBounds ==
  ASSUME NEW v \in Nat, NEW a \in Nat \ {0}
  PROVE  AlignUp(v, a) \in v .. v + a - 1
<1>1. Arithmetic!AlignUp(v, a) = AlignUp(v, a)
  BY DEF AlignUp, Arithmetic!AlignUp
<1>2. QED
  BY <1>1, Arithmetic!AlignUpBounds

LEMMA AlignUpAligned ==
  ASSUME NEW v \in Nat, NEW a \in Nat \ {0}
  PROVE  AlignUp(v, a) % a = 0
<1>1. Arithmetic!AlignUp(v, a) = AlignUp(v, a)
  BY DEF AlignUp, Arithmetic!AlignUp
<1>2. QED
  BY <1>1, Arithmetic!AlignUpAligned

(* No end of a buffer, and no end of an aligned request made at the end of *)
(* a buffer, lies behind the address space.                                *)
NothingWraps ==
  \A base \in Bases, capacity \in Capacities :
    /\ base + ArenaSize + capacity <= SIZE_MAX
    /\ \A q \in Requests :
         base + ArenaSize + capacity + q[1] + q[2] <= SIZE_MAX

(* The arena in the chunk malloc placed at base. *)
Living(base, capacity) ==
  /\ heap = {[base |-> base, len |-> ArenaSize + capacity]}
  /\ arena \in Pointers
  /\ arena.buffer = base + ArenaSize
  /\ arena.end = base + ArenaSize + capacity
  /\ arena.buffer <= arena.current /\ arena.current <= arena.end

(* What is handed out lies between the buffer and the mark, in pieces that *)
(* share no byte.                                                          *)
Handed(hnd, from, to) ==
  /\ \A r \in hnd : /\ r \in Contract!Region
                    /\ from <= r.ptr /\ r.ptr + r.len <= to
  /\ \A r, s \in hnd : r # s => Contract!Apart(r, s)

(* The inductive invariant: no arena, or a living one.                     *)
IInv ==
  \/ arena = NULL /\ heap = {} /\ handed = {}
  \/ /\ \E base \in Bases, capacity \in Capacities : Living(base, capacity)
     /\ Handed(handed, arena.buffer, arena.current)

-----------------------------------------------------------------------------
(* An arena in memory is not the NULL pointer. *)
LEMMA LivingNotNull ==
  ASSUME NEW base \in Bases, NEW capacity \in Capacities, Living(base, capacity)
  PROVE  arena # NULL
<1>1. base \in Nat /\ arena.buffer = base + 24
  BY HeapAssumption DEF Living, ArenaSize
<1>2. arena.buffer # 0
  BY <1>1
<1>3. QED
  BY <1>2 DEF NULL

(* arena_ctor lays out a living arena. *)
LEMMA CtorSound ==
  ASSUME NothingWraps, IInv, NEW capacity \in Capacities, Ctor(capacity)
  PROVE  IInv'
<1>1. PICK base \in Bases :
        /\ heap' = Malloc(heap, base, AllocSize(capacity))
        /\ arena' = NewArena(base, capacity)
  BY DEF Ctor
<1>2. arena = NULL /\ heap = {} /\ handed' = {}
  BY LivingNotNull DEF Ctor, IInv
<1>3. /\ base \in Nat /\ capacity \in Nat
      /\ base + 24 + capacity <= SIZE_MAX /\ 24 + capacity <= SIZE_MAX
  BY HeapAssumption, ArenaAssumption DEF NothingWraps, ArenaSize
<1>4. /\ AllocSize(capacity) = 24 + capacity
      /\ NewArena(base, capacity) = [buffer  |-> base + 24,
                                     current |-> base + 24,
                                     end     |-> base + 24 + capacity]
  BY <1>3 DEF AllocSize, NewArena, SizeT, ArenaSize
<1>5. Living(base, capacity)'
  BY <1>1, <1>2, <1>3, <1>4 DEF Living, Malloc, Pointers, ArenaSize
<1>6. Handed(handed', arena'.buffer, arena'.current)
  BY <1>2 DEF Handed
<1>7. QED
  BY <1>5, <1>6 DEF IInv

(* Where a request that fits is put, and the mark behind it. *)
LEMMA PlaceBounds ==
  ASSUME NothingWraps, NEW base \in Bases, NEW capacity \in Capacities,
         Living(base, capacity), NEW q \in Requests, q[2] # 0
  PROVE  /\ Place(q[2]) \in Nat /\ arena.current <= Place(q[2])
         /\ Place(q[2]) % q[2] = 0
         /\ Mark(q[1], q[2]) = Place(q[2]) + q[1]
<1>1. /\ base \in Nat /\ capacity \in Nat /\ SIZE_MAX \in Nat
      /\ q[1] \in Nat /\ q[2] \in Nat \ {0}
      /\ base + 24 + capacity + q[1] + q[2] <= SIZE_MAX
  BY HeapAssumption, ArenaAssumption DEF NothingWraps, ArenaSize
<1>2. arena.current \in Nat /\ arena.current <= base + 24 + capacity
  BY DEF Living, Pointers, ArenaSize
<1> DEFINE up == AlignUp(arena.current, q[2])
<1>3. up \in arena.current .. arena.current + q[2] - 1
  BY <1>1, <1>2, AlignUpBounds
<1>4. up % q[2] = 0
  BY <1>1, <1>2, AlignUpAligned
<1>5. Place(q[2]) = SizeT(up)
  BY DEF Place, AlignPtr
<1> HIDE DEF up
<1>6. up \in Nat /\ up + q[1] <= SIZE_MAX /\ up <= SIZE_MAX
  BY <1>1, <1>2, <1>3
<1>7. Place(q[2]) = up
  BY <1>5, <1>6 DEF SizeT
<1>8. Mark(q[1], q[2]) = up + q[1]
  BY <1>6, <1>7 DEF Mark, SizeT
<1>9. QED
  BY <1>2, <1>3, <1>4, <1>6, <1>7, <1>8

(* arena_allocate: the new piece lies behind all others.                   *)
LEMMA AllocateFresh ==
  ASSUME NothingWraps, IInv, NEW q \in Requests, Allocate(q[1], q[2])
  PROVE  LET r == [ptr |-> Place(q[2]), len |-> q[1]]
         IN  /\ r \in Contract!Region
             /\ r.ptr % q[2] = 0
             /\ arena.current <= r.ptr
             /\ arena'.current = r.ptr + r.len
             /\ arena'.current <= arena.end
             /\ \A s \in handed : Contract!Apart(r, s) /\ Contract!Apart(s, r)
             /\ r \notin handed
<1> DEFINE r == [ptr |-> Place(q[2]), len |-> q[1]]
<1>1. PICK base \in Bases, capacity \in Capacities : Living(base, capacity)
  BY DEF IInv, Allocate
<1>2. Handed(handed, arena.buffer, arena.current)
  BY DEF IInv, Allocate
<1>3. /\ q[1] \in Nat \ {0} /\ q[2] \in Nat \ {0}
  BY ArenaAssumption DEF Allocate, Valid
<1>4. /\ Place(q[2]) \in Nat /\ arena.current <= Place(q[2])
      /\ Place(q[2]) % q[2] = 0
      /\ Mark(q[1], q[2]) = Place(q[2]) + q[1]
  BY <1>1, <1>3, PlaceBounds
<1>5. arena.current \in Nat /\ arena.current > 0
  BY <1>1, HeapAssumption DEF Living, Pointers, ArenaSize
<1>6. /\ r.ptr = Place(q[2]) /\ r.len = q[1]
      /\ r \in Contract!Region
  BY <1>3, <1>4, <1>5 DEF Contract!Region
<1>7. arena'.current = r.ptr + r.len /\ arena'.current <= arena.end
  BY <1>1, <1>4, <1>6 DEF Allocate, Fits, Mark, Living, Pointers
<1> HIDE DEF r
<1>8. ASSUME NEW s \in handed
      PROVE  Contract!Apart(r, s) /\ Contract!Apart(s, r) /\ r # s
  <2>1. s.ptr \in Nat /\ s.len \in Nat \ {0} /\ s.ptr + s.len <= arena.current
    BY <1>2 DEF Handed, Contract!Region
  <2>2. r.ptr \in Nat /\ s.ptr + s.len <= r.ptr
    BY <1>4, <1>5, <1>6, <2>1
  <2>3. r.ptr # s.ptr
    BY <2>1, <2>2
  <2>4. QED
    BY <2>2, <2>3 DEF Contract!Apart
<1>9. QED
  BY <1>3, <1>4, <1>6, <1>7, <1>8 DEF r

(* So arena_allocate keeps the invariant.                                  *)
LEMMA AllocateSound ==
  ASSUME NothingWraps, IInv, NEW q \in Requests, Allocate(q[1], q[2])
  PROVE  IInv'
<1> DEFINE r == [ptr |-> Place(q[2]), len |-> q[1]]
<1>1. PICK base \in Bases, capacity \in Capacities : Living(base, capacity)
  BY DEF IInv, Allocate
<1>2. Handed(handed, arena.buffer, arena.current)
  BY DEF IInv, Allocate
<1>3. /\ r \in Contract!Region
      /\ arena.current <= r.ptr
      /\ arena'.current = r.ptr + r.len /\ arena'.current <= arena.end
      /\ \A s \in handed : Contract!Apart(r, s) /\ Contract!Apart(s, r)
  BY AllocateFresh
<1>4. /\ heap' = heap /\ handed' = handed \cup {r}
      /\ arena \in Pointers
      /\ arena' = [arena EXCEPT !.current = Mark(q[1], q[2])]
  BY <1>1 DEF Allocate, Living
<1> HIDE DEF r
<1>5. /\ r.ptr \in Nat /\ r.len \in Nat /\ arena.current \in Nat
      /\ arena.buffer \in Nat /\ arena.end \in Nat
      /\ arena.buffer <= arena.current
  BY <1>1, <1>3 DEF Contract!Region, Living, Pointers
<1>6. /\ arena'.current \in Nat /\ arena.current <= arena'.current
      /\ arena'.buffer = arena.buffer /\ arena'.end = arena.end
  BY <1>3, <1>4, <1>5 DEF Pointers
<1>7. arena' \in Pointers
  BY <1>4, <1>6 DEF Pointers
<1>8. Living(base, capacity)'
  BY <1>1, <1>3, <1>4, <1>5, <1>6, <1>7 DEF Living
<1>9. Handed(handed', arena'.buffer, arena'.current)
  <2>1. ASSUME NEW s \in handed'
        PROVE  /\ s \in Contract!Region
               /\ arena.buffer <= s.ptr /\ s.ptr + s.len <= arena'.current
    <3>1. CASE s = r
      BY <3>1, <1>3, <1>5, <1>6
    <3>2. CASE s \in handed
      <4>1. /\ s \in Contract!Region
            /\ arena.buffer <= s.ptr /\ s.ptr + s.len <= arena.current
        BY <3>2, <1>2 DEF Handed
      <4>2. s.ptr + s.len \in Nat
        BY <4>1 DEF Contract!Region
      <4>3. QED
        BY <4>1, <4>2, <1>5, <1>6
    <3>3. QED
      BY <3>1, <3>2, <1>4
  <2>2. \A s, t \in handed' : s # t => Contract!Apart(s, t)
    BY <1>2, <1>3, <1>4 DEF Handed
  <2>3. QED
    BY <2>1, <2>2, <1>6 DEF Handed
<1>10. QED
  BY <1>8, <1>9 DEF IInv

(* arena_flush: nothing is handed out any more, so the mark may go back.   *)
LEMMA FlushSound ==
  ASSUME IInv, Flush
  PROVE  IInv'
<1>1. PICK base \in Bases, capacity \in Capacities : Living(base, capacity)
  BY DEF IInv, Flush
<1>2. /\ heap' = heap /\ handed' = {}
      /\ arena' = [arena EXCEPT !.current = arena.buffer]
  BY DEF Flush
<1>3. /\ arena \in Pointers /\ arena.buffer \in Nat /\ arena.current \in Nat
      /\ arena.end \in Nat
      /\ arena.buffer <= arena.current /\ arena.current <= arena.end
  BY <1>1 DEF Living, Pointers
<1>4. /\ arena' \in Pointers
      /\ arena'.buffer = arena.buffer /\ arena'.end = arena.end
      /\ arena'.current = arena.buffer /\ arena.buffer <= arena.end
  BY <1>2, <1>3 DEF Pointers
<1>5. Living(base, capacity)'
  BY <1>1, <1>2, <1>3, <1>4 DEF Living
<1>6. Handed(handed', arena'.buffer, arena'.current)
  BY <1>2 DEF Handed
<1>7. QED
  BY <1>5, <1>6 DEF IInv

(* arena_dtor frees the one chunk, by the address malloc gave it.          *)
LEMMA DtorSound ==
  ASSUME IInv, Dtor
  PROVE  IInv'
<1>1. PICK base \in Bases, capacity \in Capacities : Living(base, capacity)
  BY DEF IInv, Dtor
<1>2. base \in Nat /\ arena.buffer - ArenaSize = base
  BY <1>1, HeapAssumption DEF Living, ArenaSize
<1>3. heap' = {}
  BY <1>1, <1>2 DEF Dtor, FreeAll, Living
<1>4. QED
  BY <1>3 DEF Dtor, IInv

(* The inductive invariant: while nothing wraps, what is handed out lies   *)
(* in pieces between the buffer and the mark.                              *)
THEOREM Invariance ==
  ASSUME NothingWraps
  PROVE  Spec => []IInv
<1>1. Init => IInv
  BY DEF Init, IInv
<1>2. IInv /\ [Next]_vars => IInv'
  <2> SUFFICES ASSUME IInv, [Next]_vars PROVE IInv'
    OBVIOUS
  <2>1. ASSUME NEW capacity \in Capacities, Ctor(capacity) PROVE IInv'
    BY <2>1, CtorSound
  <2>2. ASSUME NEW q \in Requests, Allocate(q[1], q[2]) PROVE IInv'
    BY <2>2, AllocateSound
  <2>3. ASSUME NEW q \in Requests, AllocateNull(q[1], q[2]) PROVE IInv'
    BY <2>3 DEF AllocateNull, vars, IInv, Living
  <2>4. ASSUME NEW r \in handed, Deallocate(r) PROVE IInv'
    BY <2>4 DEF Deallocate, IInv, Living, Handed
  <2>5. CASE Flush
    BY <2>5, FlushSound
  <2>6. CASE Dtor
    BY <2>6, DtorSound
  <2>7. CASE UNCHANGED vars
    BY <2>7 DEF vars, IInv, Living
  <2>8. QED
    BY <2>1, <2>2, <2>3, <2>4, <2>5, <2>6, <2>7 DEF Next
<1>3. QED
  BY <1>1, <1>2, PTL DEF Spec

-----------------------------------------------------------------------------
(* What the invariant gives: the properties of Arena that TLC checks.      *)

(* Every variable keeps its type, and the mark stays in the buffer.        *)
THEOREM TypeCorrectness ==
  ASSUME NothingWraps
  PROVE  Spec => []TypeOK
<1>1. ASSUME IInv PROVE TypeOK
  <2>1. CASE arena = NULL /\ heap = {} /\ handed = {}
    BY <2>1 DEF TypeOK, NULL, Pointers
  <2>2. CASE /\ \E base \in Bases, capacity \in Capacities : Living(base, capacity)
             /\ Handed(handed, arena.buffer, arena.current)
    <3>1. PICK base \in Bases, capacity \in Capacities : Living(base, capacity)
      BY <2>2
    <3>2. base \in Nat /\ capacity \in Nat
      BY HeapAssumption, ArenaAssumption
    <3>3. heap \subseteq Chunk
      BY <3>1, <3>2 DEF Living, Chunk, ArenaSize
    <3>4. /\ arena \in Pointers
          /\ arena.current \in arena.buffer .. arena.end
      BY <3>1 DEF Living, Pointers
    <3>5. handed \subseteq Allocation
      BY <2>2 DEF Handed, Contract!Region, Allocation
    <3>6. QED
      BY <3>3, <3>4, <3>5 DEF TypeOK
  <2>3. QED
    BY <1>1, <2>1, <2>2 DEF IInv
<1>2. IInv => TypeOK
  BY <1>1
<1>3. QED
  BY <1>2, Invariance, PTL

(* No caller writes into the Arena, into memory another caller is given    *)
(* later, or behind the chunk.                                             *)
THEOREM HandedBelowMarkAlways ==
  ASSUME NothingWraps
  PROVE  Spec => []HandedBelowMark
<1>1. ASSUME IInv, NEW r \in handed
      PROVE  /\ arena.buffer <= r.ptr
             /\ r.ptr + r.len <= arena.current
             /\ \E c \in heap : c.base + ArenaSize = arena.buffer
                                /\ arena.current <= c.base + c.len
  <2>1. PICK base \in Bases, capacity \in Capacities : Living(base, capacity)
    BY <1>1 DEF IInv
  <2>2. Handed(handed, arena.buffer, arena.current)
    BY <1>1 DEF IInv
  <2>3. base \in Nat /\ capacity \in Nat
    BY HeapAssumption, ArenaAssumption
  <2> DEFINE c == [base |-> base, len |-> ArenaSize + capacity]
  <2>4. c \in heap /\ c.base + ArenaSize = arena.buffer
        /\ arena.current <= c.base + c.len
    BY <2>1, <2>3 DEF Living, ArenaSize
  <2>5. QED
    BY <2>2, <2>4 DEF Handed
<1>2. IInv => HandedBelowMark
  BY <1>1 DEF HandedBelowMark
<1>3. QED
  BY <1>2, Invariance, PTL

(* Destruction, and nothing else, gives the chunk back to malloc.          *)
THEOREM NoLeakAlways ==
  ASSUME NothingWraps
  PROVE  Spec => []NoLeak
<1>1. ASSUME IInv, arena # NULL
      PROVE  \E c \in heap : heap = {c} /\ c.base = arena.buffer - ArenaSize
  <2>1. PICK base \in Bases, capacity \in Capacities : Living(base, capacity)
    BY <1>1 DEF IInv
  <2>2. base \in Nat
    BY HeapAssumption
  <2> DEFINE c == [base |-> base, len |-> ArenaSize + capacity]
  <2>3. c.base = arena.buffer - ArenaSize /\ heap = {c}
    BY <2>1, <2>2 DEF Living, ArenaSize
  <2>4. QED
    BY <2>3
<1>2. IInv /\ arena = NULL => heap = {}
  BY LivingNotNull DEF IInv
<1>3. IInv => NoLeak
  BY <1>1, <1>2 DEF NoLeak
<1>4. QED
  BY <1>3, Invariance, PTL

(* Memory behind the mark is not taken back while a caller uses any.       *)
THEOREM MarkMovesBackOnlyWhenUnusedAlways ==
  ASSUME NothingWraps
  PROVE  Spec => MarkMovesBackOnlyWhenUnused
<1>1. ASSUME IInv, [Next]_vars, arena'.current < arena.current
      PROVE  handed' = {}
  <2>1. arena.current \in Nat
    BY <1>1 DEF IInv, NULL, Living, Pointers
  <2>2. ASSUME NEW capacity \in Capacities, Ctor(capacity) PROVE handed' = {}
    BY <1>1, <2>2, LivingNotNull DEF Ctor, IInv
  <2>3. ASSUME NEW q \in Requests, Allocate(q[1], q[2]) PROVE FALSE
    <3> DEFINE r == [ptr |-> Place(q[2]), len |-> q[1]]
    <3>1. /\ r \in Contract!Region
          /\ arena.current <= r.ptr
          /\ arena'.current = r.ptr + r.len
      BY <1>1, <2>3, AllocateFresh
    <3>2. r.ptr \in Nat /\ r.len \in Nat
      BY <3>1 DEF Contract!Region
    <3> HIDE DEF r
    <3>3. QED
      BY <1>1, <2>1, <3>1, <3>2
  <2>4. UNCHANGED arena => FALSE
    BY <1>1, <2>1
  <2>5. QED
    BY <1>1, <2>2, <2>3, <2>4
       DEF Next, AllocateNull, Deallocate, Flush, Dtor, vars
<1>2. IInv /\ [Next]_vars => [arena'.current < arena.current => handed' = {}]_vars
  BY <1>1
<1>3. QED
  BY <1>2, Invariance, PTL DEF Spec, MarkMovesBackOnlyWhenUnused

(* What an arena hands out is as large and as aligned as asked, and shares *)
(* no byte with anything else in use until the arena is flushed.           *)
THEOREM Refinement ==
  ASSUME NothingWraps
  PROVE  Spec => ImplementsContract
<1>1. Init => Contract!Init
  BY DEF Init, Contract!Init
<1>2. IInv /\ [Next]_vars => [Contract!Next]_handed
  <2> SUFFICES ASSUME IInv, [Next]_vars PROVE [Contract!Next]_handed
    OBVIOUS
  <2>1. ASSUME NEW capacity \in Capacities, Ctor(capacity) PROVE UNCHANGED handed
    BY <2>1 DEF Ctor
  <2>2. ASSUME NEW q \in Requests, Allocate(q[1], q[2]) PROVE Contract!Next
    <3> DEFINE r == [ptr |-> Place(q[2]), len |-> q[1]]
    <3>1. /\ r \in Contract!Region
          /\ r.ptr % q[2] = 0
          /\ \A s \in handed : Contract!Apart(r, s)
          /\ r \notin handed
      BY <2>2, AllocateFresh
    <3>2. handed' = handed \cup {r} /\ r.len = q[1]
      BY <2>2 DEF Allocate
    <3> HIDE DEF r
    <3>3. Contract!Allocate(q[1], q[2])
      BY <3>1, <3>2 DEF Contract!Allocate
    <3>4. QED
      BY <3>3 DEF Contract!Next
  <2>3. ASSUME NEW q \in Requests, AllocateNull(q[1], q[2]) PROVE UNCHANGED handed
    BY <2>3 DEF AllocateNull, vars
  <2>4. ASSUME NEW r \in handed, Deallocate(r) PROVE Contract!Next
    BY <2>4 DEF Deallocate, Contract!Deallocate, Contract!Next
  <2>5. CASE Flush
    BY <2>5 DEF Flush, Contract!Release, Contract!Next
  <2>6. CASE Dtor
    BY <2>6 DEF Dtor, Contract!Release, Contract!Next
  <2>7. CASE UNCHANGED vars
    BY <2>7 DEF vars
  <2>8. QED
    BY <2>1, <2>2, <2>3, <2>4, <2>5, <2>6, <2>7 DEF Next
<1>3. QED
  BY <1>1, <1>2, Invariance, PTL DEF Spec, ImplementsContract, Contract!Spec
=============================================================================
