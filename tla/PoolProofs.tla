----------------------------- MODULE PoolProofs ------------------------------
(***************************************************************************)
(* Theorems about Pool, for every count, request and placement of chunks   *)
(* by malloc.                                                              *)
(*                                                                         *)
(* The proofs look at the two chains as one function: View(lv) gives, for  *)
(* every place <<level, sub pool>>, what the sub pool there is.            *)
(* Sound(c, V, lve) judges such a function, with the blocks in use.  It is *)
(* kept by the three things the code does: a sub pool is added whose       *)
(* blocks are all chained (AddSound), a block is taken from a chain        *)
(* (TakeSound) and given back to one (GiveSound).                          *)
(***************************************************************************)
EXTENDS Pool, SequenceTheorems, TLAPS

(* The macro's word and its arguments are of no concern to the lemmas.     *)
LOCAL Arithmetic ==
  INSTANCE AlignProofs WITH WordBits <- 1, value <- 0, alignment <- 0

(* What AlignProofs shows of AlignUp.                                      *)
LEMMA AlignUpBounds ==
  ASSUME NEW v \in Nat, NEW a \in Nat \ {0}
  PROVE  AlignUp(v, a) \in v .. v + a - 1
<1>1. Arithmetic!AlignUp(v, a) = AlignUp(v, a)
  BY DEF AlignUp, Arithmetic!AlignUp
<1>2. QED
  BY <1>1, Arithmetic!AlignUpBounds

LEMMA AlignUpAligned ==
  ASSUME NEW v \in Nat, NEW a \in Nat \ {0}
  PROVE  AlignUp(v, a) % a = 0
<1>1. Arithmetic!AlignUp(v, a) = AlignUp(v, a)
  BY DEF AlignUp, Arithmetic!AlignUp
<1>2. QED
  BY <1>1, Arithmetic!AlignUpAligned

-----------------------------------------------------------------------------
(* A sub pool: its chunk's address, the address and size of its blocks and *)
(* the chain of those that are free.                                       *)
SubView == [addr : Nat, first : Nat, size : Nat, chain : Seq(Nat)]

Cells(c, v) == {v.first + (i - 1) * v.size : i \in 1 .. c}

Limit(c, v) == v.first + c * v.size

SubSound(c, v) ==
  /\ v \in SubView
  /\ v.size > 0 /\ v.addr > 0 /\ v.addr < v.first
  /\ IsInjective(v.chain)
  /\ ToSet(v.chain) \subseteq Cells(c, v)

(* Two sub pools with no byte in common. *)
Separate(c, v, w) == Limit(c, v) <= w.addr \/ Limit(c, w) <= v.addr

(* An allocation of the sub pool v. *)
Belongs(c, v, o) ==
  /\ o.ptr \in Cells(c, v)
  /\ o.ptr \notin ToSet(v.chain)
  /\ o.len <= v.size

Sound(c, V, lve) ==
  /\ \A p \in DOMAIN V : SubSound(c, V[p])
  /\ \A p, q \in DOMAIN V : p # q => Separate(c, V[p], V[q])
  /\ \A o \in lve : o \in [ptr : Nat, len : Nat \ {0}]
  /\ \A o \in lve : \E p \in DOMAIN V : Belongs(c, V[p], o)
  /\ \A o, u \in lve : o.ptr = u.ptr => o = u
  /\ \A p \in DOMAIN V : \A a \in Cells(c, V[p]) :
       a \in ToSet(V[p].chain) \/ \E o \in lve : o.ptr = a

-----------------------------------------------------------------------------
(* Arithmetic of the blocks of one sub pool.                               *)

LEMMA MulMono ==
  ASSUME NEW i \in Nat, NEW j \in Nat, NEW e \in Nat, i <= j
  PROVE  i * e <= j * e /\ i * e \in Nat /\ j * e \in Nat
<1> DEFINE d == j - i
<1>1. d \in Nat /\ j = i + d
  OBVIOUS
<1> HIDE DEF d
<1>2. (i + d) * e = i * e + d * e
  BY <1>1
<1>3. i * e \in Nat /\ d * e \in Nat
  BY <1>1
<1>4. QED
  BY <1>1, <1>2, <1>3

(* The i-th block, counted from 0, begins and ends in the blocks' range.   *)
LEMMA CellInside ==
  ASSUME NEW c \in Nat, NEW v, SubSound(c, v), NEW a \in Cells(c, v)
  PROVE  a \in Nat /\ v.first <= a /\ a + v.size <= Limit(c, v)
<1>1. PICK i \in 1 .. c : a = v.first + (i - 1) * v.size
  BY DEF Cells
<1>2. v.first \in Nat /\ v.size \in Nat
  BY DEF SubSound, SubView
<1>3. i \in Nat /\ i - 1 \in Nat /\ i <= c
  OBVIOUS
<1>4. (i - 1) * v.size \in Nat /\ i * v.size <= c * v.size /\ c * v.size \in Nat
  BY <1>2, <1>3, MulMono
<1>5. i * v.size = (i - 1) * v.size + v.size
  BY <1>2, <1>3
<1>6. QED
  BY <1>1, <1>2, <1>4, <1>5 DEF Limit

(* Two blocks of one sub pool share no byte. *)
LEMMA CellsApart ==
  ASSUME NEW c \in Nat, NEW v, SubSound(c, v),
         NEW a \in Cells(c, v), NEW b \in Cells(c, v), a # b
  PROVE  a + v.size <= b \/ b + v.size <= a
<1>1. v.first \in Nat /\ v.size \in Nat
  BY DEF SubSound, SubView
<1>2. ASSUME NEW i \in 1 .. c, NEW j \in 1 .. c, i < j
      PROVE  v.first + (i - 1) * v.size + v.size <= v.first + (j - 1) * v.size
  <2>1. i \in Nat /\ j - 1 \in Nat /\ i - 1 \in Nat /\ i <= j - 1
    BY <1>2
  <2>2. i * v.size <= (j - 1) * v.size /\ i * v.size \in Nat /\ (j - 1) * v.size \in Nat
    BY <1>1, <2>1, MulMono
  <2>3. i * v.size = (i - 1) * v.size + v.size /\ (i - 1) * v.size \in Nat
    BY <1>1, <2>1
  <2>4. QED
    BY <1>1, <2>2, <2>3
<1>3. PICK i \in 1 .. c : a = v.first + (i - 1) * v.size
  BY DEF Cells
<1>4. PICK j \in 1 .. c : b = v.first + (j - 1) * v.size
  BY DEF Cells
<1>5. i # j
  BY <1>3, <1>4
<1>6. CASE i < j
  BY <1>2, <1>3, <1>4, <1>6
<1>7. CASE j < i
  BY <1>2, <1>3, <1>4, <1>7
<1>8. QED
  BY <1>5, <1>6, <1>7

(* An address in the range of one sub pool is in no other's. *)
LEMMA OneRange ==
  ASSUME NEW c \in Nat, NEW V, NEW lve, Sound(c, V, lve),
         NEW p \in DOMAIN V, NEW q \in DOMAIN V, NEW a \in Nat,
         V[p].first <= a, a < Limit(c, V[p]),
         V[q].first <= a, a < Limit(c, V[q])
  PROVE  p = q
<1>1. SUFFICES ASSUME p # q
               PROVE  FALSE
  OBVIOUS
<1>2. Separate(c, V[p], V[q]) /\ SubSound(c, V[p]) /\ SubSound(c, V[q])
  BY <1>1 DEF Sound
<1>3. /\ V[p].first \in Nat /\ V[p].addr \in Nat /\ V[p].addr < V[p].first
      /\ V[q].first \in Nat /\ V[q].addr \in Nat /\ V[q].addr < V[q].first
      /\ V[p].size \in Nat /\ V[q].size \in Nat
  BY <1>2 DEF SubSound, SubView
<1>4. Limit(c, V[p]) \in Nat /\ Limit(c, V[q]) \in Nat
  BY <1>3 DEF Limit
<1>5. QED
  BY <1>2, <1>3, <1>4 DEF Separate

LEMMA CellRange ==
  ASSUME NEW c \in Nat, NEW v, SubSound(c, v), NEW a \in Cells(c, v)
  PROVE  a \in Nat /\ v.first <= a /\ a < Limit(c, v)
<1>1. v.size \in Nat /\ v.size > 0 /\ v.first \in Nat
  BY DEF SubSound, SubView
<1>2. Limit(c, v) \in Nat
  BY <1>1 DEF Limit
<1>3. QED
  BY <1>1, <1>2, CellInside

(* An allocation belongs to the sub pool whose range holds it. *)
LEMMA HolderOwns ==
  ASSUME NEW c \in Nat, NEW V, NEW lve, Sound(c, V, lve),
         NEW p \in DOMAIN V, NEW o \in lve,
         V[p].first <= o.ptr, o.ptr < Limit(c, V[p])
  PROVE  Belongs(c, V[p], o)
<1>1. PICK q \in DOMAIN V : Belongs(c, V[q], o)
  BY DEF Sound
<1>2. /\ o.ptr \in Nat /\ V[q].first <= o.ptr /\ o.ptr < Limit(c, V[q])
  BY <1>1, CellRange DEF Sound, Belongs
<1>3. p = q
  BY <1>2, OneRange
<1>4. QED
  BY <1>1, <1>3

LEMMA LivePlace ==
  ASSUME NEW c \in Nat, NEW V, NEW lve, Sound(c, V, lve), NEW o \in lve
  PROVE  o.ptr # 0
<1>1. PICK p \in DOMAIN V : Belongs(c, V[p], o)
  BY DEF Sound
<1>2. SubSound(c, V[p])
  BY DEF Sound
<1>3. V[p].first <= o.ptr /\ o.ptr \in Nat
  BY <1>1, <1>2, CellRange DEF Belongs
<1>4. V[p].first > 0 /\ V[p].first \in Nat
  BY <1>2 DEF SubSound, SubView
<1>5. QED
  BY <1>3, <1>4

(* Two allocations in use share no byte. *)
LEMMA LiveApart ==
  ASSUME NEW c \in Nat, NEW V, NEW lve, Sound(c, V, lve),
         NEW o \in lve, NEW u \in lve, o # u
  PROVE  /\ o.ptr \in Nat \ {0} /\ o.len \in Nat \ {0}
         /\ o.ptr + o.len <= u.ptr \/ u.ptr + u.len <= o.ptr
<1>1. /\ o.ptr \in Nat /\ o.len \in Nat \ {0}
      /\ u.ptr \in Nat /\ u.len \in Nat \ {0}
      /\ o.ptr # u.ptr
  BY DEF Sound
<1>2. PICK p \in DOMAIN V : Belongs(c, V[p], o)
  BY DEF Sound
<1>3. PICK q \in DOMAIN V : Belongs(c, V[q], u)
  BY DEF Sound
<1> DEFINE v == V[p]
           w == V[q]
<1>4. SubSound(c, v) /\ SubSound(c, w)
  BY DEF Sound
<1>5. /\ v.first \in Nat /\ v.addr \in Nat /\ v.addr > 0 /\ v.addr < v.first /\ v.size \in Nat
      /\ w.first \in Nat /\ w.addr \in Nat /\ w.addr > 0 /\ w.addr < w.first /\ w.size \in Nat
  BY <1>4 DEF SubSound, SubView
<1>6. Limit(c, v) \in Nat /\ Limit(c, w) \in Nat
  BY <1>5 DEF Limit
<1>7. /\ o.ptr \in Cells(c, v) /\ o.len <= v.size
      /\ u.ptr \in Cells(c, w) /\ u.len <= w.size
  BY <1>2, <1>3 DEF Belongs
<1>8. /\ v.first <= o.ptr /\ o.ptr + v.size <= Limit(c, v)
      /\ w.first <= u.ptr /\ u.ptr + w.size <= Limit(c, w)
  BY <1>4, <1>7, CellInside
<1>9. CASE p = q
  <2>1. o.ptr + v.size <= u.ptr \/ u.ptr + v.size <= o.ptr
    BY <1>1, <1>4, <1>7, <1>9, CellsApart
  <2>2. u.len <= v.size
    BY <1>7, <1>9
  <2> HIDE DEF v, w
  <2>3. QED
    BY <1>1, <1>5, <1>7, <1>8, <2>1, <2>2
<1>10. CASE p # q
  <2>1. Limit(c, v) <= w.addr \/ Limit(c, w) <= v.addr
    BY <1>10 DEF Sound, Separate
  <2> HIDE DEF v, w
  <2>2. QED
    BY <1>1, <1>5, <1>6, <1>7, <1>8, <2>1
<1>11. QED
  BY <1>9, <1>10

-----------------------------------------------------------------------------
(* Chains of free blocks.                                                  *)

LEMMA ChainTail ==
  ASSUME NEW chain \in Seq(Nat), IsInjective(chain), chain # <<>>
  PROVE  /\ Tail(chain) \in Seq(Nat)
         /\ IsInjective(Tail(chain))
         /\ Head(chain) \in ToSet(chain)
         /\ ToSet(Tail(chain)) = ToSet(chain) \ {Head(chain)}
<1> DEFINE n == Len(chain)
           t == Tail(chain)
<1>1. /\ n \in Nat /\ n > 0 /\ DOMAIN chain = 1 .. n /\ Head(chain) = chain[1]
      /\ t \in Seq(Nat) /\ DOMAIN t = 1 .. n - 1
      /\ \A i \in 1 .. n - 1 : t[i] = chain[i + 1]
  OBVIOUS
<1>2. \A i, j \in 1 .. n : chain[i] = chain[j] => i = j
  BY <1>1 DEF IsInjective
<1> HIDE DEF n, t
<1>3. IsInjective(t)
  <2>1. SUFFICES ASSUME NEW i \in 1 .. n - 1, NEW j \in 1 .. n - 1, t[i] = t[j]
                 PROVE  i = j
    BY <1>1 DEF IsInjective
  <2>2. chain[i + 1] = chain[j + 1] /\ i + 1 \in 1 .. n /\ j + 1 \in 1 .. n
    BY <1>1, <2>1
  <2>3. QED
    BY <1>2, <2>2
<1>4. Head(chain) \in ToSet(chain)
  <2>1. 1 \in 1 .. n
    BY <1>1
  <2>2. QED
    BY <1>1, <2>1 DEF ToSet
<1>5. ASSUME NEW a \in ToSet(t)
      PROVE  a \in ToSet(chain) /\ a # Head(chain)
  <2>1. PICK i \in 1 .. n - 1 : a = t[i]
    BY <1>1 DEF ToSet
  <2>2. a = chain[i + 1] /\ i + 1 \in 1 .. n /\ i + 1 # 1 /\ 1 \in 1 .. n
    BY <1>1, <2>1
  <2>3. QED
    BY <1>1, <1>2, <2>2 DEF ToSet
<1>6. ASSUME NEW a \in ToSet(chain), a # Head(chain)
      PROVE  a \in ToSet(t)
  <2>1. PICK i \in 1 .. n : a = chain[i]
    BY <1>1 DEF ToSet
  <2>2. i # 1
    BY <1>1, <1>6, <2>1
  <2>3. i - 1 \in 1 .. n - 1 /\ (i - 1) + 1 = i
    BY <1>1, <2>2
  <2>4. a = t[i - 1]
    BY <1>1, <2>1, <2>3
  <2>5. QED
    BY <1>1, <2>3, <2>4 DEF ToSet
<1>7. QED
  BY <1>1, <1>3, <1>4, <1>5, <1>6 DEF t

LEMMA ChainPush ==
  ASSUME NEW chain \in Seq(Nat), IsInjective(chain), NEW a \in Nat, a \notin ToSet(chain)
  PROVE  /\ <<a>> \o chain \in Seq(Nat)
         /\ IsInjective(<<a>> \o chain)
         /\ ToSet(<<a>> \o chain) = ToSet(chain) \cup {a}
<1> DEFINE n == Len(chain)
           t == <<a>> \o chain
<1>1. /\ n \in Nat /\ DOMAIN chain = 1 .. n
      /\ t \in Seq(Nat) /\ DOMAIN t = 1 .. n + 1
      /\ t[1] = a
      /\ \A i \in 1 .. n : t[i + 1] = chain[i]
  OBVIOUS
<1>2. /\ \A i, j \in 1 .. n : chain[i] = chain[j] => i = j
      /\ \A i \in 1 .. n : chain[i] # a
  BY <1>1 DEF IsInjective, ToSet
<1> HIDE DEF n, t
<1>3. \A i \in 1 .. n + 1 : i = 1 \/ (i - 1 \in 1 .. n /\ t[i] = chain[i - 1])
  <2>1. SUFFICES ASSUME NEW i \in 1 .. n + 1, i # 1
                 PROVE  i - 1 \in 1 .. n /\ t[i] = chain[i - 1]
    OBVIOUS
  <2>2. i - 1 \in 1 .. n /\ (i - 1) + 1 = i
    BY <1>1, <2>1
  <2>3. QED
    BY <1>1, <2>2
<1>4. IsInjective(t)
  <2>1. SUFFICES ASSUME NEW i \in 1 .. n + 1, NEW j \in 1 .. n + 1, t[i] = t[j]
                 PROVE  i = j
    BY <1>1 DEF IsInjective
  <2>2. CASE i = 1 \/ j = 1
    BY <1>1, <1>2, <1>3, <2>1, <2>2
  <2>3. CASE i # 1 /\ j # 1
    <3>1. i - 1 = j - 1
      BY <1>2, <1>3, <2>1, <2>3
    <3>2. QED
      BY <1>1, <3>1
  <2>4. QED
    BY <2>2, <2>3
<1>5. ToSet(t) = ToSet(chain) \cup {a}
  <2>1. ASSUME NEW x \in ToSet(t)
        PROVE  x \in ToSet(chain) \cup {a}
    <3>1. PICK i \in 1 .. n + 1 : x = t[i]
      BY <1>1 DEF ToSet
    <3>2. CASE i = 1
      BY <1>1, <3>1, <3>2
    <3>3. CASE i # 1
      BY <1>1, <1>3, <3>1, <3>3 DEF ToSet
    <3>4. QED
      BY <3>2, <3>3
  <2>2. ASSUME NEW x \in ToSet(chain)
        PROVE  x \in ToSet(t)
    <3>1. PICK i \in 1 .. n : x = chain[i]
      BY <1>1 DEF ToSet
    <3>2. i + 1 \in 1 .. n + 1 /\ t[i + 1] = x
      BY <1>1, <3>1
    <3>3. QED
      BY <1>1, <3>2 DEF ToSet
  <2>3. a \in ToSet(t)
    <3>1. 1 \in 1 .. n + 1
      BY <1>1
    <3>2. QED
      BY <1>1, <3>1 DEF ToSet
  <2>4. QED
    BY <2>1, <2>2, <2>3
<1>6. QED
  BY <1>1, <1>4, <1>5 DEF t

(* The chain of a new sub pool has all its blocks, each once.              *)
LEMMA FreshChainFacts ==
  ASSUME pool.count \in Nat \ {0}, NEW first \in Nat, NEW size \in Nat \ {0}
  PROVE  LET chain == FreshChain(first, size)
         IN  /\ chain \in Seq(Nat)
             /\ chain # <<>> /\ Head(chain) = first
             /\ IsInjective(chain)
             /\ \A v \in SubView : (v.first = first /\ v.size = size) =>
                  ToSet(chain) = Cells(pool.count, v)
<1> DEFINE c == pool.count
           chain == FreshChain(first, size)
<1>1. /\ chain \in Seq(Nat) /\ DOMAIN chain = 1 .. c /\ Len(chain) = c
      /\ \A i \in 1 .. c : chain[i] = first + (i - 1) * size
  <2>1. chain = [i \in 1 .. c |-> first + (i - 1) * size]
    BY DEF FreshChain
  <2>2. \A i \in 1 .. c : first + (i - 1) * size \in Nat
    <3>1. SUFFICES ASSUME NEW i \in 1 .. c
                   PROVE  first + (i - 1) * size \in Nat
      OBVIOUS
    <3>2. i - 1 \in Nat
      OBVIOUS
    <3>3. (i - 1) * size \in Nat
      BY <3>2
    <3>4. QED
      BY <3>3
  <2> HIDE DEF chain
  <2>3. QED
    BY <2>1, <2>2
<1> HIDE DEF chain
<1>2. chain # <<>> /\ Head(chain) = first
  <2>1. 1 \in 1 .. c
    OBVIOUS
  <2>2. chain[1] = first
    BY <1>1, <2>1
  <2>3. QED
    BY <1>1, <2>1, <2>2
<1>3. IsInjective(chain)
  <2>1. ASSUME NEW i \in 1 .. c, NEW j \in 1 .. c, i < j
        PROVE  chain[i] # chain[j]
    <3>1. i \in Nat /\ i - 1 \in Nat /\ j - 1 \in Nat /\ i <= j - 1
      BY <2>1
    <3>2. i * size <= (j - 1) * size /\ i * size \in Nat /\ (j - 1) * size \in Nat
      BY <3>1, MulMono
    <3>3. i * size = (i - 1) * size + size /\ (i - 1) * size \in Nat
      BY <3>1
    <3>4. chain[i] = first + (i - 1) * size /\ chain[j] = first + (j - 1) * size
      BY <1>1
    <3>5. QED
      BY <3>2, <3>3, <3>4
  <2>2. \A i, j \in 1 .. c : i = j \/ i < j \/ j < i
    OBVIOUS
  <2>3. \A i, j \in 1 .. c : chain[i] = chain[j] => i = j
    BY <2>1, <2>2
  <2>4. QED
    BY <1>1, <2>3 DEF IsInjective
<1>4. ASSUME NEW v \in SubView, v.first = first, v.size = size
      PROVE  ToSet(chain) = Cells(c, v)
  BY <1>1, <1>4 DEF ToSet, Cells
<1>5. QED
  BY <1>1, <1>2, <1>3, <1>4 DEF chain

-----------------------------------------------------------------------------
(* The three things the code does to the sub pools.                        *)

(* W is V with another chain at p. *)
Rechained(W, V, p, chain) ==
  /\ DOMAIN W = DOMAIN V
  /\ W[p] = [V[p] EXCEPT !.chain = chain]
  /\ \A q \in DOMAIN V : q # p => W[q] = V[q]

(* W is V with v at the new place p. *)
Extended(W, V, p, v) ==
  /\ DOMAIN W = DOMAIN V \cup {p}
  /\ p \notin DOMAIN V
  /\ W[p] = v
  /\ \A q \in DOMAIN V : W[q] = V[q]

(* Another chain changes neither where the blocks of a sub pool are ... *)
SamePlace(c, v, w) ==
  /\ v.addr = w.addr /\ v.first = w.first /\ v.size = w.size
  /\ Cells(c, v) = Cells(c, w)
  /\ Limit(c, v) = Limit(c, w)

LEMMA RechainedCells ==
  ASSUME NEW c, NEW V, NEW W, NEW p, NEW chain, p \in DOMAIN V,
         Rechained(W, V, p, chain), V[p] \in SubView
  PROVE  /\ W[p].chain = chain
         /\ \A q \in DOMAIN V : SamePlace(c, V[q], W[q])
<1>1. /\ W[p].chain = chain /\ W[p].size = V[p].size /\ W[p].first = V[p].first
      /\ W[p].addr = V[p].addr
  BY DEF Rechained, SubView
<1>2. ASSUME NEW q \in DOMAIN V
      PROVE  W[q].size = V[q].size /\ W[q].first = V[q].first /\ W[q].addr = V[q].addr
  BY <1>1 DEF Rechained
<1>3. QED
  BY <1>1, <1>2 DEF SamePlace, Cells, Limit

(* ... nor that sub pools are sound and apart. *)
LEMMA RechainedSound ==
  ASSUME NEW c \in Nat, NEW V, NEW W, NEW lve, Sound(c, V, lve),
         NEW p \in DOMAIN V, NEW chain \in Seq(Nat), Rechained(W, V, p, chain),
         IsInjective(chain), ToSet(chain) \subseteq Cells(c, V[p])
  PROVE  /\ \A q \in DOMAIN W : SubSound(c, W[q])
         /\ \A q, r \in DOMAIN W : q # r => Separate(c, W[q], W[r])
<1>1. V[p] \in SubView /\ SubSound(c, V[p])
  BY DEF Sound, SubSound
<1>2. /\ W[p].chain = chain
      /\ \A q \in DOMAIN V : SamePlace(c, V[q], W[q])
  BY <1>1, RechainedCells
<1>3. W[p] \in SubView /\ W[p].size > 0 /\ W[p].addr > 0 /\ W[p].addr < W[p].first
  BY <1>1 DEF Rechained, SubSound, SubView
<1>4. SubSound(c, W[p])
  BY <1>2, <1>3 DEF SubSound, SamePlace
<1>5. \A q \in DOMAIN W : SubSound(c, W[q])
  BY <1>4 DEF Rechained, Sound
<1>6. \A q, r \in DOMAIN W : q # r => Separate(c, W[q], W[r])
  BY <1>2 DEF Rechained, Sound, Separate, SamePlace
<1>7. QED
  BY <1>5, <1>6

(* A block is taken from the chain at p. *)
LEMMA TakeSound ==
  ASSUME NEW c \in Nat, NEW V, NEW W, NEW lve, Sound(c, V, lve),
         NEW p \in DOMAIN V, V[p].chain # <<>>,
         Rechained(W, V, p, Tail(V[p].chain)),
         NEW len \in 1 .. V[p].size
  PROVE  LET o == [ptr |-> Head(V[p].chain), len |-> len]
         IN  Sound(c, W, lve \cup {o}) /\ o \notin lve
<1> DEFINE o == [ptr |-> Head(V[p].chain), len |-> len]
           a == Head(V[p].chain)
           t == Tail(V[p].chain)
           new == lve \cup {o}
<1>1. /\ SubSound(c, V[p]) /\ V[p] \in SubView
      /\ V[p].chain \in Seq(Nat) /\ IsInjective(V[p].chain)
      /\ ToSet(V[p].chain) \subseteq Cells(c, V[p])
      /\ V[p].size \in Nat
  BY DEF Sound, SubSound, SubView
<1>2. /\ t \in Seq(Nat) /\ IsInjective(t)
      /\ a \in ToSet(V[p].chain)
      /\ ToSet(t) = ToSet(V[p].chain) \ {a}
  BY <1>1, ChainTail
<1>3. a \in Cells(c, V[p]) /\ a \in Nat /\ V[p].first <= a /\ a < Limit(c, V[p])
  BY <1>1, <1>2, CellRange
<1>4. o.ptr = a /\ o.len = len /\ o \in [ptr : Nat, len : Nat \ {0}] /\ len <= V[p].size
  BY <1>1, <1>3
<1> HIDE DEF o, a, t
<1>5. /\ \A q \in DOMAIN W : SubSound(c, W[q])
      /\ \A q, r \in DOMAIN W : q # r => Separate(c, W[q], W[r])
  BY <1>1, <1>2, RechainedSound DEF t
<1>6. /\ W[p].chain = t /\ W[p].size = V[p].size
      /\ DOMAIN W = DOMAIN V
      /\ \A q \in DOMAIN V : Cells(c, W[q]) = Cells(c, V[q]) /\ W[q].size = V[q].size
      /\ \A q \in DOMAIN V : q # p => W[q] = V[q]
  <2>1. Rechained(W, V, p, t)
    BY DEF t
  <2>2. /\ W[p].chain = t
        /\ \A q \in DOMAIN V : SamePlace(c, V[q], W[q])
    BY <1>1, <2>1, RechainedCells
  <2>3. QED
    BY <2>1, <2>2 DEF Rechained, SamePlace
<1>7. \A u \in lve : u.ptr # a
  <2>1. SUFFICES ASSUME NEW u \in lve, u.ptr = a
                 PROVE  FALSE
    OBVIOUS
  <2>2. Belongs(c, V[p], u)
    BY <1>3, <2>1, HolderOwns
  <2>3. QED
    BY <1>2, <2>1, <2>2 DEF Belongs
<1>8. \A u \in new : \E q \in DOMAIN W : Belongs(c, W[q], u)
  <2>1. Belongs(c, W[p], o)
    BY <1>2, <1>3, <1>4, <1>6 DEF Belongs
  <2>2. ASSUME NEW u \in lve
        PROVE  \E q \in DOMAIN W : Belongs(c, W[q], u)
    <3>1. PICK q \in DOMAIN V : Belongs(c, V[q], u)
      BY DEF Sound
    <3>2. ToSet(W[q].chain) \subseteq ToSet(V[q].chain)
      BY <1>2, <1>6
    <3>3. Belongs(c, W[q], u)
      BY <1>6, <3>1, <3>2 DEF Belongs
    <3>4. QED
      BY <1>6, <3>3
  <2>3. QED
    BY <1>6, <2>1, <2>2
<1>9. \A u, w \in new : u.ptr = w.ptr => u = w
  BY <1>4, <1>7 DEF Sound
<1>10. \A u \in new : u \in [ptr : Nat, len : Nat \ {0}]
  BY <1>4 DEF Sound
<1>11. \A q \in DOMAIN W : \A b \in Cells(c, W[q]) :
         b \in ToSet(W[q].chain) \/ \E u \in new : u.ptr = b
  <2>1. SUFFICES ASSUME NEW q \in DOMAIN V, NEW b \in Cells(c, V[q]),
                        b \notin ToSet(W[q].chain)
                 PROVE  \E u \in new : u.ptr = b
    BY <1>6
  <2>2. CASE b \notin ToSet(V[q].chain)
    BY <2>2 DEF Sound
  <2>3. CASE b \in ToSet(V[q].chain)
    BY <1>2, <1>4, <1>6, <2>1, <2>3
  <2>4. QED
    BY <2>2, <2>3
<1>12. Sound(c, W, new)
  BY <1>5, <1>8, <1>9, <1>10, <1>11 DEF Sound
<1>13. QED
  BY <1>4, <1>7, <1>12 DEF o, a

(* The block of an allocation is given back to the chain at p. *)
LEMMA GiveSound ==
  ASSUME NEW c \in Nat, NEW V, NEW W, NEW lve, Sound(c, V, lve),
         NEW p \in DOMAIN V, NEW o \in lve, Belongs(c, V[p], o),
         Rechained(W, V, p, <<o.ptr>> \o V[p].chain)
  PROVE  Sound(c, W, lve \ {o})
<1> DEFINE chain == V[p].chain
           t == <<o.ptr>> \o chain
           rest == lve \ {o}
<1>1. /\ SubSound(c, V[p]) /\ V[p] \in SubView
      /\ chain \in Seq(Nat) /\ IsInjective(chain)
      /\ ToSet(chain) \subseteq Cells(c, V[p])
  BY DEF Sound, SubSound, SubView
<1>2. o.ptr \in Nat /\ o.ptr \in Cells(c, V[p]) /\ o.ptr \notin ToSet(chain)
  BY DEF Sound, Belongs
<1>3. /\ t \in Seq(Nat) /\ IsInjective(t)
      /\ ToSet(t) = ToSet(chain) \cup {o.ptr}
  BY <1>1, <1>2, ChainPush
<1>4. Rechained(W, V, p, t)
  OBVIOUS
<1> HIDE DEF t
<1>5. /\ \A q \in DOMAIN W : SubSound(c, W[q])
      /\ \A q, r \in DOMAIN W : q # r => Separate(c, W[q], W[r])
  BY <1>1, <1>2, <1>3, <1>4, RechainedSound
<1>6. /\ W[p].chain = t
      /\ \A q \in DOMAIN V : SamePlace(c, V[q], W[q])
  BY <1>1, <1>4, RechainedCells
<1>7. /\ DOMAIN W = DOMAIN V
      /\ \A q \in DOMAIN V : Cells(c, W[q]) = Cells(c, V[q]) /\ W[q].size = V[q].size
      /\ \A q \in DOMAIN V : q # p => W[q] = V[q]
  BY <1>4, <1>6 DEF Rechained, SamePlace
<1>8. \A u \in rest : \E q \in DOMAIN W : Belongs(c, W[q], u)
  <2>1. SUFFICES ASSUME NEW u \in rest
                 PROVE  \E q \in DOMAIN W : Belongs(c, W[q], u)
    OBVIOUS
  <2>2. PICK q \in DOMAIN V : Belongs(c, V[q], u)
    BY DEF Sound
  <2>3. u.ptr # o.ptr
    BY DEF Sound
  <2>4. u.ptr \notin ToSet(W[q].chain)
    BY <1>3, <1>6, <1>7, <2>2, <2>3 DEF Belongs
  <2>5. Belongs(c, W[q], u)
    BY <1>7, <2>2, <2>4 DEF Belongs
  <2>6. QED
    BY <1>7, <2>5
<1>9. \A q \in DOMAIN W : \A b \in Cells(c, W[q]) :
        b \in ToSet(W[q].chain) \/ \E u \in rest : u.ptr = b
  <2>1. SUFFICES ASSUME NEW q \in DOMAIN V, NEW b \in Cells(c, V[q]),
                        b \notin ToSet(W[q].chain)
                 PROVE  \E u \in rest : u.ptr = b
    BY <1>7
  <2>2. b \notin ToSet(V[q].chain)
    BY <1>3, <1>6, <1>7, <2>1
  <2>3. PICK u \in lve : u.ptr = b
    BY <2>2 DEF Sound
  <2>4. CASE q = p
    BY <1>3, <1>6, <2>1, <2>3, <2>4
  <2>5. CASE q # p
    <3>1. SUFFICES ASSUME u = o
                   PROVE  FALSE
      BY <2>3
    <3>2. SubSound(c, V[q])
      BY DEF Sound
    <3>3. V[p].first <= o.ptr /\ o.ptr < Limit(c, V[p])
      BY <1>1, <1>2, CellRange
    <3>4. V[q].first <= o.ptr /\ o.ptr < Limit(c, V[q])
      BY <2>3, <3>1, <3>2, CellRange
    <3>5. QED
      BY <1>2, <2>5, <3>3, <3>4, OneRange
  <2>6. QED
    BY <2>4, <2>5
<1>10. /\ \A u \in rest : u \in [ptr : Nat, len : Nat \ {0}]
       /\ \A u, w \in rest : u.ptr = w.ptr => u = w
  BY DEF Sound
<1>11. QED
  BY <1>5, <1>8, <1>9, <1>10 DEF Sound

(* A sub pool all of whose blocks are free comes to the new place p. *)
LEMMA AddSound ==
  ASSUME NEW c \in Nat, NEW V, NEW W, NEW lve, Sound(c, V, lve),
         NEW p, NEW v, Extended(W, V, p, v),
         SubSound(c, v), ToSet(v.chain) = Cells(c, v),
         \A q \in DOMAIN V : Separate(c, V[q], v)
  PROVE  Sound(c, W, lve)
<1>1. /\ DOMAIN W = DOMAIN V \cup {p}
      /\ W[p] = v
      /\ \A q \in DOMAIN V : W[q] = V[q]
  BY DEF Extended
<1>2. \A q \in DOMAIN W : SubSound(c, W[q])
  BY <1>1 DEF Sound
<1>3. \A q, r \in DOMAIN W : q # r => Separate(c, W[q], W[r])
  <2>1. \A q \in DOMAIN V : Separate(c, v, V[q])
    BY DEF Separate
  <2>2. QED
    BY <1>1, <2>1 DEF Sound
<1>4. \A o \in lve : \E q \in DOMAIN W : Belongs(c, W[q], o)
  <2>1. SUFFICES ASSUME NEW o \in lve
                 PROVE  \E q \in DOMAIN W : Belongs(c, W[q], o)
    OBVIOUS
  <2>2. PICK q \in DOMAIN V : Belongs(c, V[q], o)
    BY DEF Sound
  <2>3. QED
    BY <1>1, <2>2
<1>5. \A q \in DOMAIN W : \A a \in Cells(c, W[q]) :
        a \in ToSet(W[q].chain) \/ \E o \in lve : o.ptr = a
  BY <1>1 DEF Sound
<1>6. QED
  BY <1>2, <1>3, <1>4, <1>5 DEF Sound

-----------------------------------------------------------------------------
(* The chains as one function.                                             *)

Places(lv) == UNION {{<<l, s>> : s \in DOMAIN lv[l].subs} : l \in DOMAIN lv}

SubAt(lv, l, s) ==
  [addr  |-> lv[l].subs[s].addr,
   first |-> lv[l].subs[s].addr + MetaSize(s),
   size  |-> lv[l].elem_size,
   chain |-> lv[l].subs[s].free]

View(lv) == [p \in Places(lv) |-> SubAt(lv, p[1], p[2])]

(* Sizes and addresses of the levels do not depend on the chains.          *)
SameLevels(lv, mv) ==
  /\ DOMAIN mv = DOMAIN lv
  /\ \A l \in DOMAIN lv :
       /\ mv[l].elem_size = lv[l].elem_size
       /\ DOMAIN mv[l].subs = DOMAIN lv[l].subs
       /\ \A s \in DOMAIN lv[l].subs : mv[l].subs[s].addr = lv[l].subs[s].addr

LEMMA LevelFacts ==
  ASSUME NEW lv \in Seq(Level)
  PROVE  /\ Len(lv) \in Nat /\ DOMAIN lv = 1 .. Len(lv)
         /\ \A l \in DOMAIN lv :
              /\ lv[l] \in Level /\ lv[l].elem_size \in Nat
              /\ lv[l].subs \in Seq(Sub)
              /\ Len(lv[l].subs) \in Nat /\ DOMAIN lv[l].subs = 1 .. Len(lv[l].subs)
              /\ \A s \in DOMAIN lv[l].subs :
                   /\ lv[l].subs[s] \in Sub
                   /\ lv[l].subs[s].addr \in Nat
                   /\ lv[l].subs[s].free \in Seq(Nat)
<1>1. Len(lv) \in Nat /\ DOMAIN lv = 1 .. Len(lv)
  OBVIOUS
<1>2. SUFFICES ASSUME NEW l \in DOMAIN lv
               PROVE  /\ lv[l] \in Level /\ lv[l].elem_size \in Nat
                      /\ lv[l].subs \in Seq(Sub)
                      /\ \A s \in DOMAIN lv[l].subs :
                           /\ lv[l].subs[s] \in Sub
                           /\ lv[l].subs[s].addr \in Nat
                           /\ lv[l].subs[s].free \in Seq(Nat)
  BY <1>1
<1>3. lv[l] \in Level
  BY <1>1
<1>4. lv[l].elem_size \in Nat /\ lv[l].subs \in Seq(Sub)
  BY <1>3 DEF Level
<1>5. ASSUME NEW s \in DOMAIN lv[l].subs
      PROVE  /\ lv[l].subs[s] \in Sub
             /\ lv[l].subs[s].addr \in Nat
             /\ lv[l].subs[s].free \in Seq(Nat)
  <2>1. lv[l].subs[s] \in Sub
    BY <1>4
  <2>2. QED
    BY <2>1 DEF Sub
<1>6. QED
  BY <1>3, <1>4, <1>5

PlacesOf(lv) ==
  /\ DOMAIN View(lv) = Places(lv)
  /\ \A l \in DOMAIN lv : \A s \in DOMAIN lv[l].subs :
       <<l, s>> \in Places(lv) /\ View(lv)[<<l, s>>] = SubAt(lv, l, s)
  /\ \A p \in Places(lv) : /\ p = <<p[1], p[2]>>
                           /\ p[1] \in DOMAIN lv /\ p[2] \in DOMAIN lv[p[1]].subs
                           /\ View(lv)[p] = SubAt(lv, p[1], p[2])

LEMMA PlaceFacts == \A lv : PlacesOf(lv)
<1> SUFFICES ASSUME NEW lv
             PROVE  PlacesOf(lv)
  OBVIOUS
<1>1. DOMAIN View(lv) = Places(lv)
  BY DEF View
<1>2. ASSUME NEW p \in Places(lv)
      PROVE  View(lv)[p] = SubAt(lv, p[1], p[2])
  BY DEF View
<1>3. ASSUME NEW p \in Places(lv)
      PROVE  /\ p = <<p[1], p[2]>>
             /\ p[1] \in DOMAIN lv /\ p[2] \in DOMAIN lv[p[1]].subs
  <2>1. PICK l \in DOMAIN lv : \E s \in DOMAIN lv[l].subs : p = <<l, s>>
    BY Zenon DEF Places
  <2>2. PICK s \in DOMAIN lv[l].subs : p = <<l, s>>
    BY <2>1
  <2>3. p[1] = l /\ p[2] = s
    BY <2>2
  <2>4. QED
    BY <2>2, <2>3
<1>4. ASSUME NEW l \in DOMAIN lv, NEW s \in DOMAIN lv[l].subs
      PROVE  <<l, s>> \in Places(lv) /\ View(lv)[<<l, s>>] = SubAt(lv, l, s)
  <2>1. <<l, s>> \in Places(lv)
    <3>1. <<l, s>> \in {<<l, t>> : t \in DOMAIN lv[l].subs}
      OBVIOUS
    <3>2. QED
      BY <3>1, Zenon DEF Places
  <2>2. View(lv)[<<l, s>>] = SubAt(lv, <<l, s>>[1], <<l, s>>[2])
    BY <1>2, <2>1
  <2>3. <<l, s>>[1] = l /\ <<l, s>>[2] = s
    OBVIOUS
  <2>4. QED
    BY <2>1, <2>2, <2>3
<1>5. QED
  BY <1>1, <1>2, <1>3, <1>4 DEF PlacesOf

(* Another chain for sub pool s of level l. *)
LEMMA ViewRechained ==
  ASSUME NEW lv \in Seq(Level), NEW l \in DOMAIN lv, NEW s \in DOMAIN lv[l].subs,
         NEW chain \in Seq(Nat), NEW mv,
         mv = [lv EXCEPT ![l].subs[s].free = chain]
  PROVE  /\ mv \in Seq(Level)
         /\ SameLevels(lv, mv)
         /\ Rechained(View(mv), View(lv), <<l, s>>, chain)
<1> DEFINE subs == lv[l].subs
           sub == [subs[s] EXCEPT !.free = chain]
           msubs == [subs EXCEPT ![s] = sub]
           level == [lv[l] EXCEPT !.subs = msubs]
<1>1. /\ lv[l] \in Level /\ subs \in Seq(Sub) /\ subs[s] \in Sub
  BY LevelFacts
<1>2. mv = [lv EXCEPT ![l] = level]
  OBVIOUS
<1>3. sub \in Sub /\ sub.addr = subs[s].addr /\ sub.free = chain
  BY <1>1 DEF Sub
<1>4. /\ msubs \in Seq(Sub) /\ DOMAIN msubs = DOMAIN subs
      /\ msubs[s] = sub
      /\ \A r \in DOMAIN subs : r # s => msubs[r] = subs[r]
  <2> HIDE DEF sub
  <2>1. QED
    BY <1>1, <1>3
<1>5. level \in Level /\ level.elem_size = lv[l].elem_size /\ level.subs = msubs
  <2> HIDE DEF msubs
  <2>1. QED
    BY <1>1, <1>4 DEF Level
<1> HIDE DEF sub, msubs, level
<1>6. /\ mv \in Seq(Level) /\ DOMAIN mv = DOMAIN lv
      /\ mv[l] = level
      /\ \A k \in DOMAIN lv : k # l => mv[k] = lv[k]
  <2>1. lv \in [1 .. Len(lv) -> Level] /\ Len(lv) \in Nat
    BY LevelFacts
  <2>2. mv \in [1 .. Len(lv) -> Level]
    BY <1>2, <1>5, <2>1
  <2>3. mv \in Seq(Level)
    BY <2>1, <2>2
  <2>4. QED
    BY <1>2, <2>1, <2>2, <2>3
<1>7. /\ \A r \in DOMAIN subs : msubs[r].addr = subs[r].addr
  BY <1>3, <1>4
<1>8. \A k \in DOMAIN lv :
         /\ mv[k].elem_size = lv[k].elem_size
         /\ DOMAIN mv[k].subs = DOMAIN lv[k].subs
         /\ \A r \in DOMAIN lv[k].subs : mv[k].subs[r].addr = lv[k].subs[r].addr
  <2>1. SUFFICES ASSUME NEW k \in DOMAIN lv
                 PROVE  /\ mv[k].elem_size = lv[k].elem_size
                        /\ DOMAIN mv[k].subs = DOMAIN lv[k].subs
                        /\ \A r \in DOMAIN lv[k].subs : mv[k].subs[r].addr = lv[k].subs[r].addr
    OBVIOUS
  <2>2. CASE k = l
    BY <1>4, <1>5, <1>6, <1>7, <2>2
  <2>3. CASE k # l
    BY <1>6, <2>3
  <2>4. QED
    BY <2>2, <2>3
<1>9. SameLevels(lv, mv)
  BY <1>6, <1>8 DEF SameLevels
<1>10. PlacesOf(lv) /\ PlacesOf(mv)
  BY PlaceFacts
<1>11. Places(mv) = Places(lv)
  <2>1. ASSUME NEW p \in Places(lv)
        PROVE  p \in Places(mv)
    <3>1. p = <<p[1], p[2]>> /\ p[1] \in DOMAIN lv /\ p[2] \in DOMAIN lv[p[1]].subs
      BY <1>10 DEF PlacesOf
    <3>2. p[1] \in DOMAIN mv /\ p[2] \in DOMAIN mv[p[1]].subs
      BY <1>6, <1>8, <3>1
    <3>3. <<p[1], p[2]>> \in Places(mv)
      BY <1>10, <3>2 DEF PlacesOf
    <3>4. QED
      BY <3>1, <3>3
  <2>2. ASSUME NEW p \in Places(mv)
        PROVE  p \in Places(lv)
    <3>1. p = <<p[1], p[2]>> /\ p[1] \in DOMAIN mv /\ p[2] \in DOMAIN mv[p[1]].subs
      BY <1>10 DEF PlacesOf
    <3>2. p[1] \in DOMAIN lv /\ p[2] \in DOMAIN lv[p[1]].subs
      BY <1>6, <1>8, <3>1
    <3>3. QED
      BY <1>10, <3>1, <3>2 DEF PlacesOf
  <2>3. QED
    BY <2>1, <2>2
<1>12. DOMAIN View(mv) = Places(lv) /\ DOMAIN View(lv) = Places(lv)
  BY <1>11 DEF View
<1>13. View(mv)[<<l, s>>] = [View(lv)[<<l, s>>] EXCEPT !.chain = chain]
  <2>1. View(mv)[<<l, s>>] = SubAt(mv, l, s)
    <3>1. l \in DOMAIN mv /\ s \in DOMAIN mv[l].subs
      BY <1>6, <1>8
    <3>2. QED
      BY <1>10, <3>1 DEF PlacesOf
  <2>2. View(lv)[<<l, s>>] = SubAt(lv, l, s)
    BY <1>10 DEF PlacesOf
  <2>3. mv[l].subs[s].addr = subs[s].addr /\ mv[l].subs[s].free = chain
        /\ mv[l].elem_size = lv[l].elem_size
    BY <1>3, <1>4, <1>5, <1>6
  <2>4. SubAt(mv, l, s) = [SubAt(lv, l, s) EXCEPT !.chain = chain]
    BY <2>3 DEF SubAt
  <2>5. QED
    BY <2>1, <2>2, <2>4
<1>14. \A q \in Places(lv) : q # <<l, s>> => View(mv)[q] = View(lv)[q]
  <2>1. SUFFICES ASSUME NEW q \in Places(lv), q # <<l, s>>
                 PROVE  View(mv)[q] = View(lv)[q]
    OBVIOUS
  <2>2. /\ q = <<q[1], q[2]>> /\ q[1] \in DOMAIN lv /\ q[2] \in DOMAIN lv[q[1]].subs
        /\ View(lv)[q] = SubAt(lv, q[1], q[2])
    BY <1>10 DEF PlacesOf
  <2>3. View(mv)[q] = SubAt(mv, q[1], q[2])
    BY <1>10, <1>11 DEF PlacesOf
  <2>4. mv[q[1]].elem_size = lv[q[1]].elem_size /\ mv[q[1]].subs[q[2]] = lv[q[1]].subs[q[2]]
    <3>1. CASE q[1] # l
      BY <1>6, <2>2, <3>1
    <3>2. CASE q[1] = l
      <4>1. q[2] # s
        BY <2>1, <2>2, <3>2
      <4>2. QED
        BY <1>4, <1>5, <1>6, <2>2, <3>2, <4>1
    <3>3. QED
      BY <3>1, <3>2
  <2>5. QED
    BY <2>2, <2>3, <2>4 DEF SubAt
<1>15. QED
  BY <1>6, <1>9, <1>12, <1>13, <1>14 DEF Rechained

(* lv grows by sub pool s of level l into mv. *)
Grown(lv, mv, l, s) ==
  /\ ~(l \in DOMAIN lv /\ s \in DOMAIN lv[l].subs)
  /\ l \in DOMAIN mv /\ s \in DOMAIN mv[l].subs
  /\ \A k \in DOMAIN lv :
       /\ k \in DOMAIN mv /\ mv[k].elem_size = lv[k].elem_size
       /\ \A r \in DOMAIN lv[k].subs :
            r \in DOMAIN mv[k].subs /\ mv[k].subs[r] = lv[k].subs[r]
  /\ \A k \in DOMAIN mv : \A r \in DOMAIN mv[k].subs :
       (k = l /\ r = s) \/ (k \in DOMAIN lv /\ r \in DOMAIN lv[k].subs)

LEMMA ViewExtended ==
  ASSUME NEW lv, NEW mv, NEW l, NEW s, Grown(lv, mv, l, s)
  PROVE  Extended(View(mv), View(lv), <<l, s>>, SubAt(mv, l, s))
<1>1. PlacesOf(lv) /\ PlacesOf(mv)
  BY PlaceFacts
<1>2. ~(l \in DOMAIN lv /\ s \in DOMAIN lv[l].subs) /\ l \in DOMAIN mv /\ s \in DOMAIN mv[l].subs
  BY DEF Grown
<1>3. <<l, s>> \in Places(mv) /\ View(mv)[<<l, s>>] = SubAt(mv, l, s)
  BY <1>1, <1>2 DEF PlacesOf
<1>4. <<l, s>> \notin Places(lv)
  <2>1. SUFFICES ASSUME <<l, s>> \in Places(lv)
                 PROVE  FALSE
    OBVIOUS
  <2>2. <<l, s>>[1] \in DOMAIN lv /\ <<l, s>>[2] \in DOMAIN lv[<<l, s>>[1]].subs
    BY <1>1, <2>1 DEF PlacesOf
  <2>3. <<l, s>>[1] = l /\ <<l, s>>[2] = s
    OBVIOUS
  <2>4. QED
    BY <1>2, <2>2, <2>3
<1>5. ASSUME NEW p \in Places(lv)
      PROVE  p \in Places(mv) /\ View(mv)[p] = View(lv)[p]
  <2>1. /\ p = <<p[1], p[2]>> /\ p[1] \in DOMAIN lv /\ p[2] \in DOMAIN lv[p[1]].subs
        /\ View(lv)[p] = SubAt(lv, p[1], p[2])
    BY <1>1 DEF PlacesOf
  <2>2. /\ p[1] \in DOMAIN mv /\ p[2] \in DOMAIN mv[p[1]].subs
        /\ mv[p[1]].elem_size = lv[p[1]].elem_size
        /\ mv[p[1]].subs[p[2]] = lv[p[1]].subs[p[2]]
    BY <2>1 DEF Grown
  <2>3. <<p[1], p[2]>> \in Places(mv)
    BY <1>1, <2>2 DEF PlacesOf
  <2>4. p \in Places(mv)
    BY <2>1, <2>3
  <2>5. View(mv)[p] = SubAt(mv, p[1], p[2])
    BY <1>1, <2>4 DEF PlacesOf
  <2>6. SubAt(mv, p[1], p[2]) = SubAt(lv, p[1], p[2])
    BY <2>2 DEF SubAt
  <2>7. QED
    BY <2>1, <2>4, <2>5, <2>6
<1>6. ASSUME NEW p \in Places(mv)
      PROVE  p = <<l, s>> \/ p \in Places(lv)
  <2>1. p = <<p[1], p[2]>> /\ p[1] \in DOMAIN mv /\ p[2] \in DOMAIN mv[p[1]].subs
    BY <1>1 DEF PlacesOf
  <2>2. CASE p[1] = l /\ p[2] = s
    BY <2>1, <2>2
  <2>3. CASE p[1] \in DOMAIN lv /\ p[2] \in DOMAIN lv[p[1]].subs
    <3>1. <<p[1], p[2]>> \in Places(lv)
      BY <1>1, <2>3 DEF PlacesOf
    <3>2. QED
      BY <2>1, <3>1
  <2>4. QED
    BY <2>1, <2>2, <2>3 DEF Grown
<1>7. DOMAIN View(mv) = Places(mv) /\ DOMAIN View(lv) = Places(lv)
  BY <1>1 DEF PlacesOf
<1>8. Places(mv) = Places(lv) \cup {<<l, s>>}
  BY <1>3, <1>5, <1>6
<1>9. QED
  BY <1>3, <1>4, <1>5, <1>7, <1>8 DEF Extended

-----------------------------------------------------------------------------
(* The chunks in use.                                                      *)

ChunkOf(c, v) == [base |-> v.addr, len |-> Limit(c, v) - v.addr]

ChunksOf(pl, V) ==
  {[base |-> pl.addr, len |-> PoolStructSize]} \cup {ChunkOf(pl.count, V[p]) : p \in DOMAIN V}

LEMMA RechainedChunks ==
  ASSUME NEW pl, NEW V, NEW W, NEW p \in DOMAIN V, NEW chain,
         Rechained(W, V, p, chain), V[p] \in SubView
  PROVE  ChunksOf(pl, W) = ChunksOf(pl, V)
<1>1. \A q \in DOMAIN V : SamePlace(pl.count, V[q], W[q])
  BY RechainedCells
<1>2. \A q \in DOMAIN V : ChunkOf(pl.count, W[q]) = ChunkOf(pl.count, V[q])
  BY <1>1 DEF SamePlace, ChunkOf
<1>3. DOMAIN W = DOMAIN V
  BY DEF Rechained
<1>4. QED
  BY <1>2, <1>3 DEF ChunksOf

(* The sub pool that second_level_ctor or first_level_ctor adds, with its  *)
(* first block taken.                                                      *)
NewView(base, s, e) ==
  [addr  |-> base,
   first |-> base + MetaSize(s),
   size  |-> e,
   chain |-> Tail(FreshChain(base + MetaSize(s), e))]

LEMMA PlacedApart ==
  ASSUME pool.count \in Nat, NEW V, \A p \in DOMAIN V : SubSound(pool.count, V[p]),
         NEW base \in Bases, NEW s \in Nat, NEW e \in Nat,
         CanPlace(ChunksOf(pool, V), base, SubPoolSize(s, e)),
         NEW v, v.addr = base, v.first = base + MetaSize(s), v.size = e
  PROVE  \A q \in DOMAIN V : Separate(pool.count, V[q], v)
<1> DEFINE c == pool.count
<1>1. SUFFICES ASSUME NEW q \in DOMAIN V
               PROVE  Separate(c, V[q], v)
  OBVIOUS
<1>2. base \in Nat /\ MallocGap \in Nat /\ MetaSize(s) \in Nat /\ c * e \in Nat
  <2>1. c * e \in Nat
    OBVIOUS
  <2>2. QED
    BY <2>1, HeapAssumption DEF MetaSize, FirstLevelSize, SecondLevelSize
<1>3. ChunkOf(c, V[q]) \in ChunksOf(pool, V)
  BY DEF ChunksOf
<1>4. \/ base + SubPoolSize(s, e) + MallocGap <= V[q].addr
      \/ V[q].addr + (Limit(c, V[q]) - V[q].addr) + MallocGap <= base
  <2>1. ChunkOf(c, V[q]).base = V[q].addr /\ ChunkOf(c, V[q]).len = Limit(c, V[q]) - V[q].addr
    BY DEF ChunkOf
  <2>2. QED
    BY <1>3, <2>1 DEF CanPlace
<1>5. V[q].addr \in Nat /\ V[q].first \in Nat /\ V[q].size \in Nat
  BY DEF SubSound, SubView
<1>6. Limit(c, V[q]) \in Nat
  BY <1>5 DEF Limit
<1>7. Limit(c, v) = base + SubPoolSize(s, e) /\ SubPoolSize(s, e) \in Nat
  BY <1>2 DEF Limit, SubPoolSize
<1>8. QED
  BY <1>2, <1>4, <1>5, <1>6, <1>7 DEF Separate

FirstBlock(base, s, len) == [ptr |-> base + MetaSize(s), len |-> len]

(* What is true of the new sub pool and of the chunks with it.             *)
Enlarged(W, V, p, base, s, e) ==
  /\ CanPlace(ChunksOf(pool, V), base, SubPoolSize(s, e))
  /\ Extended(W, V, p, NewView(base, s, e))

LEMMA NewSubSound ==
  ASSUME pool.count \in Nat \ {0}, NEW V, NEW W, NEW lve, Sound(pool.count, V, lve),
         NEW base \in Bases, NEW s \in Nat, NEW e \in Nat \ {0}, NEW len \in 1 .. e,
         NEW p, Enlarged(W, V, p, base, s, e)
  PROVE  /\ Sound(pool.count, W, lve \cup {FirstBlock(base, s, len)})
         /\ FirstBlock(base, s, len) \notin lve
         /\ Malloc(ChunksOf(pool, V), base, SubPoolSize(s, e)) = ChunksOf(pool, W)
<1> DEFINE c == pool.count
           w == NewView(base, s, e)
           first == base + MetaSize(s)
           chain == FreshChain(first, e)
           v == [addr |-> base, first |-> first, size |-> e, chain |-> chain]
           U == [q \in DOMAIN V \cup {p} |-> IF q = p THEN v ELSE V[q]]
<1> USE DEF Enlarged
<1>1. /\ base \in Nat /\ base > 0 /\ MetaSize(s) \in Nat /\ MetaSize(s) > 0
      /\ first \in Nat /\ base < first
  BY HeapAssumption DEF MetaSize, FirstLevelSize, SecondLevelSize
<1> HIDE DEF first
<1>2. /\ chain \in Seq(Nat) /\ chain # <<>> /\ Head(chain) = first /\ IsInjective(chain)
      /\ \A x \in SubView : (x.first = first /\ x.size = e) => ToSet(chain) = Cells(c, x)
  BY <1>1, FreshChainFacts
<1> HIDE DEF chain
<1>3. v \in SubView
  BY <1>1, <1>2 DEF SubView
<1>4. v.addr = base /\ v.first = first /\ v.size = e /\ v.chain = chain
  OBVIOUS
<1>5. /\ w.addr = base /\ w.first = first /\ w.size = e
      /\ w = [v EXCEPT !.chain = Tail(chain)]
  <2>1. w = [addr |-> base, first |-> first, size |-> e, chain |-> Tail(chain)]
    BY DEF NewView, first, chain
  <2>2. Tail(chain) \in Seq(Nat)
    BY <1>2
  <2> DEFINE t == Tail(chain)
  <2> HIDE DEF w, v, t
  <2>3. w \in SubView /\ w.addr = base /\ w.first = first /\ w.size = e /\ w.chain = t
    BY <1>1, <2>1, <2>2 DEF SubView, t
  <2>4. w = [v EXCEPT !.chain = t]
    BY <1>3, <1>4, <2>3 DEF SubView
  <2>5. QED
    BY <2>3, <2>4 DEF t
<1> HIDE DEF v, w
<1>6. ToSet(v.chain) = Cells(c, v)
  BY <1>2, <1>3, <1>4
<1>7. SubSound(c, v)
  BY <1>1, <1>2, <1>3, <1>4, <1>6 DEF SubSound
<1>8. \A q \in DOMAIN V : Separate(c, V[q], v)
  <2>1. \A q \in DOMAIN V : SubSound(c, V[q])
    BY DEF Sound
  <2>2. QED
    BY <1>4, <2>1, PlacedApart DEF first
<1>9. /\ p \notin DOMAIN V
      /\ DOMAIN W = DOMAIN V \cup {p} /\ W[p] = w
      /\ \A q \in DOMAIN V : W[q] = V[q]
  BY DEF Extended, w
<1>10. Extended(U, V, p, v)
  BY <1>9 DEF Extended
<1>11. DOMAIN U = DOMAIN V \cup {p} /\ U[p] = v /\ \A q \in DOMAIN V : U[q] = V[q]
  BY <1>10 DEF Extended
<1> HIDE DEF U
<1>12. Sound(c, U, lve)
  BY <1>6, <1>7, <1>8, <1>10, AddSound
<1>13. Rechained(W, U, p, Tail(U[p].chain))
  BY <1>4, <1>5, <1>9, <1>11 DEF Rechained
<1>14. LET o == [ptr |-> Head(U[p].chain), len |-> len]
       IN  Sound(c, W, lve \cup {o}) /\ o \notin lve
  <2>1. p \in DOMAIN U /\ U[p].chain # <<>> /\ len \in 1 .. U[p].size
    BY <1>2, <1>4, <1>11
  <2>2. QED
    BY <1>12, <1>13, <2>1, TakeSound
<1>15. Malloc(ChunksOf(pool, V), base, SubPoolSize(s, e)) = ChunksOf(pool, W)
  <2>1. Limit(c, w) - base = SubPoolSize(s, e)
    <3>1. c * e \in Nat
      OBVIOUS
    <3>2. QED
      BY <1>1, <1>5, <3>1 DEF Limit, SubPoolSize, first
  <2>2. ChunkOf(c, w) = [base |-> base, len |-> SubPoolSize(s, e)]
    BY <1>5, <2>1 DEF ChunkOf
  <2>3. {ChunkOf(c, W[q]) : q \in DOMAIN W} = {ChunkOf(c, V[q]) : q \in DOMAIN V} \cup {ChunkOf(c, w)}
    BY <1>9
  <2>4. QED
    BY <2>2, <2>3 DEF Malloc, ChunksOf
<1>16. Head(U[p].chain) = first
  BY <1>2, <1>4, <1>11
<1>17. QED
  BY <1>14, <1>15, <1>16 DEF first, FirstBlock

-----------------------------------------------------------------------------
(* How the chain of levels changes.                                        *)

(* A sub pool is chained behind the last of its level. *)
SubAppended(lv, l, sub) == [lv EXCEPT ![l].subs = Append(lv[l].subs, sub)]

LEMMA AppendSub ==
  ASSUME NEW lv \in Seq(Level), NEW l \in DOMAIN lv, NEW sub \in Sub, NEW mv,
         mv = SubAppended(lv, l, sub),
         NEW s, s = Len(lv[l].subs) + 1
  PROVE  /\ mv \in Seq(Level)
         /\ DOMAIN mv = DOMAIN lv
         /\ \A k \in DOMAIN lv : mv[k].elem_size = lv[k].elem_size
         /\ mv[l].subs[s] = sub
         /\ Grown(lv, mv, l, s)
<1> DEFINE subs == lv[l].subs
           n == Len(subs)
           msubs == Append(subs, sub)
           level == [lv[l] EXCEPT !.subs = msubs]
<1>1. lv[l] \in Level /\ subs \in Seq(Sub) /\ n \in Nat /\ DOMAIN subs = 1 .. n
  BY LevelFacts
<1>2. mv = [lv EXCEPT ![l] = level]
  BY DEF SubAppended
<1> HIDE DEF subs, n
<1>3. /\ msubs \in Seq(Sub) /\ DOMAIN msubs = 1 .. n + 1
      /\ msubs[n + 1] = sub
      /\ \A r \in 1 .. n : msubs[r] = subs[r]
  BY <1>1 DEF n
<1> HIDE DEF msubs
<1>4. level \in Level /\ level.elem_size = lv[l].elem_size /\ level.subs = msubs
  BY <1>1, <1>3 DEF Level
<1> HIDE DEF level
<1>5. /\ mv \in Seq(Level) /\ DOMAIN mv = DOMAIN lv
      /\ mv[l] = level
      /\ \A k \in DOMAIN lv : k # l => mv[k] = lv[k]
  <2>1. lv \in [1 .. Len(lv) -> Level] /\ Len(lv) \in Nat
    BY LevelFacts
  <2>2. mv \in [1 .. Len(lv) -> Level]
    BY <1>2, <1>4, <2>1
  <2>3. mv \in Seq(Level)
    BY <2>1, <2>2
  <2>4. QED
    BY <1>2, <2>1, <2>2, <2>3
<1>6. \A k \in DOMAIN lv : mv[k].elem_size = lv[k].elem_size
  BY <1>4, <1>5
<1>7. mv[l].subs = msubs /\ \A k \in DOMAIN lv : k # l => mv[k].subs = lv[k].subs
  BY <1>4, <1>5
<1>8. n + 1 \in 1 .. n + 1 /\ n + 1 \notin 1 .. n /\ n + 1 \in Nat
  BY <1>1
<1>9. Grown(lv, mv, l, n + 1)
  <2>1. n + 1 \notin DOMAIN lv[l].subs /\ n + 1 \in DOMAIN mv[l].subs
    BY <1>1, <1>3, <1>7, <1>8 DEF subs
  <2>2. ASSUME NEW k \in DOMAIN lv, NEW r \in DOMAIN lv[k].subs
        PROVE  r \in DOMAIN mv[k].subs /\ mv[k].subs[r] = lv[k].subs[r]
    <3>1. CASE k = l
      <4>1. r \in 1 .. n /\ r \in 1 .. n + 1
        BY <1>1, <3>1 DEF subs
      <4>2. QED
        BY <1>3, <1>7, <3>1, <4>1 DEF subs
    <3>2. CASE k # l
      BY <1>7, <3>2
    <3>3. QED
      BY <3>1, <3>2
  <2>3. ASSUME NEW k \in DOMAIN mv, NEW r \in DOMAIN mv[k].subs
        PROVE  (k = l /\ r = n + 1) \/ (k \in DOMAIN lv /\ r \in DOMAIN lv[k].subs)
    <3>1. CASE k = l
      <4>1. r \in 1 .. n + 1
        BY <1>3, <1>7, <3>1
      <4>2. r = n + 1 \/ r \in 1 .. n
        BY <1>1, <4>1
      <4>3. QED
        BY <1>1, <3>1, <4>2 DEF subs
    <3>2. CASE k # l
      BY <1>5, <1>7, <3>2
    <3>3. QED
      BY <3>1, <3>2
  <2>4. QED
    BY <1>5, <1>6, <2>1, <2>2, <2>3 DEF Grown
<1>10. mv[l].subs[n + 1] = sub
  BY <1>3, <1>7
<1>11. s = n + 1
  BY DEF n, subs
<1>12. QED
  BY <1>5, <1>6, <1>8, <1>9, <1>10, <1>11

(* A level with one sub pool is chained behind the last. *)
LevelAppended(lv, e, sub) == Append(lv, [elem_size |-> e, subs |-> <<sub>>])

Deepened(lv, mv, l, e, sub) ==
  /\ mv \in Seq(Level)
  /\ DOMAIN mv \subseteq DOMAIN lv \cup {l}
  /\ mv[l].elem_size = e
  /\ \A k \in DOMAIN lv : mv[k].elem_size = lv[k].elem_size
  /\ mv[l].subs[1] = sub
  /\ Grown(lv, mv, l, 1)

LEMMA AppendLevel ==
  ASSUME NEW lv \in Seq(Level), NEW e \in Nat, NEW sub \in Sub, NEW mv,
         mv = LevelAppended(lv, e, sub),
         NEW l, l = Len(lv) + 1
  PROVE  Deepened(lv, mv, l, e, sub)
<1> DEFINE n == Len(lv)
           level == [elem_size |-> e, subs |-> <<sub>>]
<1>1. n \in Nat /\ DOMAIN lv = 1 .. n
  BY LevelFacts
<1>2. /\ level \in Level /\ level.elem_size = e
      /\ level.subs[1] = sub /\ DOMAIN level.subs = {1}
  <2>1. <<sub>> \in Seq(Sub) /\ <<sub>>[1] = sub /\ DOMAIN <<sub>> = {1}
    OBVIOUS
  <2>2. QED
    BY <2>1 DEF Level
<1> HIDE DEF level
<1>3. /\ mv \in Seq(Level) /\ DOMAIN mv = 1 .. n + 1
      /\ mv[n + 1] = level
      /\ \A k \in 1 .. n : mv[k] = lv[k]
  <2>1. mv = Append(lv, level)
    BY DEF level, LevelAppended
  <2>2. QED
    BY <1>2, <2>1
<1> HIDE DEF n
<1>4. DOMAIN mv = DOMAIN lv \cup {n + 1} /\ n + 1 \notin DOMAIN lv
  BY <1>1, <1>3
<1>5. Grown(lv, mv, n + 1, 1)
  <2>1. n + 1 \in DOMAIN mv /\ 1 \in DOMAIN mv[n + 1].subs
    BY <1>2, <1>3, <1>4
  <2>2. \A k \in DOMAIN lv : k \in DOMAIN mv /\ mv[k] = lv[k]
    BY <1>1, <1>3, <1>4
  <2>3. \A k \in DOMAIN mv : \A r \in DOMAIN mv[k].subs :
          (k = n + 1 /\ r = 1) \/ (k \in DOMAIN lv /\ r \in DOMAIN lv[k].subs)
    BY <1>2, <1>3, <1>4, <2>2
  <2>4. QED
    BY <1>4, <2>1, <2>2, <2>3 DEF Grown
<1>6. QED
  BY <1>1, <1>2, <1>3, <1>4, <1>5 DEF n, Deepened

-----------------------------------------------------------------------------
(* The inductive invariant.                                                *)

(* What the structures look like, whatever the requests are. *)
Shape ==
  /\ levels \in Seq(Level)
  /\ \A l \in DOMAIN levels : levels[l].elem_size > 0
  /\ \A l \in DOMAIN levels : \A s \in DOMAIN levels[l].subs : levels[l].subs[s].addr \in Bases
  /\ OneLevelPerSize
  /\ crashed \in BOOLEAN

(* A pool that has been built: its blocks, and the chunks it stands in. *)
Built ==
  /\ pool \in [addr : Nat, count : Nat \ {0}]
  /\ Sound(pool.count, View(levels), live)
  /\ heap = ChunksOf(pool, View(levels))

Absent == levels = <<>> /\ live = {} /\ heap = {}

IInv ==
  /\ Shape
  /\ IF pool = NULL THEN Absent ELSE Built

(* The size of the blocks that serve a request. *)
LEMMA AlignedSizeFacts ==
  ASSUME NEW size \in Nat \ {0}, NEW alignment \in Nat
  PROVE  /\ AlignedSize(size, alignment) \in Nat
         /\ AlignedSize(size, alignment) >= size
         /\ AlignedSize(size, alignment) % MAX(alignment, FreeBlockAlign) = 0
         /\ MAX(alignment, FreeBlockAlign) \in Nat \ {0}
<1> DEFINE a == MAX(alignment, FreeBlockAlign)
<1>1. a \in Nat \ {0}
  BY DEF MAX, FreeBlockAlign
<1>2. AlignedSize(size, alignment) = AlignUp(size, a)
  BY DEF AlignedSize, AlignSize
<1> HIDE DEF a
<1>3. AlignUp(size, a) \in size .. size + a - 1 /\ AlignUp(size, a) % a = 0
  BY <1>1, AlignUpBounds, AlignUpAligned
<1>4. AlignUp(size, a) \in Nat /\ AlignUp(size, a) >= size
  BY <1>1, <1>3
<1>5. QED
  BY <1>1, <1>2, <1>3, <1>4 DEF a

(* Another chain leaves the shape as it is. *)
LEMMA SameShape ==
  ASSUME Shape, levels' \in Seq(Level), SameLevels(levels, levels'), UNCHANGED crashed
  PROVE  Shape'
<1>1. /\ DOMAIN levels' = DOMAIN levels
      /\ \A l \in DOMAIN levels :
           /\ levels'[l].elem_size = levels[l].elem_size
           /\ DOMAIN levels'[l].subs = DOMAIN levels[l].subs
           /\ \A s \in DOMAIN levels[l].subs : levels'[l].subs[s].addr = levels[l].subs[s].addr
  BY DEF SameLevels
<1>2. OneLevelPerSize'
  BY <1>1 DEF Shape, OneLevelPerSize
<1>3. \A l \in DOMAIN levels' : levels'[l].elem_size > 0
  BY <1>1 DEF Shape
<1>4. \A l \in DOMAIN levels' : \A s \in DOMAIN levels'[l].subs : levels'[l].subs[s].addr \in Bases
  BY <1>1 DEF Shape
<1>5. QED
  BY <1>2, <1>3, <1>4 DEF Shape

(* The step hands out o. *)
Hands(o) == live' = live \cup {o} /\ o \notin live

LEMMA AllocateExistingStep ==
  ASSUME IInv, NEW q \in Requests, AllocateExisting(q[1], q[2])
  PROVE  /\ IInv' /\ pool # NULL
         /\ levels' \in Seq(Level) /\ SameLevels(levels, levels')
         /\ \E p \in DOMAIN View(levels) :
              /\ View(levels)[p].size = AlignedSize(q[1], q[2])
              /\ \E ptr \in Cells(pool.count, View(levels)[p]) :
                   Hands([ptr |-> ptr, len |-> q[1]])
<1>1. q[1] \in Nat \ {0} /\ q[2] \in Nat \ {0} /\ pool # NULL
  <2>1. q \in Nat \X Nat
    BY PoolAssumption
  <2>2. QED
    BY <2>1 DEF AllocateExisting, Valid, Running
<1>2. Shape /\ Built
  BY <1>1 DEF IInv
<1>3. PICK l \in DOMAIN levels :
        /\ IsLevelFor(l, q[1], q[2])
        /\ \E s \in DOMAIN levels[l].subs :
             LET free == levels[l].subs[s].free
             IN  /\ free # <<>>
                 /\ levels' = [levels EXCEPT ![l].subs[s].free = Tail(@)]
                 /\ live' = live \cup {[ptr |-> Head(free), len |-> q[1]]}
  BY DEF AllocateExisting
<1>4. PICK s \in DOMAIN levels[l].subs :
        /\ levels[l].subs[s].free # <<>>
        /\ levels' = [levels EXCEPT ![l].subs[s].free = Tail(levels[l].subs[s].free)]
        /\ live' = live \cup {[ptr |-> Head(levels[l].subs[s].free), len |-> q[1]]}
  BY <1>3
<1> DEFINE free == levels[l].subs[s].free
           V == View(levels)
           W == View(levels')
           p == <<l, s>>
           c == pool.count
<1>5. /\ levels \in Seq(Level) /\ free \in Seq(Nat)
      /\ levels[l].elem_size = AlignedSize(q[1], q[2])
      /\ c \in Nat \ {0} /\ Sound(c, V, live)
  <2>1. levels \in Seq(Level) /\ c \in Nat \ {0} /\ Sound(c, V, live)
    BY <1>2 DEF Shape, Built
  <2>2. free \in Seq(Nat)
    BY <2>1, LevelFacts
  <2>3. QED
    BY <1>3, <2>1, <2>2 DEF IsLevelFor, SameSize
<1>6. Tail(free) \in Seq(Nat)
  BY <1>4, <1>5
<1>7. /\ levels' \in Seq(Level) /\ SameLevels(levels, levels')
      /\ Rechained(W, V, p, Tail(free))
  BY <1>4, <1>5, <1>6, ViewRechained
<1>8. p \in DOMAIN V /\ V[p] = SubAt(levels, l, s)
  BY PlaceFacts DEF PlacesOf
<1>9. V[p].chain = free /\ V[p].size = AlignedSize(q[1], q[2])
  BY <1>5, <1>8 DEF SubAt
<1>10. V[p] \in SubView /\ SubSound(c, V[p])
  BY <1>5, <1>8 DEF Sound, SubSound
<1>11. q[1] \in 1 .. V[p].size
  BY <1>1, <1>9, AlignedSizeFacts
<1> DEFINE o == [ptr |-> Head(free), len |-> q[1]]
<1> HIDE DEF V, W, p, c
<1>12. Sound(c, W, live \cup {o}) /\ o \notin live
  <2>1. /\ Rechained(W, V, p, Tail(V[p].chain))
        /\ V[p].chain # <<>> /\ c \in Nat
    BY <1>4, <1>5, <1>7, <1>9
  <2>2. LET u == [ptr |-> Head(V[p].chain), len |-> q[1]]
        IN  Sound(c, W, live \cup {u}) /\ u \notin live
    BY <1>5, <1>8, <1>11, <2>1, TakeSound
  <2>3. QED
    BY <1>9, <2>2
<1>13. live' = live \cup {o}
  BY <1>4
<1>14. Head(free) \in Cells(c, V[p])
  <2>1. Head(free) \in ToSet(free)
    BY <1>4, <1>5, <1>9, <1>10, ChainTail DEF SubSound
  <2>2. QED
    BY <1>9, <1>10, <2>1 DEF SubSound
<1>15. ChunksOf(pool, W) = ChunksOf(pool, V)
  BY <1>7, <1>8, <1>10, RechainedChunks
<1>16. heap' = heap /\ pool' = pool /\ crashed' = crashed
  BY DEF AllocateExisting
<1>17. Shape'
  BY <1>2, <1>7, <1>16, SameShape
<1>18. Built'
  BY <1>2, <1>12, <1>13, <1>15, <1>16 DEF Built, V, W, c
<1>19. IInv'
  BY <1>1, <1>16, <1>17, <1>18 DEF IInv
<1>20. Hands([ptr |-> Head(free), len |-> q[1]])
  BY <1>12, <1>13 DEF Hands
<1>21. QED
  BY <1>1, <1>7, <1>8, <1>9, <1>14, <1>19, <1>20 DEF V, c

(* A sub pool of a new chunk, in the level that has the size it needs.     *)
LEMMA GrowingStep ==
  ASSUME Shape, Built, NEW l, NEW s \in Nat, NEW e \in Nat \ {0}, NEW base \in Bases,
         CanPlace(heap, base, SubPoolSize(s, e)),
         heap' = Malloc(heap, base, SubPoolSize(s, e)),
         levels' \in Seq(Level), Grown(levels, levels', l, s),
         levels'[l].elem_size = e, levels'[l].subs[s] = NewSub(base, s, e),
         NEW size \in 1 .. e,
         live' = live \cup {FirstBlock(base, s, size)},
         UNCHANGED <<pool, crashed>>
  PROVE  /\ Built'
         /\ Hands(FirstBlock(base, s, size))
         /\ \A k \in DOMAIN levels' : \A r \in DOMAIN levels'[k].subs :
              levels'[k].subs[r].addr \in Bases
<1> DEFINE V == View(levels)
           W == View(levels')
           p == <<l, s>>
           c == pool.count
           o == FirstBlock(base, s, size)
<1>1. c \in Nat \ {0} /\ Sound(c, V, live) /\ heap = ChunksOf(pool, V)
  BY DEF Built
<1>2. Extended(W, V, p, SubAt(levels', l, s))
  BY ViewExtended
<1>3. levels'[l].subs[s].addr = base
  BY DEF NewSub
<1>4. SubAt(levels', l, s) = NewView(base, s, e)
  <2>1. levels'[l].subs[s].free = Tail(FreshChain(base + MetaSize(s), e))
    BY DEF NewSub
  <2>2. QED
    BY <1>3, <2>1 DEF SubAt, NewView
<1> HIDE DEF V, W, p, c, o
<1>5. Extended(W, V, p, NewView(base, s, e))
  BY <1>2, <1>4
<1>6. /\ Sound(c, W, live \cup {o}) /\ o \notin live
      /\ Malloc(ChunksOf(pool, V), base, SubPoolSize(s, e)) = ChunksOf(pool, W)
  <2>1. /\ pool.count \in Nat \ {0} /\ Sound(pool.count, V, live)
        /\ Enlarged(W, V, p, base, s, e)
    BY <1>1, <1>5 DEF c, Enlarged
  <2>2. /\ Sound(pool.count, W, live \cup {o}) /\ o \notin live
        /\ Malloc(ChunksOf(pool, V), base, SubPoolSize(s, e)) = ChunksOf(pool, W)
    <3> HIDE DEF o
    <3>1. Sound(pool.count, W, live \cup {FirstBlock(base, s, size)})
      BY <2>1, NewSubSound
    <3>2. FirstBlock(base, s, size) \notin live
      BY <2>1, NewSubSound
    <3>3. Malloc(ChunksOf(pool, V), base, SubPoolSize(s, e)) = ChunksOf(pool, W)
      BY <2>1, <3>1, <3>2, NewSubSound
    <3>4. QED
      BY <3>1, <3>2, <3>3 DEF o
  <2>3. QED
    BY <2>2 DEF o, c
<1>7. Built'
  <2>1. pool' = pool /\ live' = live \cup {o} /\ heap' = ChunksOf(pool, W)
    BY <1>1, <1>6 DEF o
  <2>2. QED
    BY <1>6, <2>1 DEF Built, W, c
<1>8. Hands(o)
  BY <1>6 DEF Hands, o
<1>9. ASSUME NEW k \in DOMAIN levels', NEW r \in DOMAIN levels'[k].subs
      PROVE  levels'[k].subs[r].addr \in Bases
  <2>1. CASE k = l /\ r = s
    BY <1>3, <2>1
  <2>2. CASE k \in DOMAIN levels /\ r \in DOMAIN levels[k].subs
    <3>1. levels'[k].subs[r] = levels[k].subs[r]
      BY <2>2 DEF Grown
    <3>2. QED
      BY <2>2, <3>1 DEF Shape
  <2>3. QED
    BY <2>1, <2>2 DEF Grown
<1>10. QED
  BY <1>7, <1>8, <1>9 DEF o

LEMMA NewSubType ==
  ASSUME pool.count \in Nat \ {0}, NEW base \in Bases, NEW s \in Nat, NEW e \in Nat \ {0}
  PROVE  NewSub(base, s, e) \in Sub
<1>1. base \in Nat /\ base + MetaSize(s) \in Nat
  BY HeapAssumption DEF MetaSize, FirstLevelSize, SecondLevelSize
<1> DEFINE chain == FreshChain(base + MetaSize(s), e)
<1>2. chain \in Seq(Nat) /\ chain # <<>>
  BY <1>1, FreshChainFacts
<1> HIDE DEF chain
<1>3. Tail(chain) \in Seq(Nat)
  BY <1>2
<1>4. QED
  BY <1>1, <1>3 DEF NewSub, Sub, chain

(* What the allocations that ask malloc for a sub pool have in common: the *)
(* block handed out is the first of the sub pool's.                        *)
LEMMA AllocateNewSubStep ==
  ASSUME IInv, NEW q \in Requests, AllocateNewSub(q[1], q[2])
  PROVE  /\ IInv' /\ pool # NULL
         /\ DOMAIN levels' = DOMAIN levels
         /\ \E l \in DOMAIN levels, s \in Nat : Exhausted(l) /\ Grown(levels, levels', l, s)
         /\ \E base \in Bases, s \in Nat : Hands(FirstBlock(base, s, q[1]))
<1>1. q[1] \in Nat \ {0} /\ q[2] \in Nat \ {0} /\ pool # NULL
  <2>1. q \in Nat \X Nat
    BY PoolAssumption
  <2>2. QED
    BY <2>1 DEF AllocateNewSub, Valid, Running
<1>2. Shape /\ Built /\ pool' = pool /\ crashed' = crashed
  BY <1>1 DEF IInv, AllocateNewSub
<1>3. PICK l \in DOMAIN levels, base \in Bases :
        LET s         == Len(levels[l].subs) + 1
            elem_size == levels[l].elem_size
        IN  /\ IsLevelFor(l, q[1], q[2])
            /\ Exhausted(l)
            /\ CanPlace(heap, base, SubPoolSize(s, elem_size))
            /\ heap' = Malloc(heap, base, SubPoolSize(s, elem_size))
            /\ levels' = [levels EXCEPT ![l].subs = Append(@, NewSub(base, s, elem_size))]
            /\ live' = live \cup {[ptr |-> base + MetaSize(s), len |-> q[1]]}
  BY DEF AllocateNewSub
<1> DEFINE s == Len(levels[l].subs) + 1
           e == levels[l].elem_size
           sub == NewSub(base, s, e)
<1>4. /\ IsLevelFor(l, q[1], q[2])
      /\ Exhausted(l)
      /\ CanPlace(heap, base, SubPoolSize(s, e))
      /\ heap' = Malloc(heap, base, SubPoolSize(s, e))
      /\ levels' = SubAppended(levels, l, sub)
      /\ live' = live \cup {FirstBlock(base, s, q[1])}
  BY <1>3 DEF FirstBlock, SubAppended
<1>5. /\ levels \in Seq(Level) /\ pool.count \in Nat \ {0} /\ s \in Nat
      /\ e = AlignedSize(q[1], q[2])
  <2>1. levels \in Seq(Level) /\ pool.count \in Nat \ {0}
    BY <1>2 DEF Shape, Built
  <2>2. Len(levels[l].subs) \in Nat
    BY <2>1, LevelFacts
  <2>3. QED
    BY <1>4, <2>1, <2>2 DEF IsLevelFor, SameSize
<1>6. e \in Nat \ {0} /\ q[1] \in 1 .. e
  <2>1. AlignedSize(q[1], q[2]) \in Nat /\ AlignedSize(q[1], q[2]) >= q[1]
    BY <1>1, AlignedSizeFacts
  <2> HIDE DEF e
  <2>2. QED
    BY <1>1, <1>5, <2>1
<1>7. sub \in Sub
  BY <1>5, <1>6, NewSubType
<1> HIDE DEF sub
<1>8. /\ levels' \in Seq(Level)
      /\ DOMAIN levels' = DOMAIN levels
      /\ \A k \in DOMAIN levels : levels'[k].elem_size = levels[k].elem_size
      /\ levels'[l].subs[s] = sub
      /\ Grown(levels, levels', l, s)
  <2>1. s = Len(levels[l].subs) + 1
    OBVIOUS
  <2> HIDE DEF s, e
  <2>2. QED
    BY <1>4, <1>5, <1>7, <2>1, AppendSub
<1>9. levels'[l].elem_size = e /\ levels'[l].subs[s] = NewSub(base, s, e)
  BY <1>8 DEF sub
<1> HIDE DEF s, e
<1>10. /\ Built'
       /\ Hands(FirstBlock(base, s, q[1]))
       /\ \A k \in DOMAIN levels' : \A r \in DOMAIN levels'[k].subs :
            levels'[k].subs[r].addr \in Bases
  BY <1>2, <1>4, <1>5, <1>6, <1>8, <1>9, GrowingStep
<1>11. OneLevelPerSize'
  BY <1>2, <1>8 DEF Shape, OneLevelPerSize
<1>12. \A k \in DOMAIN levels' : levels'[k].elem_size > 0
  BY <1>2, <1>8 DEF Shape
<1>13. Shape'
  BY <1>2, <1>8, <1>10, <1>11, <1>12 DEF Shape
<1>14. IInv'
  BY <1>1, <1>2, <1>10, <1>13 DEF IInv
<1>15. QED
  BY <1>1, <1>4, <1>5, <1>8, <1>10, <1>14

LEMMA AllocateNewLevelStep ==
  ASSUME IInv, NEW q \in Requests, AllocateNewLevel(q[1], q[2])
  PROVE  /\ IInv' /\ pool # NULL
         /\ DOMAIN levels' \subseteq DOMAIN levels \cup {Len(levels) + 1}
         /\ levels'[Len(levels) + 1].elem_size = AlignedSize(q[1], q[2])
         /\ Grown(levels, levels', Len(levels) + 1, 1)
         /\ \E base \in Bases, s \in Nat : Hands(FirstBlock(base, s, q[1]))
<1> DEFINE e == AlignedSize(q[1], q[2])
           l == Len(levels) + 1
<1>1. q[1] \in Nat \ {0} /\ q[2] \in Nat \ {0} /\ pool # NULL
  <2>1. q \in Nat \X Nat
    BY PoolAssumption
  <2>2. QED
    BY <2>1 DEF AllocateNewLevel, Valid, Running
<1>2. Shape /\ Built /\ pool' = pool /\ crashed' = crashed /\ NoLevelFor(q[1], q[2])
  BY <1>1 DEF IInv, AllocateNewLevel
<1>3. PICK base \in Bases :
        /\ CanPlace(heap, base, SubPoolSize(1, e))
        /\ heap' = Malloc(heap, base, SubPoolSize(1, e))
        /\ levels' = Append(levels, NewLevel(base, e))
        /\ live' = live \cup {FirstBlock(base, 1, q[1])}
  BY DEF AllocateNewLevel, FirstBlock
<1>4. e \in Nat \ {0} /\ q[1] \in 1 .. e
  <2>1. e \in Nat /\ e >= q[1]
    BY <1>1, AlignedSizeFacts
  <2> HIDE DEF e
  <2>2. QED
    BY <1>1, <2>1
<1> HIDE DEF e
<1>5. levels \in Seq(Level) /\ pool.count \in Nat \ {0}
  BY <1>2 DEF Shape, Built
<1> DEFINE sub == NewSub(base, 1, e)
<1>6. sub \in Sub
  BY <1>4, <1>5, NewSubType
<1>7. levels' = LevelAppended(levels, e, sub)
  BY <1>3 DEF NewLevel, LevelAppended
<1> HIDE DEF sub
<1>8. /\ levels' \in Seq(Level)
      /\ DOMAIN levels' \subseteq DOMAIN levels \cup {l}
      /\ levels'[l].elem_size = e
      /\ \A k \in DOMAIN levels : levels'[k].elem_size = levels[k].elem_size
      /\ levels'[l].subs[1] = sub
      /\ Grown(levels, levels', l, 1)
  <2>1. l = Len(levels) + 1 /\ e \in Nat
    BY <1>4
  <2>2. levels \in Seq(Level)
    BY <1>5
  <2> HIDE DEF l
  <2>3. Deepened(levels, levels', l, e, sub)
    BY <1>6, <1>7, <2>1, <2>2, AppendLevel
  <2>4. QED
    BY <2>3 DEF Deepened
<1> HIDE DEF l
<1>9. levels'[l].subs[1] = NewSub(base, 1, e)
  BY <1>8 DEF sub
<1>10. /\ Built'
       /\ Hands(FirstBlock(base, 1, q[1]))
       /\ \A k \in DOMAIN levels' : \A r \in DOMAIN levels'[k].subs :
            levels'[k].subs[r].addr \in Bases
  BY <1>2, <1>3, <1>4, <1>8, <1>9, GrowingStep
<1>11. OneLevelPerSize'
  <2>1. \A k \in DOMAIN levels : levels[k].elem_size # e
    BY <1>2 DEF NoLevelFor, SameSize, e
  <2>2. QED
    BY <1>2, <1>8, <2>1 DEF Shape, OneLevelPerSize
<1>12. \A k \in DOMAIN levels' : levels'[k].elem_size > 0
  BY <1>2, <1>4, <1>8 DEF Shape
<1>13. Shape'
  BY <1>2, <1>8, <1>10, <1>11, <1>12 DEF Shape
<1>14. IInv'
  BY <1>1, <1>2, <1>10, <1>13 DEF IInv
<1>15. QED
  BY <1>1, <1>8, <1>10, <1>14 DEF l, e

(* pool_deallocate finds the sub pool the block is of. *)
LEMMA DeallocateStep ==
  ASSUME IInv, NEW o \in live, Deallocate(o)
  PROVE  /\ IInv' /\ live' = live \ {o}
         /\ levels' \in Seq(Level) /\ SameLevels(levels, levels')
<1>1. pool # NULL
  BY DEF Deallocate, Running
<1>2. /\ Shape /\ Built /\ pool' = pool /\ crashed' = crashed /\ heap' = heap
      /\ live' = live \ {o}
  BY <1>1 DEF IInv, Deallocate
<1>3. PICK l \in DOMAIN levels : \E s \in DOMAIN levels[l].subs :
        /\ IsSubPoolOf(l, s, o.ptr)
        /\ levels' = [levels EXCEPT ![l].subs[s].free = <<o.ptr>> \o @]
  BY DEF Deallocate
<1>4. PICK s \in DOMAIN levels[l].subs :
        /\ IsSubPoolOf(l, s, o.ptr)
        /\ levels' = [levels EXCEPT ![l].subs[s].free = <<o.ptr>> \o levels[l].subs[s].free]
  BY <1>3
<1> DEFINE free == levels[l].subs[s].free
           V == View(levels)
           W == View(levels')
           p == <<l, s>>
           c == pool.count
<1>5. /\ levels \in Seq(Level) /\ free \in Seq(Nat)
      /\ c \in Nat \ {0} /\ Sound(c, V, live)
  <2>1. levels \in Seq(Level) /\ c \in Nat \ {0} /\ Sound(c, V, live)
    BY <1>2 DEF Shape, Built
  <2>2. free \in Seq(Nat)
    BY <2>1, LevelFacts
  <2>3. QED
    BY <2>1, <2>2
<1>6. p \in DOMAIN V /\ V[p] = SubAt(levels, l, s)
  BY PlaceFacts DEF PlacesOf
<1>7. V[p].first = Start(l, s) /\ Limit(c, V[p]) = End(l, s) /\ V[p].chain = free
  BY <1>6 DEF SubAt, Start, End, Limit
<1>8. o.ptr \in Nat
  BY <1>5 DEF Sound
<1>9. <<o.ptr>> \o free \in Seq(Nat)
  BY <1>5, <1>8
<1>10. /\ levels' \in Seq(Level) /\ SameLevels(levels, levels')
       /\ Rechained(W, V, p, <<o.ptr>> \o free)
  BY <1>4, <1>5, <1>9, ViewRechained
<1>11. V[p] \in SubView
  BY <1>5, <1>6 DEF Sound, SubSound
<1> HIDE DEF V, W, p, c
<1>12. Belongs(c, V[p], o)
  <2>1. Start(l, s) <= o.ptr /\ o.ptr < End(l, s)
    BY <1>4 DEF IsSubPoolOf, Holds
  <2>2. c \in Nat /\ V[p].first <= o.ptr /\ o.ptr < Limit(c, V[p])
    BY <1>5, <1>7, <2>1
  <2>3. QED
    BY <1>5, <1>6, <2>2, HolderOwns
<1>13. Sound(c, W, live \ {o})
  <2>1. Rechained(W, V, p, <<o.ptr>> \o V[p].chain) /\ c \in Nat
    BY <1>5, <1>7, <1>10
  <2>2. QED
    BY <1>5, <1>6, <1>12, <2>1, GiveSound
<1>14. ChunksOf(pool, W) = ChunksOf(pool, V)
  BY <1>6, <1>10, <1>11, RechainedChunks
<1>15. Shape'
  BY <1>2, <1>10, SameShape
<1>16. Built'
  BY <1>2, <1>13, <1>14 DEF Built, V, W, c
<1>17. IInv'
  BY <1>1, <1>2, <1>15, <1>16 DEF IInv
<1>18. QED
  BY <1>2, <1>10, <1>17

LEMMA CtorStep ==
  ASSUME IInv, NEW count \in Counts, Ctor(count)
  PROVE  IInv' /\ levels' = levels /\ live' = live
<1>1. Shape /\ Absent /\ pool = NULL
  BY DEF IInv, Ctor
<1>2. /\ levels' = levels /\ live' = live /\ crashed' = crashed
  BY DEF Ctor
<1>3. PICK base \in Bases :
        /\ heap' = Malloc(heap, base, PoolStructSize)
        /\ pool' = [addr |-> base, count |-> count]
  BY DEF Ctor
<1>4. base \in Nat /\ base > 0 /\ count \in Nat \ {0}
  BY HeapAssumption, PoolAssumption
<1>5. pool' \in [addr : Nat, count : Nat \ {0}] /\ pool'.addr = base /\ pool' # NULL
  BY <1>3, <1>4 DEF NULL
<1>6. DOMAIN View(levels') = {}
  <2>1. DOMAIN levels' = {}
    BY <1>1, <1>2 DEF Absent
  <2>2. \A p \in DOMAIN View(levels') : p[1] \in DOMAIN levels'
    BY PlaceFacts DEF PlacesOf
  <2>3. QED
    BY <2>1, <2>2
<1>7. Sound(pool'.count, View(levels'), live')
  BY <1>1, <1>2, <1>6 DEF Sound, Absent
<1>8. heap' = ChunksOf(pool', View(levels'))
  BY <1>1, <1>3, <1>5, <1>6 DEF ChunksOf, Malloc, Absent
<1>9. Shape'
  BY <1>1, <1>2 DEF Shape, OneLevelPerSize
<1>10. QED
  BY <1>2, <1>5, <1>7, <1>8, <1>9 DEF IInv, Built

(* pool_dtor frees every chunk there is. *)
LEMMA DtorStep ==
  ASSUME IInv, Dtor
  PROVE  IInv' /\ levels' = <<>> /\ live' = {}
<1>1. Shape /\ Built
  BY DEF IInv, Dtor, Running
<1>2. /\ pool' = NULL /\ levels' = <<>> /\ live' = {} /\ crashed' = crashed
  BY DEF Dtor
<1> DEFINE subs == UNION {{levels[l].subs[s].addr : s \in DOMAIN levels[l].subs} :
                           l \in DOMAIN levels}
           freed == {pool.addr} \cup subs
<1>3. heap' = FreeAll(heap, freed)
  BY DEF Dtor
<1>4. \A p \in DOMAIN View(levels) : View(levels)[p].addr \in freed
  <2>1. SUFFICES ASSUME NEW p \in DOMAIN View(levels)
                 PROVE  View(levels)[p].addr \in freed
    OBVIOUS
  <2>2. /\ p[1] \in DOMAIN levels /\ p[2] \in DOMAIN levels[p[1]].subs
        /\ View(levels)[p] = SubAt(levels, p[1], p[2])
    BY PlaceFacts DEF PlacesOf
  <2>3. View(levels)[p].addr = levels[p[1]].subs[p[2]].addr
    BY <2>2 DEF SubAt
  <2>4. ASSUME NEW l \in DOMAIN levels, NEW s \in DOMAIN levels[l].subs
        PROVE  levels[l].subs[s].addr \in subs
    <3>1. levels[l].subs[s].addr \in {levels[l].subs[r].addr : r \in DOMAIN levels[l].subs}
      OBVIOUS
    <3>2. QED
      BY <3>1, Zenon
  <2>5. levels[p[1]].subs[p[2]].addr \in subs
    BY <2>2, <2>4, Zenon
  <2>6. QED
    BY <2>3, <2>5
<1>5. pool.addr \in freed
  <2> HIDE DEF subs
  <2>1. QED
    OBVIOUS
<1> HIDE DEF freed
<1>6. \A chunk \in heap : chunk.base \in freed
  <2>1. SUFFICES ASSUME NEW chunk \in ChunksOf(pool, View(levels))
                 PROVE  chunk.base \in freed
    BY <1>1 DEF Built
  <2>2. CASE chunk = [base |-> pool.addr, len |-> PoolStructSize]
    BY <1>5, <2>2
  <2>3. ASSUME NEW p \in DOMAIN View(levels), chunk = ChunkOf(pool.count, View(levels)[p])
        PROVE  chunk.base \in freed
    <3>1. chunk.base = View(levels)[p].addr
      BY <2>3 DEF ChunkOf
    <3>2. QED
      BY <1>4, <3>1
  <2>4. QED
    BY <2>1, <2>2, <2>3 DEF ChunksOf
<1>7. heap' = {}
  BY <1>3, <1>6 DEF FreeAll
<1>8. Shape'
  <2>1. <<>> \in Seq(Level) /\ DOMAIN <<>> = {}
    OBVIOUS
  <2>2. levels' \in Seq(Level) /\ DOMAIN levels' = {}
    BY <1>2, <2>1
  <2>3. crashed' \in BOOLEAN
    BY <1>1, <1>2 DEF Shape
  <2>4. QED
    BY <2>2, <2>3 DEF Shape, OneLevelPerSize
<1>9. QED
  BY <1>2, <1>7, <1>8 DEF IInv, Absent

(* Steps that leave the structures as they are. *)
LEMMA IdleStep ==
  ASSUME IInv, UNCHANGED <<heap, pool, levels, live>>, crashed' \in BOOLEAN
  PROVE  IInv'
<1>1. Shape'
  BY DEF IInv, Shape, OneLevelPerSize
<1>2. QED
  BY <1>1 DEF IInv, Absent, Built

LEMMA InitInv ==
  ASSUME Init
  PROVE  IInv
<1>1. <<>> \in Seq(Level) /\ DOMAIN <<>> = {}
  OBVIOUS
<1>2. levels \in Seq(Level) /\ DOMAIN levels = {} /\ crashed \in BOOLEAN
  BY <1>1 DEF Init
<1>3. Shape
  BY <1>2 DEF Shape, OneLevelPerSize
<1>4. QED
  BY <1>3 DEF Init, IInv, Absent

(* The steps that change no variable of the structures. *)
Idle ==
  /\ UNCHANGED <<heap, pool, levels, live>>
  /\ crashed' \in BOOLEAN

LEMMA IdleSteps ==
  ASSUME IInv
  PROVE  /\ \A q \in Requests : AllocateNull(q[1], q[2]) => Idle
         /\ \A q \in Requests : AllocateFirstOutOfMemory(q[1], q[2]) => Idle
         /\ \A ptr : DeallocateForeign(ptr) => Idle
         /\ UNCHANGED vars => Idle
<1>1. crashed \in BOOLEAN
  BY DEF IInv, Shape
<1>2. UNCHANGED vars => Idle
  BY <1>1 DEF Idle, vars
<1>3. \A q \in Requests : AllocateNull(q[1], q[2]) => Idle
  BY <1>1 DEF AllocateNull, Idle, vars
<1>4. \A ptr : DeallocateForeign(ptr) => Idle
  BY <1>1 DEF DeallocateForeign, Idle, vars
<1>5. \A q \in Requests : AllocateFirstOutOfMemory(q[1], q[2]) => Idle
  BY DEF AllocateFirstOutOfMemory, Idle
<1>6. QED
  BY <1>2, <1>3, <1>4, <1>5

LEMMA NextInv ==
  ASSUME IInv, [Next]_vars
  PROVE  IInv'
<1>1. ASSUME NEW count \in Counts, Ctor(count) PROVE IInv'
  BY <1>1, CtorStep
<1>2. ASSUME NEW q \in Requests, AllocateExisting(q[1], q[2]) PROVE IInv'
  BY <1>2, AllocateExistingStep
<1>3. ASSUME NEW q \in Requests, AllocateNewSub(q[1], q[2]) PROVE IInv'
  BY <1>3, AllocateNewSubStep
<1>4. ASSUME NEW q \in Requests, AllocateNewLevel(q[1], q[2]) PROVE IInv'
  BY <1>4, AllocateNewLevelStep
<1>5. ASSUME NEW o \in live, Deallocate(o) PROVE IInv'
  BY <1>5, DeallocateStep
<1>6. CASE Dtor
  BY <1>6, DtorStep
<1>7. CASE Idle
  BY <1>7, IdleStep DEF Idle
<1>8. QED
  BY <1>1, <1>2, <1>3, <1>4, <1>5, <1>6, <1>7, IdleSteps DEF Next

(* The structures and the blocks in use agree in every state. *)
THEOREM Invariance == Spec => []IInv
BY InitInv, NextInv, PTL DEF Spec

-----------------------------------------------------------------------------
(* The types.                                                              *)

(* What is assumed of the requests: alignments are powers of two, so that  *)
(* those above that of a link are multiples of it.                         *)
AlignmentsArePowers ==
  \A q \in Requests : q[2] <= FreeBlockAlign \/ q[2] % FreeBlockAlign = 0

(* Every block has room for a link where one may stand. *)
Linkable == \A l \in DOMAIN levels : levels[l].elem_size % FreeBlockAlign = 0

LEMMA MultipleOfEight ==
  ASSUME NEW v \in Nat, NEW a \in Nat \ {0}, v % a = 0, a % 8 = 0
  PROVE  v % 8 = 0
<1> DEFINE k == v \div a
           j == a \div 8
<1>1. k \in Nat /\ v = a * k + (v % a)
  BY Arithmetic!DivMod
<1>2. j \in Nat /\ a = 8 * j
  OBVIOUS
<1> HIDE DEF k, j
<1>3. v = (8 * j) * k
  BY <1>1, <1>2
<1>4. j * k \in Nat /\ (8 * j) * k = 8 * (j * k)
  BY <1>1, <1>2
<1>5. QED
  BY <1>3, <1>4

LEMMA LinkableSize ==
  ASSUME AlignmentsArePowers, NEW q \in Requests, Valid(q[1], q[2])
  PROVE  AlignedSize(q[1], q[2]) % FreeBlockAlign = 0
<1> DEFINE a == MAX(q[2], FreeBlockAlign)
           v == AlignedSize(q[1], q[2])
<1>1. q[1] \in Nat \ {0} /\ q[2] \in Nat
  <2>1. q \in Nat \X Nat
    BY PoolAssumption
  <2>2. QED
    BY <2>1 DEF Valid
<1>2. v \in Nat /\ v % a = 0 /\ a \in Nat \ {0}
  BY <1>1, AlignedSizeFacts
<1>3. a % 8 = 0
  BY <1>1 DEF AlignmentsArePowers, MAX, FreeBlockAlign
<1> HIDE DEF a, v
<1>4. v % 8 = 0
  BY <1>2, <1>3, MultipleOfEight
<1>5. QED
  BY <1>4 DEF v, FreeBlockAlign

LEMMA LinkableKept ==
  ASSUME AlignmentsArePowers, IInv, Linkable, [Next]_vars
  PROVE  Linkable'
<1>1. ASSUME NEW q \in Requests, AllocateExisting(q[1], q[2]) PROVE Linkable'
  <2>1. SameLevels(levels, levels')
    BY <1>1, AllocateExistingStep
  <2>2. QED
    BY <2>1 DEF SameLevels, Linkable
<1>2. ASSUME NEW q \in Requests, AllocateNewSub(q[1], q[2]) PROVE Linkable'
  <2>1. /\ DOMAIN levels' = DOMAIN levels
        /\ \E l \in DOMAIN levels, s \in Nat : Grown(levels, levels', l, s)
    BY <1>2, AllocateNewSubStep
  <2>2. \A k \in DOMAIN levels : levels'[k].elem_size = levels[k].elem_size
    BY <2>1 DEF Grown
  <2>3. QED
    BY <2>1, <2>2 DEF Linkable
<1>3. ASSUME NEW q \in Requests, AllocateNewLevel(q[1], q[2]) PROVE Linkable'
  <2> DEFINE l == Len(levels) + 1
  <2>1. /\ DOMAIN levels' \subseteq DOMAIN levels \cup {l}
        /\ levels'[l].elem_size = AlignedSize(q[1], q[2])
        /\ Grown(levels, levels', l, 1)
    BY <1>3, AllocateNewLevelStep
  <2> HIDE DEF l
  <2>2. AlignedSize(q[1], q[2]) % FreeBlockAlign = 0
    BY <1>3, LinkableSize DEF AllocateNewLevel
  <2>3. \A k \in DOMAIN levels : levels'[k].elem_size = levels[k].elem_size
    BY <2>1 DEF Grown
  <2>4. QED
    BY <2>1, <2>2, <2>3 DEF Linkable
<1>4. ASSUME NEW o \in live, Deallocate(o) PROVE Linkable'
  <2>1. SameLevels(levels, levels')
    BY <1>4, DeallocateStep
  <2>2. QED
    BY <2>1 DEF SameLevels, Linkable
<1>5. CASE Dtor
  <2>1. levels' = <<>> /\ DOMAIN <<>> = {}
    BY <1>5, DtorStep
  <2>2. QED
    BY <2>1 DEF Linkable
<1>6. ASSUME NEW count \in Counts, Ctor(count) PROVE Linkable'
  BY <1>6, CtorStep DEF Linkable
<1>7. CASE Idle
  BY <1>7 DEF Idle, Linkable
<1>8. QED
  BY <1>1, <1>2, <1>3, <1>4, <1>5, <1>6, <1>7, IdleSteps DEF Next

LEMMA TypesFollow ==
  ASSUME IInv, Linkable
  PROVE  TypeOK
<1>1. Shape
  BY DEF IInv
<1>2. CASE pool = NULL
  BY <1>1, <1>2 DEF IInv, Absent, Shape, Linkable, TypeOK, NULL
<1>3. CASE pool # NULL
  <2>1. Built
    BY <1>3 DEF IInv
  <2> DEFINE c == pool.count
             V == View(levels)
  <2>2. c \in Nat \ {0} /\ Sound(c, V, live) /\ pool.addr \in Nat /\ pool \in [addr : Nat, count : Nat]
    BY <2>1 DEF Built
  <2> HIDE DEF c, V
  <2>3. live \subseteq [ptr : Nat, len : Nat]
    <3>1. SUFFICES ASSUME NEW o \in live
                   PROVE  o \in [ptr : Nat, len : Nat]
      OBVIOUS
    <3>2. o \in [ptr : Nat, len : Nat \ {0}]
      BY <2>2 DEF Sound
    <3>3. QED
      BY <3>2
  <2>4. ASSUME NEW p \in DOMAIN V
        PROVE  ChunkOf(c, V[p]) \in Chunk
    <3>1. SubSound(c, V[p])
      BY <2>2 DEF Sound
    <3>2. /\ V[p].addr \in Nat /\ V[p].first \in Nat /\ V[p].size \in Nat
          /\ V[p].addr < V[p].first
      BY <3>1 DEF SubSound, SubView
    <3>3. c * V[p].size \in Nat
      BY <2>2, <3>2
    <3>4. Limit(c, V[p]) - V[p].addr \in Nat
      BY <3>2, <3>3 DEF Limit
    <3>5. QED
      BY <3>2, <3>4 DEF ChunkOf, Chunk
  <2>5. ChunksOf(pool, V) \subseteq Chunk
    <3>1. [base |-> pool.addr, len |-> PoolStructSize] \in Chunk
      BY <2>2 DEF Chunk, PoolStructSize
    <3>2. QED
      BY <2>4, <3>1 DEF ChunksOf, c
  <2>6. heap \subseteq Chunk
    BY <2>1, <2>5 DEF Built, V
  <2>7. QED
    BY <1>1, <2>2, <2>3, <2>6 DEF Shape, Linkable, TypeOK
<1>4. QED
  BY <1>2, <1>3

(* The variables hold what the structures of Pool.c hold, whatever was     *)
(* allocated and given back; the alignments are powers of two.             *)
THEOREM TypeCorrectness ==
  ASSUME AlignmentsArePowers
  PROVE  Spec => []TypeOK
<1>1. Init => Linkable
  <2>1. DOMAIN <<>> = {}
    OBVIOUS
  <2>2. QED
    BY <2>1 DEF Init, Linkable
<1>2. IInv /\ Linkable /\ [Next]_vars => Linkable'
  BY LinkableKept
<1>3. IInv /\ Linkable => TypeOK
  BY TypesFollow
<1>4. QED
  BY <1>1, <1>2, <1>3, Invariance, PTL DEF Spec

-----------------------------------------------------------------------------
(* What the invariant says of the blocks, the levels and the chunks.       *)

LEMMA BlocksFollow ==
  ASSUME IInv
  PROVE  EachBlockOnce
<1> SUFFICES ASSUME NEW l \in DOMAIN levels, NEW s \in DOMAIN levels[l].subs
             PROVE  LET free == levels[l].subs[s].free
                    IN  /\ IsInjective(free)
                        /\ ToSet(free) \cap InUse(l, s) = {}
                        /\ ToSet(free) \cup InUse(l, s) = BlocksOf(l, s)
  BY DEF EachBlockOnce
<1> DEFINE free == levels[l].subs[s].free
           V == View(levels)
           p == <<l, s>>
           c == pool.count
<1>1. Built
  <2>1. levels # <<>>
    OBVIOUS
  <2>2. QED
    BY <2>1 DEF IInv, Absent
<1>2. c \in Nat /\ Sound(c, V, live)
  BY <1>1 DEF Built
<1>3. p \in DOMAIN V /\ V[p] = SubAt(levels, l, s)
  BY PlaceFacts DEF PlacesOf
<1>4. /\ V[p].first = Start(l, s) /\ Limit(c, V[p]) = End(l, s)
      /\ V[p].chain = free /\ Cells(c, V[p]) = BlocksOf(l, s)
  BY <1>3 DEF SubAt, Start, End, Limit, Cells, BlocksOf
<1> HIDE DEF V, p, c, free
<1>5. SubSound(c, V[p])
  BY <1>2, <1>3 DEF Sound
<1>6. IsInjective(free) /\ ToSet(free) \subseteq BlocksOf(l, s)
  BY <1>4, <1>5 DEF SubSound
<1>7. ASSUME NEW o \in live, Holds(l, s, o.ptr)
      PROVE  o.ptr \in BlocksOf(l, s) /\ o.ptr \notin ToSet(free)
  <2>1. V[p].first <= o.ptr /\ o.ptr < Limit(c, V[p])
    BY <1>4, <1>7 DEF Holds
  <2>2. Belongs(c, V[p], o)
    BY <1>2, <1>3, <2>1, HolderOwns
  <2>3. QED
    BY <1>4, <2>2 DEF Belongs
<1>8. ASSUME NEW a \in BlocksOf(l, s), a \notin ToSet(free)
      PROVE  a \in InUse(l, s)
  <2>1. PICK o \in live : o.ptr = a
    BY <1>2, <1>3, <1>4, <1>8 DEF Sound
  <2>2. V[p].first <= a /\ a < Limit(c, V[p])
    BY <1>2, <1>4, <1>5, CellRange
  <2>3. Holds(l, s, o.ptr)
    BY <1>4, <2>1, <2>2 DEF Holds
  <2>4. QED
    BY <2>1, <2>3 DEF InUse
<1>9. \A a \in InUse(l, s) : a \in BlocksOf(l, s) /\ a \notin ToSet(free)
  BY <1>7 DEF InUse
<1>10. QED
  BY <1>6, <1>8, <1>9 DEF free

(* No block is lost, chained twice or chained in another sub pool.         *)
THEOREM EachBlockOnceAlways == Spec => []EachBlockOnce
BY BlocksFollow, Invariance, PTL

(* A size of block has one level, so a block given back serves the next    *)
(* request of its size.                                                    *)
THEOREM OneLevelPerSizeAlways == Spec => []OneLevelPerSize
<1>1. IInv => OneLevelPerSize
  BY DEF IInv, Shape
<1>2. QED
  BY <1>1, Invariance, PTL

LEMMA ChunksFollow ==
  ASSUME IInv
  PROVE  NoLeak
<1>1. CASE pool = NULL
  BY <1>1 DEF IInv, Absent, NoLeak
<1>2. CASE pool # NULL
  <2> DEFINE chunk(l, s) == [base |-> levels[l].subs[s].addr,
                             len  |-> End(l, s) - levels[l].subs[s].addr]
             chunks == UNION {{chunk(l, s) : s \in DOMAIN levels[l].subs} : l \in DOMAIN levels}
             others == {ChunkOf(pool.count, View(levels)[p]) : p \in DOMAIN View(levels)}
  <2>1. heap = {[base |-> pool.addr, len |-> PoolStructSize]} \cup others
    BY <1>2 DEF IInv, Built, ChunksOf
  <2>2. PlacesOf(levels)
    BY PlaceFacts
  <2>3. ASSUME NEW l \in DOMAIN levels, NEW s \in DOMAIN levels[l].subs
        PROVE  ChunkOf(pool.count, SubAt(levels, l, s)) = chunk(l, s)
    BY DEF ChunkOf, SubAt, Limit, End, Start
  <2> HIDE DEF chunk
  <2>4. ASSUME NEW x \in others
        PROVE  x \in chunks
    <3>1. PICK p \in DOMAIN View(levels) : x = ChunkOf(pool.count, View(levels)[p])
      OBVIOUS
    <3>2. /\ p[1] \in DOMAIN levels /\ p[2] \in DOMAIN levels[p[1]].subs
          /\ View(levels)[p] = SubAt(levels, p[1], p[2])
      BY <2>2 DEF PlacesOf
    <3>3. x = chunk(p[1], p[2])
      BY <2>3, <3>1, <3>2
    <3>4. x \in {chunk(p[1], s) : s \in DOMAIN levels[p[1]].subs}
      BY <3>2, <3>3
    <3>5. QED
      BY <3>2, <3>4, Zenon
  <2>5. ASSUME NEW x \in chunks
        PROVE  x \in others
    <3>1. PICK l \in DOMAIN levels : x \in {chunk(l, s) : s \in DOMAIN levels[l].subs}
      BY Zenon
    <3>2. PICK s \in DOMAIN levels[l].subs : x = chunk(l, s)
      BY <3>1
    <3>3. <<l, s>> \in DOMAIN View(levels) /\ View(levels)[<<l, s>>] = SubAt(levels, l, s)
      BY <2>2 DEF PlacesOf
    <3>4. x = ChunkOf(pool.count, View(levels)[<<l, s>>])
      BY <2>3, <3>2, <3>3
    <3>5. QED
      BY <3>3, <3>4
  <2> HIDE DEF chunks, others
  <2>6. heap = {[base |-> pool.addr, len |-> PoolStructSize]} \cup chunks
    BY <2>1, <2>4, <2>5
  <2>7. QED
    BY <1>2, <2>6, Zenon DEF NoLeak, chunks, chunk
<1>3. QED
  BY <1>1, <1>2

(* The chunks in use are the pool's and its sub pools': pool_dtor leaves   *)
(* nothing behind.                                                         *)
THEOREM NoLeakAlways == Spec => []NoLeak
BY ChunksFollow, Invariance, PTL

-----------------------------------------------------------------------------
(* When a level grows.                                                     *)

(* Lengths of the chains of sub pools are compared by their domains.       *)
LEMMA LongerHas ==
  ASSUME NEW lv \in Seq(Level), NEW mv \in Seq(Level), NEW k \in DOMAIN lv, k \in DOMAIN mv,
         DOMAIN mv[k].subs \subseteq DOMAIN lv[k].subs
  PROVE  ~(Len(mv[k].subs) > Len(lv[k].subs))
<1> DEFINE m == Len(mv[k].subs)
           n == Len(lv[k].subs)
<1>1. m \in Nat /\ DOMAIN mv[k].subs = 1 .. m
  BY LevelFacts
<1>2. n \in Nat /\ DOMAIN lv[k].subs = 1 .. n
  BY LevelFacts
<1> HIDE DEF m, n
<1>3. 1 .. m \subseteq 1 .. n
  BY <1>1, <1>2
<1>4. ~(m > n)
  <2>1. SUFFICES ASSUME m > n
                 PROVE  FALSE
    OBVIOUS
  <2>2. m \in 1 .. m /\ m \notin 1 .. n
    BY <1>1, <1>2, <2>1
  <2>3. QED
    BY <1>3, <2>2
<1>5. QED
  BY <1>4 DEF m, n

(* Level k has more sub pools after the step. *)
Grows(k) == Len(levels'[k].subs) > Len(levels[k].subs)

LEMMA GrowsWhere ==
  ASSUME levels \in Seq(Level), levels' \in Seq(Level), NEW l, NEW s,
         Grown(levels, levels', l, s), NEW k \in DOMAIN levels, k \in DOMAIN levels', Grows(k)
  PROVE  k = l
<1>1. SUFFICES ASSUME k # l
               PROVE  FALSE
  OBVIOUS
<1>2. DOMAIN levels'[k].subs \subseteq DOMAIN levels[k].subs
  BY <1>1 DEF Grown
<1>3. QED
  BY <1>2, LongerHas DEF Grows

LEMMA GrowsNot ==
  ASSUME levels \in Seq(Level), levels' \in Seq(Level), SameLevels(levels, levels'),
         NEW k \in DOMAIN levels, k \in DOMAIN levels'
  PROVE  ~Grows(k)
<1>1. DOMAIN levels'[k].subs \subseteq DOMAIN levels[k].subs
  BY DEF SameLevels
<1>2. QED
  BY <1>1, LongerHas DEF Grows

(* When all chains are empty, every block is in use. *)
LEMMA ExhaustedInUse ==
  ASSUME IInv, NEW l \in DOMAIN levels, Exhausted(l), NEW s \in DOMAIN levels[l].subs
  PROVE  InUse(l, s) = BlocksOf(l, s)
<1>1. /\ levels[l].subs[s].free = <<>>
      /\ ToSet(levels[l].subs[s].free) \cup InUse(l, s) = BlocksOf(l, s)
  BY BlocksFollow DEF EachBlockOnce, Exhausted
<1>2. ToSet(<<>>) = {}
  BY DEF ToSet
<1>3. QED
  BY <1>1, <1>2

LEMMA NextGrows ==
  ASSUME IInv, Next, NEW k \in DOMAIN levels \cap DOMAIN levels', Grows(k)
  PROVE  \A s \in DOMAIN levels[k].subs : InUse(k, s) = BlocksOf(k, s)
<1>1. levels \in Seq(Level) /\ levels' \in Seq(Level)
  <2>1. IInv'
    BY NextInv
  <2>2. QED
    BY <2>1 DEF IInv, Shape
<1>2. ASSUME NEW q \in Requests, AllocateExisting(q[1], q[2]) PROVE FALSE
  BY <1>1, <1>2, AllocateExistingStep, GrowsNot
<1>3. ASSUME NEW o \in live, Deallocate(o) PROVE FALSE
  BY <1>1, <1>3, DeallocateStep, GrowsNot
<1>4. ASSUME NEW q \in Requests, AllocateNewLevel(q[1], q[2]) PROVE FALSE
  <2> DEFINE l == Len(levels) + 1
  <2>1. Grown(levels, levels', l, 1)
    BY <1>4, AllocateNewLevelStep
  <2>2. l \notin DOMAIN levels
    BY <1>1, LevelFacts
  <2> HIDE DEF l
  <2>3. k = l
    BY <1>1, <2>1, GrowsWhere
  <2>4. QED
    BY <2>2, <2>3
<1>5. ASSUME NEW q \in Requests, AllocateNewSub(q[1], q[2]) PROVE Exhausted(k)
  <2>1. PICK l \in DOMAIN levels, s \in Nat : Exhausted(l) /\ Grown(levels, levels', l, s)
    BY <1>5, AllocateNewSubStep
  <2>2. k = l
    BY <1>1, <2>1, GrowsWhere
  <2>3. QED
    BY <2>1, <2>2
<1>6. SameLevels(levels, levels)
  BY DEF SameLevels
<1>7. CASE levels' = levels
  BY <1>1, <1>6, <1>7, GrowsNot
<1>8. CASE Dtor
  <2>1. levels' = <<>> /\ DOMAIN <<>> = {}
    BY <1>8, DtorStep
  <2>2. QED
    BY <2>1
<1>9. ASSUME NEW count \in Counts, Ctor(count) PROVE levels' = levels
  BY <1>9, CtorStep
<1>10. CASE Exhausted(k)
  BY <1>10, ExhaustedInUse
<1>11. QED
  BY <1>2, <1>3, <1>4, <1>5, <1>7, <1>8, <1>9, <1>10, IdleSteps DEF Next, Idle

(* A level gets another sub pool only when each of its blocks is in use.   *)
THEOREM GrowsOnlyWhenFullAlways == Spec => GrowsOnlyWhenFull
<1>1. IInv /\ [Next]_vars =>
        [\A l \in DOMAIN levels \cap DOMAIN levels' :
           Len(levels'[l].subs) > Len(levels[l].subs) =>
             \A s \in DOMAIN levels[l].subs : InUse(l, s) = BlocksOf(l, s)]_vars
  BY NextGrows DEF Grows
<1>2. QED
  BY <1>1, Invariance, PTL DEF Spec, GrowsOnlyWhenFull

-----------------------------------------------------------------------------
(* The contract of a memory resource.                                      *)

(* What is assumed of the requests: no alignment above malloc's.           *)
FundamentalAlignments == \A q \in Requests : q[2] \in {0, 1, 2, 4, 8, 16}

(* The n-th block of a sub pool is aligned as its level's size is. *)
LEMMA BlockAligned ==
  ASSUME NEW base \in Nat, base % 16 = 0, NEW m \in {16, 32}, NEW n \in Nat,
         NEW e \in Nat, NEW a \in {1, 2, 4, 8, 16}, e % MAX(a, 8) = 0
  PROVE  (base + m + n * e) % a = 0
<1> DEFINE j == base \div 16
<1>1. j \in Nat /\ base = 16 * j
  OBVIOUS
<1> HIDE DEF j
<1>2. CASE a = 16
  <2> DEFINE k == e \div 16
  <2>1. k \in Nat /\ e = 16 * k
    BY <1>2 DEF MAX
  <2> HIDE DEF k
  <2>2. n * k \in Nat /\ n * e = 16 * (n * k)
    BY <2>1
  <2>3. QED
    BY <1>1, <1>2, <2>2
<1>3. CASE a # 16
  <2> DEFINE k == e \div 8
  <2>1. k \in Nat /\ e = 8 * k
    BY <1>3 DEF MAX
  <2> HIDE DEF k
  <2>2. n * k \in Nat /\ n * e = 8 * (n * k)
    BY <2>1
  <2> DEFINE x == n * k
  <2> HIDE DEF x
  <2>3. n * e = 8 * x /\ x \in Nat
    BY <2>2 DEF x
  <2>4. base + m + n * e = 8 * (2 * j + (IF m = 16 THEN 2 ELSE 4) + x)
    BY <1>1, <2>3
  <2> DEFINE y == 2 * j + (IF m = 16 THEN 2 ELSE 4) + x
  <2>5. y \in Nat
    BY <1>1, <2>3
  <2> HIDE DEF y
  <2>6. base + m + n * e = 8 * y
    BY <2>4 DEF y
  <2>7. QED
    BY <1>3, <2>5, <2>6
<1>4. QED
  BY <1>2, <1>3

(* A block handed out is fresh, and apart from all others. *)
LEMMA HandsContract ==
  ASSUME IInv', pool' # NULL, NEW q \in Requests, NEW o, Hands(o), o.len = q[1],
         q[2] # 0, o.ptr % q[2] = 0
  PROVE  Contract!Allocate(q[1], q[2])
<1>1. /\ pool'.count \in Nat
      /\ Sound(pool'.count, View(levels'), live')
  BY DEF IInv, Built
<1>2. o \in live' /\ live' = live \cup {o} /\ o \notin live
  BY DEF Hands
<1>3. o \in Contract!Region
  <2>1. o \in [ptr : Nat, len : Nat \ {0}]
    BY <1>1, <1>2 DEF Sound
  <2>2. o.ptr # 0
    BY <1>1, <1>2, LivePlace
  <2>3. QED
    BY <2>1, <2>2 DEF Contract!Region
<1>4. \A u \in live : Contract!Apart(o, u)
  <2>1. SUFFICES ASSUME NEW u \in live
                 PROVE  o.ptr + o.len <= u.ptr \/ u.ptr + u.len <= o.ptr
    BY DEF Contract!Apart
  <2>2. u \in live' /\ o # u
    BY <1>2
  <2>3. QED
    BY <1>1, <1>2, <2>2, LiveApart
<1>5. QED
  BY <1>2, <1>3, <1>4 DEF Contract!Allocate

LEMMA ExistingImplements ==
  ASSUME FundamentalAlignments, IInv, NEW q \in Requests, AllocateExisting(q[1], q[2])
  PROVE  Contract!Allocate(q[1], q[2])
<1>1. /\ IInv' /\ pool # NULL
      /\ \E p \in DOMAIN View(levels) :
           /\ View(levels)[p].size = AlignedSize(q[1], q[2])
           /\ \E ptr \in Cells(pool.count, View(levels)[p]) :
                Hands([ptr |-> ptr, len |-> q[1]])
  BY AllocateExistingStep
<1>2. q[1] \in Nat \ {0} /\ q[2] \in {1, 2, 4, 8, 16} /\ pool' = pool
  <2>1. q \in Nat \X Nat
    BY PoolAssumption
  <2>2. q[2] \in {0, 1, 2, 4, 8, 16}
    BY DEF FundamentalAlignments
  <2>3. QED
    BY <2>1, <2>2 DEF AllocateExisting, Valid
<1>3a. PICK p \in DOMAIN View(levels) :
         /\ View(levels)[p].size = AlignedSize(q[1], q[2])
         /\ \E ptr \in Cells(pool.count, View(levels)[p]) :
              Hands([ptr |-> ptr, len |-> q[1]])
  BY <1>1
<1>3b. PICK ptr \in Cells(pool.count, View(levels)[p]) : Hands([ptr |-> ptr, len |-> q[1]])
  BY <1>3a
<1>3. /\ View(levels)[p].size = AlignedSize(q[1], q[2])
      /\ ptr \in Cells(pool.count, View(levels)[p])
      /\ Hands([ptr |-> ptr, len |-> q[1]])
  BY <1>3a, <1>3b
<1>4. /\ p[1] \in DOMAIN levels /\ p[2] \in DOMAIN levels[p[1]].subs
      /\ View(levels)[p] = SubAt(levels, p[1], p[2])
  BY PlaceFacts DEF PlacesOf
<1> DEFINE base == levels[p[1]].subs[p[2]].addr
           m == MetaSize(p[2])
           e == AlignedSize(q[1], q[2])
           a == q[2]
<1>5. base \in Nat /\ base % 16 = 0
  <2>1. base \in Bases
    BY <1>4 DEF IInv, Shape
  <2>2. QED
    BY <2>1, HeapAssumption DEF MallocAlignment
<1>6. m \in {16, 32}
  BY DEF MetaSize, FirstLevelSize, SecondLevelSize
<1>7. View(levels)[p].first = base + m
  BY <1>4 DEF SubAt
<1>8. e \in Nat /\ e % MAX(a, 8) = 0
  <2> HIDE DEF e, a
  <2>1. q[2] \in Nat
    BY <1>2
  <2>2. /\ AlignedSize(q[1], q[2]) \in Nat
        /\ AlignedSize(q[1], q[2]) % MAX(q[2], FreeBlockAlign) = 0
    BY <1>2, <2>1, AlignedSizeFacts
  <2>3. QED
    BY <2>2 DEF FreeBlockAlign, e, a
<1> HIDE DEF base, m, e, a
<1>9. PICK i \in 1 .. pool.count : ptr = base + m + (i - 1) * e
  BY <1>3, <1>7 DEF Cells, e
<1>10. i - 1 \in Nat
  <2>1. pool.count \in Nat
    BY <1>1 DEF IInv, Built
  <2>2. QED
    BY <2>1
<1>11. ptr % a = 0
  <2>1. a \in {1, 2, 4, 8, 16}
    BY <1>2 DEF a
  <2>2. (base + m + (i - 1) * e) % a = 0
    BY <1>5, <1>6, <1>8, <1>10, <2>1, BlockAligned
  <2>3. QED
    BY <1>9, <2>2
<1> DEFINE o == [ptr |-> ptr, len |-> q[1]]
<1>12. o.len = q[1] /\ o.ptr % q[2] = 0 /\ Hands(o)
  BY <1>3, <1>11 DEF a
<1> HIDE DEF o
<1>13. q[2] # 0 /\ pool' # NULL
  BY <1>1, <1>2
<1>14. QED
  BY <1>1, <1>12, <1>13, HandsContract

LEMMA FirstBlockImplements ==
  ASSUME FundamentalAlignments, IInv', pool' # NULL, NEW q \in Requests, Valid(q[1], q[2]),
         NEW base \in Bases, NEW s \in Nat, Hands(FirstBlock(base, s, q[1]))
  PROVE  Contract!Allocate(q[1], q[2])
<1> DEFINE o == FirstBlock(base, s, q[1])
           m == MetaSize(s)
           a == q[2]
<1>1. a \in {1, 2, 4, 8, 16}
  BY DEF FundamentalAlignments, Valid
<1>2. base \in Nat /\ base % 16 = 0
  BY HeapAssumption DEF MallocAlignment
<1>3. m \in {16, 32}
  BY DEF MetaSize, FirstLevelSize, SecondLevelSize
<1>4. o.ptr = base + m /\ o.len = q[1]
  BY DEF FirstBlock
<1> HIDE DEF o, m
<1>5. (base + m) % a = 0
  BY <1>1, <1>2, <1>3
<1>6. o.ptr % q[2] = 0 /\ q[2] # 0 /\ Hands(o)
  BY <1>1, <1>4, <1>5 DEF o
<1>7. QED
  BY <1>4, <1>6, HandsContract

LEMMA NextImplements ==
  ASSUME FundamentalAlignments, IInv, [Next]_vars
  PROVE  [Contract!Next]_live
<1>1. IInv'
  BY NextInv
<1>2. ASSUME NEW q \in Requests, AllocateExisting(q[1], q[2]) PROVE Contract!Next
  <2>1. Contract!Allocate(q[1], q[2])
    BY <1>2, ExistingImplements
  <2>2. QED
    BY <2>1 DEF Contract!Next
<1>3. ASSUME NEW q \in Requests, AllocateNewSub(q[1], q[2]) PROVE Contract!Next
  <2>1. /\ pool # NULL
        /\ \E base \in Bases, s \in Nat : Hands(FirstBlock(base, s, q[1]))
    BY <1>3, AllocateNewSubStep
  <2>2. pool' # NULL /\ Valid(q[1], q[2])
    BY <1>3, <2>1 DEF AllocateNewSub
  <2>3. Contract!Allocate(q[1], q[2])
    BY <1>1, <2>1, <2>2, FirstBlockImplements
  <2>4. QED
    BY <2>3 DEF Contract!Next
<1>4. ASSUME NEW q \in Requests, AllocateNewLevel(q[1], q[2]) PROVE Contract!Next
  <2>1. /\ pool # NULL
        /\ \E base \in Bases, s \in Nat : Hands(FirstBlock(base, s, q[1]))
    BY <1>4, AllocateNewLevelStep
  <2>2. pool' # NULL /\ Valid(q[1], q[2])
    BY <1>4, <2>1 DEF AllocateNewLevel
  <2>3. Contract!Allocate(q[1], q[2])
    BY <1>1, <2>1, <2>2, FirstBlockImplements
  <2>4. QED
    BY <2>3 DEF Contract!Next
<1>5. ASSUME NEW o \in live, Deallocate(o) PROVE Contract!Next
  <2>1. Contract!Deallocate
    BY <1>5, DeallocateStep DEF Contract!Deallocate
  <2>2. QED
    BY <2>1 DEF Contract!Next
<1>6. CASE Dtor
  BY <1>6, DtorStep DEF Contract!Release, Contract!Next
<1>7. ASSUME NEW count \in Counts, Ctor(count) PROVE live' = live
  BY <1>7, CtorStep
<1>8. CASE Idle
  BY <1>8 DEF Idle
<1>9. QED
  BY <1>2, <1>3, <1>4, <1>5, <1>6, <1>7, <1>8, IdleSteps DEF Next

(* What a pool hands out is as large and as aligned as asked and shares no *)
(* byte with anything else in use, for the alignments of fundamental       *)
(* types.                                                                  *)
THEOREM Refinement ==
  ASSUME FundamentalAlignments
  PROVE  Spec => ImplementsContract
<1>1. Init => Contract!Init
  BY DEF Init, Contract!Init
<1>2. IInv /\ [Next]_vars => [Contract!Next]_live
  BY NextImplements
<1>3. QED
  BY <1>1, <1>2, Invariance, PTL DEF Spec, ImplementsContract, Contract!Spec
=============================================================================
