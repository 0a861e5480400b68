--------------------------- MODULE FreeListProofs ---------------------------
(***************************************************************************)
(* Theorems about FreeList, for every pool size, request and placement of  *)
(* chunks by malloc.                                                       *)
(*                                                                         *)
(* The state is judged by one predicate, Sound(pls, fr, occ), on a chain   *)
(* of pools, their free lists and the allocations in use.  It is kept by   *)
(* the three things the code does to them: GrowSound appends a pool with a *)
(* single free block, TakeSound cuts an allocation from a free block, and  *)
(* GiveSound pushes the block of an allocation back.  Each action of the   *)
(* specification is one or two of these, and Invariance follows.           *)
(***************************************************************************)
EXTENDS FreeList, SequenceTheorems, TLAPS

(* The macro's word and its arguments are of no concern to the lemmas.     *)
LOCAL Arithmetic ==
  INSTANCE AlignProofs WITH WordBits <- 1, value <- 0, alignment <- 0

(* What AlignProofs shows of AlignUp.                                      *)
LEMMA AlignUpBounds ==
  ASSUME NEW v \in Nat, NEW a \in Nat \ {0}
  PROVE  AlignUp(v, a) \in v .. v + a - 1
<1>1. Arithmetic!AlignUp(v, a) = AlignUp(v, a)
  BY DEF AlignUp, Arithmetic!AlignUp
<1>2. QED
  BY <1>1, Arithmetic!AlignUpBounds

LEMMA AlignUpAligned ==
  ASSUME NEW v \in Nat, NEW a \in Nat \ {0}
  PROVE  AlignUp(v, a) % a = 0
<1>1. Arithmetic!AlignUp(v, a) = AlignUp(v, a)
  BY DEF AlignUp, Arithmetic!AlignUp
<1>2. QED
  BY <1>1, Arithmetic!AlignUpAligned

LEMMA AlignUpLeast ==
  ASSUME NEW v \in Nat, NEW a \in Nat \ {0},
         NEW w \in Nat, v <= w, w % a = 0
  PROVE  AlignUp(v, a) <= w
<1>1. Arithmetic!AlignUp(v, a) = AlignUp(v, a)
  BY DEF AlignUp, Arithmetic!AlignUp
<1>2. QED
  BY <1>1, Arithmetic!AlignUpLeast

LEMMA MultipleOfFour ==
  ASSUME NEW v \in Nat, NEW a \in Nat \ {0}, v % a = 0, a % 4 = 0
  PROVE  v % 4 = 0
<1>1. Arithmetic!WordAssumption
  BY DEF Arithmetic!WordAssumption
<1>2. QED
  BY <1>1, Arithmetic!MultipleOfFour

-----------------------------------------------------------------------------
(* Arithmetic of one block.                                                *)

(* Rounding up to a multiple of eight, where a free header may stand.      *)
LEMMA AlignUpByEight ==
  ASSUME NEW value \in Nat
  PROVE  /\ AlignUp(value, 8) \in value .. value + 7
         /\ AlignUp(value, 8) % 8 = 0
  BY DEF AlignUp

(* A payload leaves room for the header in front of it, and the padding is *)
(* less than the alignment.                                                *)
LEMMA PayloadBounds ==
  ASSUME NEW b \in Block, NEW alignment \in Nat
  PROVE  /\ Payload(b, alignment) \in Nat
         /\ Payload(b, alignment) >= b.addr + 8
         /\ Payload(b, alignment)
              <= b.addr + 8 + MAX(alignment, OccupiedHeaderAlign) - 1
<1>1. /\ MAX(alignment, OccupiedHeaderAlign) \in Nat \ {0}
      /\ b.addr + OccupiedHeaderSize \in Nat
  BY DEF MAX, OccupiedHeaderAlign, OccupiedHeaderSize, Block
<1>2. AlignUp(b.addr + OccupiedHeaderSize, MAX(alignment, OccupiedHeaderAlign))
        \in b.addr + OccupiedHeaderSize
             .. b.addr + OccupiedHeaderSize
                  + MAX(alignment, OccupiedHeaderAlign) - 1
  BY <1>1, AlignUpBounds
<1>3. QED
  BY <1>1, <1>2 DEF Payload, AlignPtr, OccupiedHeaderSize, Block

(* The alignments AlignmentAssumption admits.                              *)
Ordinary(alignment) == alignment \in {0, 1, 2} \/ alignment % 4 = 0

(* A payload is aligned as asked, and so is the header in front of it.     *)
LEMMA PayloadAligned ==
  ASSUME NEW b \in Block, NEW alignment \in Nat, Ordinary(alignment)
  PROVE  /\ Payload(b, alignment) % OccupiedHeaderAlign = 0
         /\ alignment # 0 => Payload(b, alignment) % alignment = 0
<1> DEFINE a == MAX(alignment, OccupiedHeaderAlign)
           p == Payload(b, alignment)
<1>1. a \in Nat \ {0} /\ a % 4 = 0
  BY DEF MAX, OccupiedHeaderAlign, Ordinary
<1>2. p \in Nat
  BY PayloadBounds
<1>3. p % a = 0
  BY <1>1, AlignUpAligned DEF Payload, AlignPtr, OccupiedHeaderSize, Block
<1>4. p % 4 = 0
  <2> HIDE DEF a, p
  <2>1. QED
    BY <1>1, <1>2, <1>3, MultipleOfFour
<1>5. ASSUME alignment # 0 PROVE p % alignment = 0
  <2>1. CASE alignment \in {1, 2}
    <3> HIDE DEF p
    <3>1. QED
      BY <2>1, <1>2, <1>4
  <2>2. CASE a = alignment
    BY <2>2, <1>3
  <2>3. QED
    BY <1>5, <2>1, <2>2 DEF MAX, OccupiedHeaderAlign, Ordinary
<1>6. QED
  BY <1>4, <1>5 DEF OccupiedHeaderAlign

(* A block is split behind the bytes asked for, where a free header may    *)
(* stand.                                                                  *)
LEMMA SplitPointBounds ==
  ASSUME NEW b \in Block, NEW size \in Nat, NEW alignment \in Nat
  PROVE  LET split == SplitPoint(b, size, alignment)
         IN  /\ split \in Nat
             /\ split >= Payload(b, alignment) + size
             /\ split % 8 = 0
<1>1. Payload(b, alignment) + size \in Nat
  BY PayloadBounds
<1>2. QED
  BY <1>1, AlignUpByEight, PayloadBounds DEF SplitPoint, AlignPtr, FreeHeaderAlign

\* A block that a free header can be written into.
Roomy(b) == b.size >= FreeHeaderSize /\ b.addr % FreeHeaderAlign = 0

(* The rest of a split block has room for a free header and ends where the *)
(* block ended.                                                            *)
LEMMA RemainderPlaced ==
  ASSUME NEW b \in Block, NEW size \in Nat, NEW alignment \in Nat,
         Splits(b, size, alignment)
  PROVE  LET rest == Remainder(b, size, alignment)
         IN  /\ rest \in Block
             /\ Roomy(rest)
             /\ rest.addr = SplitPoint(b, size, alignment)
             /\ BlockEnd(rest) = BlockEnd(b)
<1> DEFINE split == SplitPoint(b, size, alignment)
<1>1. split \in Nat /\ split % 8 = 0
  BY SplitPointBounds
<1>2. b.addr + b.size \in Nat /\ split + 16 < b.addr + b.size
  BY <1>1 DEF Splits, Block, BlockEnd, FreeHeaderSize
<1> HIDE DEF split
<1>3. QED
  BY <1>1, <1>2
     DEF split, Remainder, Block, BlockEnd, Roomy, FreeHeaderSize, FreeHeaderAlign

(* What an allocation writes into its header is where the kept part of the *)
(* block starts and how long it is: BlockOf finds the block again.         *)
LEMMA HeaderFaithful ==
  ASSUME NEW b \in Block, Roomy(b), b.size <= UINT32_MAX,
         NEW size \in Nat \ {0}, NEW alignment \in Nat,
         Fits(b, size, alignment)
  PROVE  LET h == Header(b, size, alignment)
         IN  /\ h \in Taken
             /\ h.size <= UINT32_MAX /\ h.padding <= UINT32_MAX
             /\ h.len = size /\ h.ptr = Payload(b, alignment)
             /\ BlockOf(h) \in Block
             /\ BlockOf(h).addr = b.addr
             /\ Roomy(BlockOf(h))
             /\ BlockEnd(BlockOf(h))
                  = IF Splits(b, size, alignment)
                    THEN SplitPoint(b, size, alignment) ELSE BlockEnd(b)
             /\ h.ptr - OccupiedHeaderSize >= BlockOf(h).addr
             /\ h.ptr + h.len <= BlockEnd(BlockOf(h))
             /\ BlockEnd(BlockOf(h)) <= BlockEnd(b)
<1> DEFINE h == Header(b, size, alignment)
           p == Payload(b, alignment)
           s == SplitPoint(b, size, alignment)
           kept == IF Splits(b, size, alignment) THEN s - b.addr ELSE b.size
<1>1. p \in Nat /\ p >= b.addr + 8 /\ p + size <= b.addr + b.size
  BY PayloadBounds DEF Fits, BlockEnd
<1>2. s \in Nat /\ s >= p + size /\ s % 8 = 0
  BY SplitPointBounds
<1>3. /\ kept \in Nat /\ kept <= b.size /\ kept >= 16
      /\ b.addr + kept >= p + size
  <2>1. CASE Splits(b, size, alignment)
    <3>1. s - b.addr >= 9 /\ s + 16 < b.addr + b.size
      BY <1>1, <1>2, <2>1 DEF Splits, BlockEnd, FreeHeaderSize, Block
    <3>2. b.addr \in Nat /\ b.size \in Nat /\ b.addr % 8 = 0
      BY DEF Block, Roomy, FreeHeaderAlign
    <3>3. s - b.addr >= 16
      BY <3>1, <3>2, <1>2
    <3>4. QED
      BY <2>1, <3>1, <3>2, <3>3, <1>1, <1>2
  <2>2. CASE ~Splits(b, size, alignment)
    BY <2>2, <1>1 DEF Block, Roomy, FreeHeaderSize
  <2>3. QED
    BY <2>1, <2>2
<1>4. p - 8 - b.addr \in 0 .. UINT32_MAX /\ kept \in 0 .. UINT32_MAX
  BY <1>1, <1>3, WidthAssumption DEF Block
<1>5. h = [ptr |-> p, len |-> size, size |-> kept, padding |-> p - 8 - b.addr]
  BY <1>4 DEF Header, UInt32, OccupiedHeaderSize
<1>6. BlockOf(h) = [addr |-> b.addr, size |-> kept]
  BY <1>5, <1>1 DEF BlockOf, OccupiedHeaderSize, Block
<1>7. BlockEnd(BlockOf(h)) = b.addr + kept
  BY <1>6 DEF BlockEnd
<1>8. b.addr + kept = IF Splits(b, size, alignment) THEN s ELSE BlockEnd(b)
  BY <1>2 DEF BlockEnd, Block
<1>9. h \in Taken
  BY <1>5, <1>4, <1>1 DEF Taken
<1> HIDE DEF h, p, s, kept
<1>10. QED
  BY <1>1, <1>3, <1>4, <1>5, <1>6, <1>7, <1>8, <1>9
     DEF h, p, s, Roomy, Block, BlockEnd, OccupiedHeaderSize, FreeHeaderSize

(* The elements of a sequence without its i-th.                            *)
LEMMA RemoveAtShape ==
  ASSUME NEW S, NEW s \in Seq(S), NEW i \in DOMAIN s
  PROVE  /\ RemoveAt(s, i) \in Seq(S)
         /\ DOMAIN RemoveAt(s, i) = 1 .. Len(s) - 1
         /\ \A k \in DOMAIN RemoveAt(s, i) :
              RemoveAt(s, i)[k] = s[IF k < i THEN k ELSE k + 1]
<1> DEFINE front == SubSeq(s, 1, i - 1)
           back == SubSeq(s, i + 1, Len(s))
<1>1. i \in 1 .. Len(s) /\ Len(s) \in Nat
  OBVIOUS
<1>2. /\ front \in Seq(S) /\ Len(front) = i - 1
      /\ \A k \in 1 .. i - 1 : front[k] = s[k]
  BY <1>1
<1>3. /\ back \in Seq(S) /\ Len(back) = Len(s) - i
      /\ \A k \in 1 .. Len(s) - i : back[k] = s[i + k]
  BY <1>1
<1>4. RemoveAt(s, i) = front \o back
  BY DEF RemoveAt
<1> HIDE DEF front, back
<1>5. /\ front \o back \in Seq(S) /\ Len(front \o back) = Len(s) - 1
      /\ \A k \in 1 .. Len(s) - 1 :
           (front \o back)[k] = IF k <= i - 1 THEN front[k] ELSE back[k - (i - 1)]
  <2>1. /\ front \o back \in Seq(S)
        /\ Len(front \o back) = Len(front) + Len(back)
        /\ \A k \in 1 .. Len(front) + Len(back) :
             (front \o back)[k] =
               IF k <= Len(front) THEN front[k] ELSE back[k - Len(front)]
    BY <1>2, <1>3, ConcatProperties
  <2>2. Len(front) + Len(back) = Len(s) - 1
    BY <1>1, <1>2, <1>3
  <2>3. QED
    BY <2>1, <2>2, <1>2
<1>6. ASSUME NEW k \in 1 .. Len(s) - 1
      PROVE  (front \o back)[k] = s[IF k < i THEN k ELSE k + 1]
  <2>1. CASE k < i
    BY <2>1, <1>1, <1>2, <1>5
  <2>2. CASE ~(k < i)
    <3>1. k - (i - 1) \in 1 .. Len(s) - i /\ i + (k - (i - 1)) = k + 1
      BY <2>2, <1>1
    <3>2. back[k - (i - 1)] = s[k + 1]
      BY <3>1, <1>3
    <3>3. QED
      BY <2>2, <3>2, <1>1, <1>5
  <2>3. QED
    BY <2>1, <2>2
<1>7. DOMAIN (front \o back) = 1 .. Len(s) - 1
  BY <1>1, <1>5
<1>8. QED
  BY <1>4, <1>5, <1>6, <1>7

(* f tells for every element of the list after an allocation which element *)
(* of the list before it comes from: the same block, or the block the      *)
(* allocation was cut from.                                                *)
Origin(f, rest, list, i, size, alignment) ==
  /\ f \in [DOMAIN rest -> DOMAIN list]
  /\ \A j, k \in DOMAIN rest : j # k => f[j] # f[k]
  /\ \A k \in DOMAIN rest :
       \/ f[k] # i /\ rest[k] = list[f[k]]
       \/ /\ f[k] = i
          /\ Splits(list[i], size, alignment)
          /\ rest[k] = Remainder(list[i], size, alignment)

(* Taking an allocation from a list makes no block of nothing: every block *)
(* left has an origin, and no two the same.                                *)
LEMMA FreeAfterShape ==
  ASSUME NEW list \in Seq(Block), NEW i \in DOMAIN list,
         NEW size \in Nat, NEW alignment \in Nat
  PROVE  /\ FreeAfter(list, i, size, alignment) \in Seq(Block)
         /\ \E f : Origin(f, FreeAfter(list, i, size, alignment),
                         list, i, size, alignment)
<1> DEFINE rest == FreeAfter(list, i, size, alignment)
<1>1. CASE Splits(list[i], size, alignment)
  <2>1. rest = [list EXCEPT ![i] = Remainder(list[i], size, alignment)]
    BY <1>1 DEF FreeAfter
  <2>2. Remainder(list[i], size, alignment) \in Block
    BY <1>1, RemainderPlaced
  <2>3. rest \in Seq(Block) /\ DOMAIN rest = DOMAIN list
    BY <2>1, <2>2
  <2>4. \A k \in DOMAIN rest :
          rest[k] = IF k = i THEN Remainder(list[i], size, alignment) ELSE list[k]
    BY <2>1
  <2> DEFINE f == [k \in DOMAIN rest |-> k]
  <2>5. f \in [DOMAIN rest -> DOMAIN list]
    BY <2>3
  <2>6. Origin(f, rest, list, i, size, alignment)
    BY <1>1, <2>3, <2>4, <2>5 DEF Origin
  <2>7. QED
    BY <2>3, <2>6
<1>2. CASE ~Splits(list[i], size, alignment)
  <2>1. rest = RemoveAt(list, i)
    BY <1>2 DEF FreeAfter
  <2>2. /\ rest \in Seq(Block)
        /\ DOMAIN rest = 1 .. Len(list) - 1
        /\ \A k \in DOMAIN rest : rest[k] = list[IF k < i THEN k ELSE k + 1]
    BY <2>1, RemoveAtShape
  <2> DEFINE f == [k \in DOMAIN rest |-> IF k < i THEN k ELSE k + 1]
  <2>3. f \in [DOMAIN rest -> DOMAIN list]
    BY <2>2
  <2>4. \A j, k \in DOMAIN rest : j # k => f[j] # f[k]
    BY <2>2
  <2>5. \A k \in DOMAIN rest : f[k] # i /\ rest[k] = list[f[k]]
    BY <2>2
  <2>6. Origin(f, rest, list, i, size, alignment)
    BY <2>2, <2>3, <2>4, <2>5 DEF Origin
  <2>7. QED
    BY <2>2, <2>6
<1>3. QED
  BY <1>1, <1>2

(* A block of a pool: between the pool's metadata and its end, and able to *)
(* hold a free header.                                                     *)
Placed(b, pool) == Inside(b, pool) /\ Roomy(b)

(* Two pools with no byte in common.                                       *)
Separate(m, n) == m.end <= n.addr \/ n.end <= m.addr

(* Pools share no byte, and a pool's size fits the uint32_t of a header.   *)
PoolsSound(pls) ==
  /\ \A p \in DOMAIN pls : PoolSize(pls[p]) \in 0 .. UINT32_MAX
  /\ \A p, q \in DOMAIN pls : p # q => Separate(pls[p], pls[q])

(* Every list holds blocks of its own pool, and no two free blocks share a *)
(* byte.                                                                   *)
FreeSound(pls, fr) ==
  /\ fr \in Seq(Seq(Block))
  /\ Len(fr) = Len(pls)
  /\ \A p \in DOMAIN fr : \A i \in DOMAIN fr[p] : Placed(fr[p][i], pls[p])
  /\ \A p, q \in DOMAIN fr : \A i \in DOMAIN fr[p], j \in DOMAIN fr[q] :
       (p # q \/ i # j) => Disjoint(fr[p][i], fr[q][j])

(* An allocation's header describes a block that holds the header and all  *)
(* the bytes asked for.                                                    *)
HeaderSound(o) ==
  /\ o \in Taken /\ BlockOf(o) \in Block
  /\ o.ptr % OccupiedHeaderAlign = 0
  /\ o.size <= UINT32_MAX /\ o.padding <= UINT32_MAX /\ o.len > 0
  /\ BlockOf(o).addr <= o.ptr - OccupiedHeaderSize
  /\ o.ptr + o.len <= BlockEnd(BlockOf(o))

(* The blocks of allocations lie in pools and share no byte.               *)
TakenSound(pls, occ) ==
  /\ \A o \in occ : HeaderSound(o)
  /\ \A o \in occ : \E p \in DOMAIN pls : Placed(BlockOf(o), pls[p])
  /\ \A o, u \in occ : o # u => Disjoint(BlockOf(o), BlockOf(u))

(* No block is both on a list and in use.                                  *)
FreeAndTakenApart(fr, occ) ==
  \A o \in occ : \A p \in DOMAIN fr : \A i \in DOMAIN fr[p] :
    Disjoint(BlockOf(o), fr[p][i])

(* The conjunction: a sound chain of pools, their lists and the            *)
(* allocations in use.                                                     *)
Sound(pls, fr, occ) ==
  /\ pls \in Seq(Pool)
  /\ PoolsSound(pls)
  /\ FreeSound(pls, fr)
  /\ TakenSound(pls, occ)
  /\ FreeAndTakenApart(fr, occ)

(* Blocks of separate pools share no byte.                                 *)
LEMMA SeparatePools ==
  ASSUME NEW b \in Block, NEW c \in Block, NEW m \in Pool, NEW n \in Pool,
         Inside(b, m), Inside(c, n), Separate(m, n)
  PROVE  Disjoint(b, c) /\ Disjoint(c, b)
BY DEF Inside, Separate, Disjoint, BlockEnd, PoolStart, POOL_METADATA_SIZE,
       Block, Pool

(* Appending a separate pool with a single free block keeps the state      *)
(* sound.                                                                  *)
LEMMA GrowSound ==
  ASSUME NEW pls, NEW fr, NEW occ, Sound(pls, fr, occ),
         NEW pool \in Pool, NEW b \in Block,
         Placed(b, pool), PoolSize(pool) \in 0 .. UINT32_MAX,
         \A p \in DOMAIN pls : Separate(pls[p], pool)
  PROVE  Sound(Append(pls, pool), Append(fr, <<b>>), occ)
<1> DEFINE n == Len(pls)
           pls2 == Append(pls, pool)
           fr2 == Append(fr, <<b>>)
<1>1. pls \in Seq(Pool) /\ fr \in Seq(Seq(Block)) /\ Len(fr) = n /\ n \in Nat
  BY DEF Sound, FreeSound
<1>2. /\ pls2 \in Seq(Pool) /\ DOMAIN pls2 = 1 .. n + 1
      /\ \A p \in 1 .. n : pls2[p] = pls[p]
      /\ pls2[n + 1] = pool
  BY <1>1
<1>3. /\ fr2 \in Seq(Seq(Block)) /\ DOMAIN fr2 = 1 .. n + 1 /\ Len(fr2) = Len(pls2)
      /\ \A p \in 1 .. n : fr2[p] = fr[p]
      /\ DOMAIN fr2[n + 1] = {1} /\ fr2[n + 1][1] = b
  BY <1>1
<1>4. DOMAIN pls = 1 .. n /\ DOMAIN fr = 1 .. n
  BY <1>1
<1> HIDE DEF n, pls2, fr2
<1>5. PoolsSound(pls2)
  <2>1. \A p \in 1 .. n + 1 : p \in 1 .. n \/ p = n + 1
    BY <1>1
  <2>2. QED
    BY <1>2, <1>4, <2>1 DEF Sound, PoolsSound, Separate
<1>6. \A p \in DOMAIN fr2 : \A i \in DOMAIN fr2[p] : Placed(fr2[p][i], pls2[p])
  <2> SUFFICES ASSUME NEW p \in 1 .. n + 1, NEW i \in DOMAIN fr2[p]
               PROVE  Placed(fr2[p][i], pls2[p])
    BY <1>3
  <2>1. CASE p \in 1 .. n
    BY <2>1, <1>2, <1>3, <1>4 DEF Sound, FreeSound
  <2>2. CASE p = n + 1
    BY <2>2, <1>2, <1>3
  <2>3. QED
    BY <2>1, <2>2, <1>1
<1>7. \A q \in 1 .. n : \A j \in DOMAIN fr[q] : Disjoint(b, fr[q][j]) /\ Disjoint(fr[q][j], b)
  <2> SUFFICES ASSUME NEW q \in 1 .. n, NEW j \in DOMAIN fr[q]
               PROVE  Disjoint(b, fr[q][j]) /\ Disjoint(fr[q][j], b)
    OBVIOUS
  <2>1. fr[q] \in Seq(Block) /\ fr[q][j] \in Block /\ pls[q] \in Pool
    BY <1>1, <1>4
  <2>2. Inside(fr[q][j], pls[q]) /\ Inside(b, pool) /\ Separate(pls[q], pool)
    BY <1>4 DEF Sound, FreeSound, Placed
  <2>3. QED
    BY <2>1, <2>2, SeparatePools
<1>8. \A p, q \in DOMAIN fr2 : \A i \in DOMAIN fr2[p], j \in DOMAIN fr2[q] :
        (p # q \/ i # j) => Disjoint(fr2[p][i], fr2[q][j])
  <2> SUFFICES ASSUME NEW p \in 1 .. n + 1, NEW q \in 1 .. n + 1,
                      NEW i \in DOMAIN fr2[p], NEW j \in DOMAIN fr2[q],
                      p # q \/ i # j
               PROVE  Disjoint(fr2[p][i], fr2[q][j])
    BY <1>3
  <2>1. CASE p \in 1 .. n /\ q \in 1 .. n
    BY <2>1, <1>3, <1>4 DEF Sound, FreeSound
  <2>2. CASE p \in 1 .. n /\ q = n + 1
    BY <2>2, <1>3, <1>7
  <2>3. CASE p = n + 1 /\ q \in 1 .. n
    BY <2>3, <1>3, <1>7
  <2>4. CASE p = n + 1 /\ q = n + 1
    BY <2>4, <1>3
  <2>5. QED
    BY <2>1, <2>2, <2>3, <2>4, <1>1
<1>9. TakenSound(pls2, occ)
  <2>1. \A o \in occ : \E p \in DOMAIN pls2 : Placed(BlockOf(o), pls2[p])
    <3> SUFFICES ASSUME NEW o \in occ
                 PROVE  \E p \in DOMAIN pls2 : Placed(BlockOf(o), pls2[p])
      OBVIOUS
    <3>1. PICK p \in DOMAIN pls : Placed(BlockOf(o), pls[p])
      BY DEF Sound, TakenSound
    <3>2. p \in DOMAIN pls2 /\ pls2[p] = pls[p]
      BY <1>1, <1>2, <1>4
    <3>3. QED
      BY <3>1, <3>2
  <2>2. QED
    BY <2>1 DEF Sound, TakenSound
<1>10. \A o \in occ : Disjoint(BlockOf(o), b)
  <2> SUFFICES ASSUME NEW o \in occ PROVE Disjoint(BlockOf(o), b)
    OBVIOUS
  <2>1. PICK p \in DOMAIN pls : Placed(BlockOf(o), pls[p])
    BY DEF Sound, TakenSound
  <2>2. BlockOf(o) \in Block /\ pls[p] \in Pool
    BY <1>1 DEF Sound, TakenSound, HeaderSound
  <2>3. Inside(BlockOf(o), pls[p]) /\ Inside(b, pool) /\ Separate(pls[p], pool)
    BY <2>1 DEF Placed
  <2>4. QED
    BY <2>2, <2>3, SeparatePools
<1>11. FreeAndTakenApart(fr2, occ)
  <2> SUFFICES ASSUME NEW o \in occ, NEW p \in 1 .. n + 1, NEW i \in DOMAIN fr2[p]
               PROVE  Disjoint(BlockOf(o), fr2[p][i])
    BY <1>3 DEF FreeAndTakenApart
  <2>1. CASE p \in 1 .. n
    BY <2>1, <1>3, <1>4 DEF Sound, FreeAndTakenApart
  <2>2. CASE p = n + 1
    BY <2>2, <1>3, <1>10
  <2>3. QED
    BY <2>1, <2>2, <1>1
<1>12. QED
  BY <1>2, <1>3, <1>5, <1>6, <1>8, <1>9, <1>11 DEF Sound, FreeSound, pls2, fr2

(* Block c is part of block d.                                             *)
Within(c, d) == d.addr <= c.addr /\ BlockEnd(c) <= BlockEnd(d)

(* Parts of blocks that share no byte share none.                          *)
LEMMA WithinDisjoint ==
  ASSUME NEW b \in Block, NEW c \in Block, NEW d \in Block, NEW e \in Block,
         Within(b, d), Within(c, e), Disjoint(d, e)
  PROVE  Disjoint(b, c) /\ Disjoint(c, b)
BY DEF Within, Disjoint, BlockEnd, Block

(* A part of a block of a pool lies in the pool.                           *)
LEMMA WithinInside ==
  ASSUME NEW b \in Block, NEW c \in Block, NEW m \in Pool,
         Inside(b, m), Within(c, b)
  PROVE  Inside(c, m)
BY DEF Within, Inside, PoolStart, POOL_METADATA_SIZE, BlockEnd, Block, Pool

(* Cutting an allocation from a free block that has room for it keeps the  *)
(* state sound.                                                            *)
LEMMA TakeSound ==
  ASSUME NEW pls, NEW fr, NEW occ, Sound(pls, fr, occ),
         NEW p \in DOMAIN fr, NEW i \in DOMAIN fr[p],
         NEW size \in Nat \ {0}, NEW alignment \in Nat, Ordinary(alignment),
         Fits(fr[p][i], size, alignment)
  PROVE  Sound(pls, [fr EXCEPT ![p] = FreeAfter(fr[p], i, size, alignment)],
               occ \cup {Header(fr[p][i], size, alignment)})
<1> DEFINE b == fr[p][i]
           rest == FreeAfter(fr[p], i, size, alignment)
           fr2 == [fr EXCEPT ![p] = rest]
           h == Header(b, size, alignment)
           kept == BlockOf(h)
<1> HIDE DEF h, kept
<1>1. /\ pls \in Seq(Pool) /\ fr \in Seq(Seq(Block)) /\ Len(fr) = Len(pls)
      /\ fr[p] \in Seq(Block) /\ b \in Block /\ pls[p] \in Pool
      /\ p \in DOMAIN pls
  BY DEF Sound, FreeSound
<1>2. Inside(b, pls[p]) /\ Roomy(b) /\ PoolSize(pls[p]) \in 0 .. UINT32_MAX
  BY <1>1 DEF Sound, FreeSound, PoolsSound, Placed
<1>3. size \in Nat /\ Fits(b, size, alignment)
  OBVIOUS
<1>4. /\ rest \in Seq(Block)
      /\ \E f : Origin(f, rest, fr[p], i, size, alignment)
  BY <1>1, <1>3, FreeAfterShape
<1> HIDE DEF rest
<1>5. PICK f : Origin(f, rest, fr[p], i, size, alignment)
  BY <1>4
<1>6. /\ f \in [DOMAIN rest -> DOMAIN fr[p]]
      /\ \A j, k \in DOMAIN rest : j # k => f[j] # f[k]
      /\ \A k \in DOMAIN rest :
           \/ f[k] # i /\ rest[k] = fr[p][f[k]]
           \/ /\ f[k] = i
              /\ Splits(b, size, alignment)
              /\ rest[k] = Remainder(b, size, alignment)
  BY <1>5 DEF Origin
<1>7. /\ fr2 \in Seq(Seq(Block)) /\ Len(fr2) = Len(pls)
      /\ DOMAIN fr2 = DOMAIN fr
      /\ fr2[p] = rest
      /\ \A q \in DOMAIN fr : q # p => fr2[q] = fr[q]
  BY <1>1, <1>4
<1> HIDE DEF b, fr2
<1>a. b.size <= UINT32_MAX
  BY <1>1, <1>2, WidthAssumption
     DEF Inside, PoolSize, PoolStart, BlockEnd, Block, Pool, POOL_METADATA_SIZE
<1>b. /\ HeaderSound(h) /\ kept \in Block /\ Roomy(kept) /\ Within(kept, b)
      /\ Splits(b, size, alignment) =>
           BlockEnd(kept) = SplitPoint(b, size, alignment)
  <2>1. /\ h \in Taken
        /\ h.size <= UINT32_MAX /\ h.padding <= UINT32_MAX
        /\ h.len = size /\ h.ptr = Payload(b, alignment)
        /\ BlockOf(h) \in Block
        /\ BlockOf(h).addr = b.addr
        /\ Roomy(BlockOf(h))
        /\ Splits(b, size, alignment) =>
             BlockEnd(BlockOf(h)) = SplitPoint(b, size, alignment)
        /\ h.ptr - OccupiedHeaderSize >= BlockOf(h).addr
        /\ h.ptr + h.len <= BlockEnd(BlockOf(h))
        /\ BlockEnd(BlockOf(h)) <= BlockEnd(b)
    BY <1>1, <1>2, <1>3, <1>a, HeaderFaithful DEF h
  <2>2. HeaderSound(h)
    BY <2>1, <1>1, PayloadAligned DEF HeaderSound, Block, Taken, OccupiedHeaderSize
  <2>3. QED
    BY <2>1, <2>2, <1>1 DEF Within, Block, kept
<1> DEFINE Old(q, j) == IF q = p THEN f[j] ELSE j
<1>8. ASSUME NEW q \in DOMAIN fr, NEW j \in DOMAIN fr2[q]
      PROVE  /\ Old(q, j) \in DOMAIN fr[q]
             /\ fr2[q][j] \in Block /\ fr[q][Old(q, j)] \in Block
             /\ Within(fr2[q][j], fr[q][Old(q, j)])
             /\ Roomy(fr2[q][j])
             /\ q = p /\ f[j] = i => Disjoint(kept, fr2[q][j])
  <2>1. CASE q = p /\ f[j] = i
    <3>1. /\ Splits(b, size, alignment)
          /\ fr2[q][j] = Remainder(b, size, alignment)
      BY <2>1, <1>6, <1>7
    <3>2. /\ fr2[q][j] \in Block /\ Roomy(fr2[q][j])
          /\ fr2[q][j].addr = SplitPoint(b, size, alignment)
          /\ BlockEnd(fr2[q][j]) = BlockEnd(b)
      BY <3>1, <1>1, <1>3, RemainderPlaced
    <3>3. SplitPoint(b, size, alignment) >= b.addr
      <4>1. /\ Payload(b, alignment) \in Nat
            /\ Payload(b, alignment) >= b.addr + 8
        BY <1>1, PayloadBounds
      <4>2. /\ SplitPoint(b, size, alignment) \in Nat
            /\ SplitPoint(b, size, alignment) >= Payload(b, alignment) + size
        BY <1>1, <1>3, SplitPointBounds
      <4>3. QED
        BY <4>1, <4>2, <1>1, <1>3 DEF Block
    <3>4. Old(q, j) = i /\ fr[q][i] = b
      BY <2>1 DEF b
    <3>5. Within(fr2[q][j], b)
      BY <3>2, <3>3, <1>1 DEF Within, BlockEnd, Block
    <3>6. Disjoint(kept, fr2[q][j])
      BY <3>1, <3>2, <1>b DEF Disjoint, Block, BlockEnd
    <3>7. QED
      BY <2>1, <3>2, <3>4, <3>5, <3>6, <1>1
  <2>2. CASE ~(q = p /\ f[j] = i)
    <3>1. Old(q, j) \in DOMAIN fr[q] /\ fr2[q][j] = fr[q][Old(q, j)]
      BY <2>2, <1>6, <1>7
    <3>2. fr[q] \in Seq(Block) /\ fr[q][Old(q, j)] \in Block
      BY <3>1, <1>1
    <3>3. Roomy(fr[q][Old(q, j)])
      BY <3>1 DEF Sound, FreeSound, Placed
    <3>4. Within(fr2[q][j], fr2[q][j])
      BY <3>1, <3>2 DEF Within, BlockEnd, Block
    <3>5. QED
      BY <2>2, <3>1, <3>2, <3>3, <3>4
  <2>3. QED
    BY <2>1, <2>2
<1>9. \A q \in DOMAIN fr : \A j, k \in DOMAIN fr2[q] : j # k => Old(q, j) # Old(q, k)
  BY <1>6, <1>7
<1> HIDE DEF Old
<1>10. FreeSound(pls, fr2)
  <2>1. ASSUME NEW q \in DOMAIN fr, NEW j \in DOMAIN fr2[q]
        PROVE  Placed(fr2[q][j], pls[q])
    <3>1. Inside(fr[q][Old(q, j)], pls[q])
      BY <1>8 DEF Sound, FreeSound, Placed
    <3>2. pls[q] \in Pool
      BY <1>1
    <3>3. Inside(fr2[q][j], pls[q])
      BY <3>1, <3>2, <1>8, WithinInside
    <3>4. QED
      BY <3>3, <1>8 DEF Placed
  <2>2. ASSUME NEW q \in DOMAIN fr, NEW r \in DOMAIN fr,
               NEW j \in DOMAIN fr2[q], NEW k \in DOMAIN fr2[r],
               q # r \/ j # k
        PROVE  Disjoint(fr2[q][j], fr2[r][k])
    <3>1. q # r \/ Old(q, j) # Old(r, k)
      BY <2>2, <1>9
    <3>2. Disjoint(fr[q][Old(q, j)], fr[r][Old(r, k)])
      BY <3>1, <1>8 DEF Sound, FreeSound
    <3>3. QED
      BY <3>2, <1>8, WithinDisjoint
  <2>3. QED
    BY <1>7, <2>1, <2>2 DEF FreeSound
<1>11. \A o \in occ : BlockOf(o) \in Block /\ Disjoint(BlockOf(o), b)
  BY DEF Sound, FreeAndTakenApart, TakenSound, HeaderSound, b
<1>12. \A o \in occ : Disjoint(BlockOf(o), kept) /\ Disjoint(kept, BlockOf(o))
  <2> SUFFICES ASSUME NEW o \in occ
               PROVE  Disjoint(BlockOf(o), kept) /\ Disjoint(kept, BlockOf(o))
    OBVIOUS
  <2>1. Within(BlockOf(o), BlockOf(o))
    BY <1>11 DEF Within, BlockEnd, Block
  <2>2. QED
    BY <2>1, <1>1, <1>b, <1>11, WithinDisjoint
<1>13. TakenSound(pls, occ \cup {h})
  <2>1. Placed(kept, pls[p])
    BY <1>1, <1>2, <1>b, WithinInside DEF Placed
  <2>2. p \in DOMAIN pls
    BY <1>1
  <2>3. QED
    BY <2>1, <2>2, <1>b, <1>12 DEF Sound, TakenSound, kept
<1>14. FreeAndTakenApart(fr2, occ \cup {h})
  <2>1. ASSUME NEW o \in occ, NEW q \in DOMAIN fr, NEW j \in DOMAIN fr2[q]
        PROVE  Disjoint(BlockOf(o), fr2[q][j])
    <3>1. Disjoint(BlockOf(o), fr[q][Old(q, j)])
      BY <1>8 DEF Sound, FreeAndTakenApart
    <3>2. Within(BlockOf(o), BlockOf(o))
      BY <1>11 DEF Within, BlockEnd, Block
    <3>3. QED
      BY <3>1, <3>2, <1>8, <1>11, WithinDisjoint
  <2>2. ASSUME NEW q \in DOMAIN fr, NEW j \in DOMAIN fr2[q]
        PROVE  Disjoint(kept, fr2[q][j])
    <3>1. CASE q = p /\ f[j] = i
      BY <3>1, <1>8
    <3>2. CASE ~(q = p /\ f[j] = i)
      <4>1. q # p \/ Old(q, j) # i
        BY <3>2 DEF Old
      <4>2. Disjoint(b, fr[q][Old(q, j)])
        BY <4>1, <1>8 DEF Sound, FreeSound, b
      <4>3. QED
        BY <4>2, <1>1, <1>b, <1>8, WithinDisjoint
    <3>3. QED
      BY <3>1, <3>2
  <2>3. QED
    BY <1>7, <2>1, <2>2 DEF FreeAndTakenApart, kept
<1>15. QED
  BY <1>1, <1>10, <1>13, <1>14 DEF Sound, fr2, rest, h, b

(* The range check of a deallocation accepts an allocation of the pool.    *)
LEMMA CheckPtrOfInside ==
  ASSUME NEW b \in Block, NEW m \in Pool, NEW ptr \in Nat,
         Inside(b, m), b.addr <= ptr, ptr < BlockEnd(b)
  PROVE  CheckPtr(m, ptr)
BY DEF CheckPtr, Inside, PoolStart, POOL_METADATA_SIZE, BlockEnd, Block, Pool

(* It accepts it for no other pool: the ranges of two pools share no       *)
(* address.                                                                *)
LEMMA CheckPtrOnce ==
  ASSUME NEW m \in Pool, NEW n \in Pool, NEW ptr \in Nat,
         CheckPtr(m, ptr), CheckPtr(n, ptr)
  PROVE  ~Separate(m, n)
BY DEF CheckPtr, Separate, PoolStart, POOL_METADATA_SIZE, Pool

(* Pushing the block of an allocation on the list of the pool whose range  *)
(* holds its address keeps the state sound.                                *)
LEMMA GiveSound ==
  ASSUME NEW pls, NEW fr, NEW occ, Sound(pls, fr, occ),
         NEW o \in occ, NEW p \in DOMAIN fr, CheckPtr(pls[p], o.ptr)
  PROVE  Sound(pls, [fr EXCEPT ![p] = <<BlockOf(o)>> \o fr[p]], occ \ {o})
<1> DEFINE b == BlockOf(o)
           rest == <<b>> \o fr[p]
           fr2 == [fr EXCEPT ![p] = rest]
<1>1. /\ pls \in Seq(Pool) /\ fr \in Seq(Seq(Block)) /\ Len(fr) = Len(pls)
      /\ fr[p] \in Seq(Block) /\ b \in Block /\ pls[p] \in Pool
      /\ p \in DOMAIN pls
  BY DEF Sound, FreeSound, TakenSound, HeaderSound
<1>2. Placed(b, pls[p])
  <2>1. PICK q \in DOMAIN pls : Placed(b, pls[q])
    BY DEF Sound, TakenSound
  <2>2. pls[q] \in Pool
    BY <1>1
  <2>3. /\ o.ptr \in Nat /\ b.addr <= o.ptr /\ o.ptr < BlockEnd(b)
    BY <1>1 DEF Sound, TakenSound, HeaderSound, Taken, Block, BlockEnd,
                OccupiedHeaderSize
  <2>4. CheckPtr(pls[q], o.ptr)
    BY <1>1, <2>1, <2>2, <2>3, CheckPtrOfInside DEF Placed
  <2>5. ~Separate(pls[p], pls[q])
    BY <1>1, <2>2, <2>3, <2>4, CheckPtrOnce
  <2>6. p = q
    BY <1>1, <2>5 DEF Sound, PoolsSound
  <2>7. QED
    BY <2>1, <2>6
<1>3. \A q \in DOMAIN fr : \A j \in DOMAIN fr[q] :
        Disjoint(b, fr[q][j]) /\ Disjoint(fr[q][j], b)
  BY DEF Sound, FreeAndTakenApart, Disjoint
<1>4. \A u \in occ \ {o} : Disjoint(BlockOf(u), b)
  BY DEF Sound, TakenSound
<1> HIDE DEF b
<1>5. /\ rest \in Seq(Block) /\ DOMAIN rest = 1 .. Len(fr[p]) + 1
      /\ rest[1] = b
      /\ \A j \in 2 .. Len(fr[p]) + 1 : rest[j] = fr[p][j - 1]
  <2>1. <<b>> \in Seq(Block) /\ Len(<<b>>) = 1 /\ <<b>>[1] = b
    BY <1>1
  <2>2. /\ rest \in Seq(Block) /\ Len(rest) = 1 + Len(fr[p])
        /\ \A j \in 1 .. 1 + Len(fr[p]) :
             rest[j] = IF j <= 1 THEN <<b>>[j] ELSE fr[p][j - 1]
    BY <1>1, <2>1, ConcatProperties
  <2>3. QED
    BY <1>1, <2>1, <2>2
<1> HIDE DEF rest
<1>6. /\ fr2 \in Seq(Seq(Block)) /\ Len(fr2) = Len(pls)
      /\ DOMAIN fr2 = DOMAIN fr
      /\ fr2[p] = rest
      /\ \A q \in DOMAIN fr : q # p => fr2[q] = fr[q]
  BY <1>1, <1>5
<1> HIDE DEF fr2
<1> DEFINE New(q, j) == q = p /\ j = 1
           Old(q, j) == IF q = p THEN j - 1 ELSE j
<1>7. ASSUME NEW q \in DOMAIN fr, NEW j \in DOMAIN fr2[q]
      PROVE  \/ New(q, j) /\ q = p /\ fr2[q][j] = b
             \/ /\ ~New(q, j) /\ Old(q, j) \in DOMAIN fr[q]
                /\ fr2[q][j] = fr[q][Old(q, j)]
  <2>1. CASE q = p
    BY <2>1, <1>1, <1>5, <1>6
  <2>2. CASE q # p
    BY <2>2, <1>6
  <2>3. QED
    BY <2>1, <2>2
<1>8. ASSUME NEW q \in DOMAIN fr, NEW j \in DOMAIN fr2[q], NEW k \in DOMAIN fr2[q],
             j # k
      PROVE  Old(q, j) # Old(q, k) /\ ~(New(q, j) /\ New(q, k))
  BY <1>1, <1>5, <1>6, <1>8
<1>a. \A q, r, j, k : New(q, j) /\ New(r, k) => q = r /\ j = k
  OBVIOUS
<1> HIDE DEF New, Old
<1>9. FreeSound(pls, fr2)
  <2>1. ASSUME NEW q \in DOMAIN fr, NEW j \in DOMAIN fr2[q]
        PROVE  Placed(fr2[q][j], pls[q])
    <3>1. CASE New(q, j)
      BY <3>1, <1>2, <1>7
    <3>2. CASE ~New(q, j)
      BY <3>2, <1>7 DEF Sound, FreeSound
    <3>3. QED
      BY <3>1, <3>2
  <2>2. ASSUME NEW q \in DOMAIN fr, NEW r \in DOMAIN fr,
               NEW j \in DOMAIN fr2[q], NEW k \in DOMAIN fr2[r],
               q # r \/ j # k
        PROVE  Disjoint(fr2[q][j], fr2[r][k])
    <3>1. ~(New(q, j) /\ New(r, k))
      BY <2>2, <1>a
    <3>2. CASE New(q, j)
      BY <3>1, <3>2, <1>3, <1>7
    <3>3. CASE New(r, k)
      BY <3>1, <3>3, <1>3, <1>7
    <3>4. CASE ~New(q, j) /\ ~New(r, k)
      <4>1. q # r \/ Old(q, j) # Old(r, k)
        BY <2>2, <1>8
      <4>2. QED
        BY <3>4, <4>1, <1>7 DEF Sound, FreeSound
    <3>5. QED
      BY <3>2, <3>3, <3>4
  <2>3. QED
    BY <1>6, <2>1, <2>2 DEF FreeSound
<1>10. FreeAndTakenApart(fr2, occ \ {o})
  <2> SUFFICES ASSUME NEW u \in occ \ {o}, NEW q \in DOMAIN fr, NEW j \in DOMAIN fr2[q]
               PROVE  Disjoint(BlockOf(u), fr2[q][j])
    BY <1>6 DEF FreeAndTakenApart
  <2>1. CASE New(q, j)
    BY <2>1, <1>4, <1>7
  <2>2. CASE ~New(q, j)
    BY <2>2, <1>7 DEF Sound, FreeAndTakenApart
  <2>3. QED
    BY <2>1, <2>2
<1>11. TakenSound(pls, occ \ {o})
  BY DEF Sound, TakenSound
<1>12. QED
  BY <1>1, <1>9, <1>10, <1>11 DEF Sound, fr2, rest, b

-----------------------------------------------------------------------------
(* The assumptions of the theorems.  No pool is larger than a header can   *)
(* describe; and malloc keeps at least as many bytes between two chunks as *)
(* the first pool reaches behind its own, the size of a FreeList (see      *)
(* PoolsInChunks).                                                         *)
HeadersHoldPools ==
  /\ \A pool_size \in PoolSizes : pool_size + FreeListSize <= UINT32_MAX
  /\ MallocGap >= FreeListSize

(* What free_list_pool_ctor lays out: one block that fills the pool, and a *)
(* pool that ends with its chunk, or, if it is the first, the size of a    *)
(* FreeList behind it.                                                     *)
LEMMA FreshPool ==
  ASSUME NEW base \in Nat, base % MallocAlignment = 0, NEW first \in BOOLEAN,
         NEW size \in Nat, size + InFront(first) <= UINT32_MAX
  PROVE  /\ NewPool(base, size, first) \in Pool
         /\ FirstBlock(base, size, first) \in Block
         /\ Placed(FirstBlock(base, size, first), NewPool(base, size, first))
         /\ PoolSize(NewPool(base, size, first)) \in 0 .. UINT32_MAX
         /\ FirstBlock(base, size, first).size >= size
         /\ AllocSize(size) \in Nat
         /\ base <= NewPool(base, size, first).addr
         /\ NewPool(base, size, first).end
              <= base + AllocSize(size) + InFront(first)
<1> DEFINE extra == InFront(first)
           room == MAX(size, 16)
<1>1. /\ room \in Nat /\ room >= 16 /\ room >= size
      /\ room + extra \in Nat /\ room + extra <= UINT32_MAX
      /\ extra \in Nat /\ extra % 8 = 0 /\ extra <= 8
  BY WidthAssumption DEF MAX, InFront, FreeListSize
<1>2. AllocSize(size) = 24 + 8 + room
  BY <1>1, WidthAssumption DEF AllocSize, SizeT, POOL_METADATA_SIZE,
                               OccupiedHeaderSize, FreeHeaderSize
<1>3. FirstBlock(base, size, first) =
        [addr |-> base + extra + 24, size |-> room + extra]
  BY <1>1, WidthAssumption DEF FirstBlock, SizeT, PoolAddr, POOL_METADATA_SIZE,
                               FreeListSize, FreeHeaderSize
<1>4. NewPool(base, size, first) =
        [addr |-> base + extra, end |-> base + extra + 24 + (room + extra)]
  BY <1>3 DEF NewPool, PoolAddr, FreeListSize, BlockEnd
<1>5. (base + extra + 24) % 8 = 0
  BY <1>1 DEF MallocAlignment
<1> DEFINE pool == NewPool(base, size, first)
           b == FirstBlock(base, size, first)
<1> HIDE DEF extra, room
<1>6. /\ pool \in Pool /\ b \in Block
      /\ pool.addr = base + extra /\ pool.end = base + extra + 24 + (room + extra)
      /\ b.addr = base + extra + 24 /\ b.size = room + extra
  BY <1>1, <1>3, <1>4 DEF Pool, Block
<1> HIDE DEF pool, b
<1>7. Placed(b, pool)
  BY <1>1, <1>5, <1>6 DEF Placed, Inside, Roomy, PoolStart, BlockEnd,
                          POOL_METADATA_SIZE, FreeHeaderSize, FreeHeaderAlign
<1>8. PoolSize(pool) \in 0 .. UINT32_MAX
  BY <1>1, <1>6 DEF PoolSize, PoolStart, POOL_METADATA_SIZE
<1>9. /\ b.size >= size /\ AllocSize(size) \in Nat /\ base <= pool.addr
      /\ pool.end <= base + AllocSize(size) + extra
  BY <1>1, <1>2, <1>6
<1>10. QED
  BY <1>6, <1>7, <1>8, <1>9 DEF pool, b, extra

(* The size asked for a new pool fits a header.                            *)
LEMMA RequiredBounds ==
  ASSUME NEW size \in Nat, NEW alignment \in Nat
  PROVE  RequiredBlockSize(size, alignment) \in 0 .. UINT32_MAX
<1>1. MAX(alignment, OccupiedHeaderAlign) \in Nat \ {0}
  BY DEF MAX, OccupiedHeaderAlign
<1>2. QED
  BY <1>1, WidthAssumption DEF RequiredBlockSize, OccupiedHeaderSize

(* A pool of at least that size serves the request, wherever malloc places *)
(* it.                                                                     *)
LEMMA RequiredServes ==
  ASSUME NEW base \in Nat, base % MallocAlignment = 0,
         NEW size \in Nat, NEW alignment \in Nat, NEW pool_size \in Nat,
         RequiredBlockSize(size, alignment) # 0,
         pool_size >= RequiredBlockSize(size, alignment),
         pool_size <= UINT32_MAX
  PROVE  /\ size # 0
         /\ Fits(FirstBlock(base, pool_size, FALSE), size, alignment)
<1> DEFINE b == FirstBlock(base, pool_size, FALSE)
           a == MAX(alignment, OccupiedHeaderAlign)
<1>1. a \in Nat /\ a >= 4
  BY DEF MAX, OccupiedHeaderAlign
<1>2. size # 0 /\ pool_size >= 8 + size + a - 1
  BY DEF RequiredBlockSize, OccupiedHeaderSize
<1>3. b \in Block /\ b.size >= pool_size
  <2>1. pool_size + InFront(FALSE) <= UINT32_MAX
    BY DEF InFront
  <2>2. QED
    BY <2>1, FreshPool
<1> HIDE DEF b
<1>4. Payload(b, alignment) \in Nat /\ Payload(b, alignment) <= b.addr + 8 + a - 1
  BY <1>3, PayloadBounds
<1> HIDE DEF a
<1>5. Fits(b, size, alignment)
  BY <1>1, <1>2, <1>3, <1>4 DEF Fits, BlockEnd, Block
<1>6. QED
  BY <1>2, <1>5 DEF b

(* Every pool lies in a chunk of its own and the gap malloc keeps behind   *)
(* it.                                                                     *)
InHeap(pls, hp) ==
  \A p \in DOMAIN pls : \E c \in hp :
    c.base <= pls[p].addr /\ pls[p].end <= c.base + c.len + MallocGap

(* A new chunk that keeps clear of another holds a pool separate from the  *)
(* other's.                                                                *)
LEMMA ClearOfChunk ==
  ASSUME NEW d \in Chunk, NEW m \in Pool, NEW n \in Pool,
         NEW base \in Nat, NEW len \in Nat,
         d.base <= m.addr, m.end <= d.base + d.len + MallocGap,
         base <= n.addr, n.end <= base + len,
         \/ base + len + MallocGap <= d.base
         \/ d.base + d.len + MallocGap <= base
  PROVE  Separate(m, n)
BY HeapAssumption DEF Chunk, Pool, Separate

(* So a new chunk holds a pool separate from all others.                   *)
LEMMA GrowHeap ==
  ASSUME NEW pls \in Seq(Pool), NEW hp \in SUBSET Chunk, InHeap(pls, hp),
         NEW base \in Bases, NEW len \in Nat, CanPlace(hp, base, len),
         NEW pool \in Pool, base <= pool.addr,
         pool.end <= base + len + MallocGap
  PROVE  /\ Malloc(hp, base, len) \in SUBSET Chunk
         /\ InHeap(Append(pls, pool), Malloc(hp, base, len))
         /\ pool.end <= base + len => \A p \in DOMAIN pls : Separate(pls[p], pool)
<1> DEFINE c == [base |-> base, len |-> len]
           pls2 == Append(pls, pool)
<1>1. base \in Nat /\ MallocGap \in Nat /\ c \in Chunk
  BY HeapAssumption DEF Chunk
<1>2. /\ DOMAIN pls2 = 1 .. Len(pls) + 1 /\ DOMAIN pls = 1 .. Len(pls)
      /\ \A p \in 1 .. Len(pls) : pls2[p] = pls[p]
      /\ pls2[Len(pls) + 1] = pool
      /\ c.base = base /\ c.len = len
  OBVIOUS
<1> HIDE DEF c, pls2
<1>3. ASSUME NEW p \in DOMAIN pls2
      PROVE  \E d \in hp \cup {c} :
               d.base <= pls2[p].addr /\ pls2[p].end <= d.base + d.len + MallocGap
  <2>1. CASE p \in DOMAIN pls
    BY <2>1, <1>2 DEF InHeap
  <2>2. CASE p = Len(pls) + 1
    BY <2>2, <1>2
  <2>3. QED
    BY <2>1, <2>2, <1>2
<1>4. ASSUME NEW p \in DOMAIN pls, pool.end <= base + len
      PROVE  Separate(pls[p], pool)
  <2>1. PICK d \in hp :
          d.base <= pls[p].addr /\ pls[p].end <= d.base + d.len + MallocGap
    BY DEF InHeap
  <2>2. d \in Chunk /\ pls[p] \in Pool
    OBVIOUS
  <2>3. \/ base + len + MallocGap <= d.base
        \/ d.base + d.len + MallocGap <= base
    BY DEF CanPlace
  <2>4. QED
    BY <1>1, <1>4, <2>1, <2>2, <2>3, ClearOfChunk
<1>5. QED
  BY <1>1, <1>3, <1>4 DEF Malloc, InHeap, c, pls2

(* The inductive invariant: a sound state, with its pools in chunks of     *)
(* malloc.                                                                 *)
IInv ==
  /\ heap \in SUBSET Chunk
  /\ Sound(pools, free, occupied)
  /\ InHeap(pools, heap)

(* There is nothing wrong with no pool at all.                             *)
LEMMA EmptySound == Sound(<<>>, <<>>, {})
  BY DEF Sound, PoolsSound, FreeSound, TakenSound, FreeAndTakenApart

(* What malloc returns is aligned.                                         *)
LEMMA BaseFacts ==
  ASSUME NEW base \in Bases
  PROVE  base \in Nat /\ base % MallocAlignment = 0
BY HeapAssumption

(* free_list_ctor keeps the invariant.                                     *)
LEMMA CtorSound ==
  ASSUME HeadersHoldPools, IInv, NEW pool_size \in PoolSizes, Ctor(pool_size)
  PROVE  IInv'
<1>1. PICK base \in Bases :
        /\ CanPlace(heap, base, AllocSize(pool_size))
        /\ heap' = Malloc(heap, base, AllocSize(pool_size))
        /\ pools' = <<NewPool(base, pool_size, TRUE)>>
        /\ free' = << <<FirstBlock(base, pool_size, TRUE)>> >>
  BY DEF Ctor
<1> DEFINE pool == NewPool(base, pool_size, TRUE)
           b == FirstBlock(base, pool_size, TRUE)
           len == AllocSize(pool_size)
<1>2. pools = <<>> /\ free = <<>> /\ occupied' = occupied
  BY DEF Ctor, IInv, Sound, FreeSound
<1>3. pool_size \in Nat /\ pool_size + FreeListSize <= UINT32_MAX
      /\ MallocGap >= FreeListSize
  BY WidthAssumption DEF HeadersHoldPools
<1>4. /\ pool \in Pool /\ b \in Block /\ Placed(b, pool)
      /\ PoolSize(pool) \in 0 .. UINT32_MAX
      /\ len \in Nat /\ base <= pool.addr
      /\ pool.end <= base + len + FreeListSize
  <2>1. InFront(TRUE) = FreeListSize
    BY DEF InFront
  <2>2. QED
    BY <1>3, <2>1, FreshPool, BaseFacts
<1> HIDE DEF pool, b, len
<1>5. pool.end <= base + len + MallocGap
  BY <1>3, <1>4, BaseFacts, HeapAssumption DEF Pool, FreeListSize
<1>6. pools' = Append(pools, pool) /\ free' = Append(free, <<b>>)
      /\ heap' = Malloc(heap, base, len)
  BY <1>1, <1>2 DEF pool, b, len
<1>7. Sound(pools', free', occupied')
  <2>1. \A p \in DOMAIN pools : Separate(pools[p], pool)
    BY <1>2
  <2>2. Sound(Append(pools, pool), Append(free, <<b>>), occupied)
    BY <1>4, <2>1, GrowSound DEF IInv
  <2>3. QED
    BY <1>2, <1>6, <2>2
<1>8. heap' \in SUBSET Chunk /\ InHeap(pools', heap')
  BY <1>1, <1>4, <1>5, <1>6, GrowHeap DEF IInv, Sound, len
<1>9. QED
  BY <1>7, <1>8 DEF IInv

(* The type of requests.                                                   *)
LEMMA RequestFacts ==
  ASSUME NEW q \in Requests
  PROVE  q[1] \in Nat /\ q[2] \in Nat /\ Ordinary(q[2])
BY WidthAssumption, AlignmentAssumption DEF Ordinary

(* free_list_allocate keeps it when a pool of the chain serves.            *)
LEMMA AllocateExistingSound ==
  ASSUME IInv, NEW size \in Nat, NEW alignment \in Nat, Ordinary(alignment),
         AllocateExisting(size, alignment)
  PROVE  IInv'
<1>1. PICK p \in DOMAIN pools : \E i \in DOMAIN free[p] :
        /\ FirstFit(p, i, size, alignment)
        /\ free' = [free EXCEPT ![p] = FreeAfter(@, i, size, alignment)]
        /\ occupied' = occupied \cup {Header(free[p][i], size, alignment)}
  BY DEF AllocateExisting
<1>2. PICK i \in DOMAIN free[p] :
        /\ FirstFit(p, i, size, alignment)
        /\ free' = [free EXCEPT ![p] = FreeAfter(@, i, size, alignment)]
        /\ occupied' = occupied \cup {Header(free[p][i], size, alignment)}
  BY <1>1
<1>3. p \in DOMAIN free /\ size \in Nat \ {0} /\ Fits(free[p][i], size, alignment)
  BY <1>2 DEF IInv, Sound, FreeSound, AllocateExisting, ValidSize, FirstFit
<1>4. free' = [free EXCEPT ![p] = FreeAfter(free[p], i, size, alignment)]
  BY <1>2
<1>5. Sound(pools, [free EXCEPT ![p] = FreeAfter(free[p], i, size, alignment)],
            occupied \cup {Header(free[p][i], size, alignment)})
  BY <1>3, TakeSound DEF IInv
<1>6. Sound(pools, free', occupied')
  BY <1>2, <1>4, <1>5
<1>7. QED
  BY <1>6 DEF IInv, AllocateExisting

(* Appending y is appending x and replacing it by y.                       *)
AppendThenChange(s, x, y) ==
  LET n == Len(s) + 1
      t == Append(s, x)
  IN  n \in DOMAIN t /\ t[n] = x /\ Append(s, y) = [t EXCEPT ![n] = y]

(* A new pool's list after the first allocation, as GrowSound followed by  *)
(* TakeSound.                                                              *)
LEMMA AppendExcept ==
  ASSUME NEW S, NEW s \in Seq(S), NEW x \in S, NEW y \in S
  PROVE  AppendThenChange(s, x, y)
<1> DEFINE n == Len(s) + 1
           t == Append(s, x)
           u == [t EXCEPT ![n] = y]
<1>1. t \in Seq(S) /\ DOMAIN t = 1 .. n /\ t[n] = x /\ n \in 1 .. n
  OBVIOUS
<1>2. Append(s, y) \in Seq(S) /\ Len(Append(s, y)) = n
  OBVIOUS
<1>3. u \in Seq(S) /\ Len(u) = n
  BY <1>1
<1>4. \A k \in 1 .. n : Append(s, y)[k] = u[k]
  <2> SUFFICES ASSUME NEW k \in 1 .. n PROVE Append(s, y)[k] = u[k]
    OBVIOUS
  <2>1. CASE k = n
    BY <2>1, <1>1
  <2>2. CASE k # n
    <3>1. k \in 1 .. Len(s)
      BY <2>2
    <3>2. Append(s, y)[k] = s[k] /\ t[k] = s[k]
      BY <3>1, AppendProperties
    <3>3. u[k] = t[k]
      BY <2>2, <1>1
    <3>4. QED
      BY <3>2, <3>3
  <2>3. QED
    BY <2>1, <2>2
<1>5. Append(s, y) = u
  BY <1>2, <1>3, <1>4, SeqEqual
<1>6. QED
  BY <1>1, <1>5 DEF AppendThenChange

(* free_list_allocate keeps it when the chain grows.                       *)
LEMMA AllocateGrowingSound ==
  ASSUME IInv, NEW size \in Nat, NEW alignment \in Nat, Ordinary(alignment),
         AllocateGrowing(size, alignment)
  PROVE  IInv'
<1> DEFINE pool_size == MAX(RequiredBlockSize(size, alignment), PoolSize(pools[1]))
<1>1. PICK base \in Bases :
        LET block == FirstBlock(base, pool_size, FALSE)
        IN  /\ CanPlace(heap, base, AllocSize(pool_size))
            /\ heap' = Malloc(heap, base, AllocSize(pool_size))
            /\ pools' = Append(pools, NewPool(base, pool_size, FALSE))
            /\ free' = Append(free, FreeAfter(<<block>>, 1, size, alignment))
            /\ occupied' = occupied \cup {Header(block, size, alignment)}
  BY DEF AllocateGrowing
<1>2. /\ RequiredBlockSize(size, alignment) \in 0 .. UINT32_MAX
      /\ RequiredBlockSize(size, alignment) # 0
  BY RequiredBounds DEF AllocateGrowing
<1>3. PoolSize(pools[1]) \in 0 .. UINT32_MAX
  BY DEF AllocateGrowing, IInv, Sound, PoolsSound
<1>4. /\ pool_size \in Nat /\ pool_size <= UINT32_MAX
      /\ pool_size >= RequiredBlockSize(size, alignment)
  BY <1>2, <1>3, WidthAssumption DEF MAX
<1> DEFINE pool == NewPool(base, pool_size, FALSE)
           b == FirstBlock(base, pool_size, FALSE)
           len == AllocSize(pool_size)
           grown == Append(free, <<b>>)
<1> HIDE DEF pool_size
<1>5. size \in Nat \ {0} /\ Fits(b, size, alignment)
  BY <1>2, <1>4, RequiredServes, BaseFacts
<1>6. /\ pool \in Pool /\ b \in Block /\ Placed(b, pool)
      /\ PoolSize(pool) \in 0 .. UINT32_MAX
      /\ len \in Nat /\ base <= pool.addr
      /\ pool.end <= base + len
  <2>2. pool_size + InFront(FALSE) <= UINT32_MAX
    BY <1>4 DEF InFront
  <2>3. /\ pool \in Pool /\ b \in Block /\ Placed(b, pool)
        /\ PoolSize(pool) \in 0 .. UINT32_MAX
        /\ len \in Nat /\ base <= pool.addr
        /\ pool.end <= base + len + InFront(FALSE)
    BY <1>4, <2>2, FreshPool, BaseFacts
  <2>4. base \in Nat
    BY BaseFacts
  <2> HIDE DEF pool, b, len
  <2>5. QED
    BY <2>3, <2>4 DEF Pool, InFront
<1>7. /\ CanPlace(heap, base, len)
      /\ heap' = Malloc(heap, base, len)
      /\ pools' = Append(pools, pool)
      /\ free' = Append(free, FreeAfter(<<b>>, 1, size, alignment))
      /\ occupied' = occupied \cup {Header(b, size, alignment)}
  BY <1>1
<1> HIDE DEF pool, b, len
<1>8. pool.end <= base + len + MallocGap
  BY <1>6, BaseFacts, HeapAssumption DEF Pool
<1>9. /\ heap' \in SUBSET Chunk /\ InHeap(pools', heap')
      /\ \A p \in DOMAIN pools : Separate(pools[p], pool)
  BY <1>6, <1>7, <1>8, GrowHeap DEF IInv, Sound
<1>10. Sound(pools', grown, occupied)
  <2>1. Sound(Append(pools, pool), Append(free, <<b>>), occupied)
    BY <1>6, <1>9, GrowSound DEF IInv
  <2>2. QED
    BY <1>7, <2>1
<1> DEFINE n == Len(free) + 1
<1>11. /\ n \in DOMAIN grown /\ grown[n] = <<b>>
       /\ free' = [grown EXCEPT ![n] = FreeAfter(<<b>>, 1, size, alignment)]
  <2>1. free \in Seq(Seq(Block))
    BY DEF IInv, Sound, FreeSound
  <2>2. <<b>> \in Seq(Block) /\ 1 \in DOMAIN <<b>> /\ size \in Nat
    BY <1>5, <1>6
  <2>3. FreeAfter(<<b>>, 1, size, alignment) \in Seq(Block)
    BY <2>2, FreeAfterShape
  <2>4. AppendThenChange(free, <<b>>, FreeAfter(<<b>>, 1, size, alignment))
    BY <2>1, <2>2, <2>3, AppendExcept
  <2>5. QED
    BY <1>7, <2>4 DEF AppendThenChange
<1> HIDE DEF grown, n
<1>12. Sound(pools', free', occupied')
  <2>1. 1 \in DOMAIN grown[n] /\ grown[n][1] = b
    BY <1>11
  <2>2. free' = [grown EXCEPT ![n] = FreeAfter(grown[n], 1, size, alignment)]
    BY <1>11
  <2>3. occupied' = occupied \cup {Header(grown[n][1], size, alignment)}
    BY <1>7, <2>1
  <2>4. Sound(pools', [grown EXCEPT ![n] = FreeAfter(grown[n], 1, size, alignment)],
              occupied \cup {Header(grown[n][1], size, alignment)})
    BY <1>5, <1>10, <1>11, <2>1, TakeSound
  <2>5. QED
    BY <2>2, <2>3, <2>4
<1>13. QED
  BY <1>9, <1>12 DEF IInv

(* free_list_deallocate keeps it.                                          *)
LEMMA DeallocateSound ==
  ASSUME IInv, NEW o \in occupied, Deallocate(o)
  PROVE  IInv'
<1>1. PICK p \in DOMAIN pools :
        /\ CheckPtr(pools[p], o.ptr)
        /\ free' = [free EXCEPT ![p] = <<BlockOf(o)>> \o @]
  BY DEF Deallocate
<1>2. p \in DOMAIN free /\ free' = [free EXCEPT ![p] = <<BlockOf(o)>> \o free[p]]
  BY <1>1 DEF IInv, Sound, FreeSound
<1>3. Sound(pools, [free EXCEPT ![p] = <<BlockOf(o)>> \o free[p]], occupied \ {o})
  BY <1>1, <1>2, GiveSound DEF IInv
<1>4. Sound(pools', free', occupied')
  BY <1>2, <1>3 DEF Deallocate
<1>5. QED
  BY <1>4 DEF IInv, Deallocate

(* free_list_dtor keeps it.                                                *)
LEMMA DtorSound ==
  ASSUME IInv, Dtor
  PROVE  IInv'
<1>1. heap' \in SUBSET Chunk /\ pools' = <<>> /\ free' = <<>> /\ occupied' = {}
  BY DEF Dtor, IInv, FreeAll
<1>2. QED
  BY <1>1, EmptySound DEF IInv, InHeap

(* The invariant holds in every reachable state, for every value of the    *)
(* constants that satisfies the assumptions.                               *)
THEOREM Invariance ==
  ASSUME HeadersHoldPools
  PROVE  Spec => []IInv
<1>1. Init => IInv
  BY EmptySound DEF Init, IInv, InHeap
<1>2. IInv /\ [Next]_vars => IInv'
  <2> SUFFICES ASSUME IInv, [Next]_vars PROVE IInv'
    OBVIOUS
  <2>1. ASSUME NEW pool_size \in PoolSizes, Ctor(pool_size) PROVE IInv'
    BY <2>1, CtorSound
  <2>2. ASSUME NEW q \in Requests, AllocateExisting(q[1], q[2]) PROVE IInv'
    BY <2>2, AllocateExistingSound, RequestFacts
  <2>3. ASSUME NEW q \in Requests, AllocateGrowing(q[1], q[2]) PROVE IInv'
    BY <2>3, AllocateGrowingSound, RequestFacts
  <2>4. ASSUME NEW q \in Requests, AllocateNull(q[1], q[2]) PROVE IInv'
    BY <2>4 DEF AllocateNull, vars, IInv
  <2>5. ASSUME NEW o \in occupied, Deallocate(o) PROVE IInv'
    BY <2>5, DeallocateSound
  <2>6. ASSUME NEW ptr \in Bases \cup {0}, DeallocateForeign(ptr) PROVE IInv'
    BY <2>6 DEF DeallocateForeign, vars, IInv
  <2>7. CASE Dtor
    BY <2>7, DtorSound
  <2>8. CASE UNCHANGED vars
    BY <2>8 DEF vars, IInv
  <2>9. QED
    BY <2>1, <2>2, <2>3, <2>4, <2>5, <2>6, <2>7, <2>8 DEF Next
<1>3. QED
  BY <1>1, <1>2, PTL DEF Spec

-----------------------------------------------------------------------------
(* What the invariant gives: the properties of FreeList that TLC checks.   *)

(* Every variable keeps its type, and no header its 32 bits.               *)
THEOREM TypeCorrectness ==
  ASSUME HeadersHoldPools
  PROVE  Spec => []TypeOK
<1>1. IInv => TypeOK
  BY DEF IInv, Sound, FreeSound, TakenSound, HeaderSound, TypeOK
<1>2. QED
  BY <1>1, Invariance, PTL

(* No byte of memory is ever part of two blocks.                           *)
THEOREM NoOverlapAlways ==
  ASSUME HeadersHoldPools
  PROVE  Spec => []NoOverlap
<1>1. IInv => NoOverlap
  BY DEF IInv, Sound, FreeSound, TakenSound, FreeAndTakenApart, NoOverlap
<1>2. QED
  BY <1>1, Invariance, PTL

(* A caller's bytes and the header in front of them lie in one block of    *)
(* one pool.                                                               *)
THEOREM PayloadInBlockAlways ==
  ASSUME HeadersHoldPools
  PROVE  Spec => []PayloadInBlock
<1>1. IInv => PayloadInBlock
  BY DEF IInv, Sound, TakenSound, HeaderSound, Placed, PayloadInBlock
<1>2. QED
  BY <1>1, Invariance, PTL

(* Wherever deallocate writes a free header there is room for it.          *)
THEOREM BlocksHoldHeaderAlways ==
  ASSUME HeadersHoldPools
  PROVE  Spec => []BlocksHoldHeader
<1>1. ASSUME IInv, NEW p \in DOMAIN pools, NEW b \in BlocksOf(p)
      PROVE  Roomy(b)
  <2>1. p \in DOMAIN free
    BY <1>1 DEF IInv, Sound, FreeSound
  <2>2. CASE \E i \in DOMAIN free[p] : b = free[p][i]
    BY <1>1, <2>1, <2>2 DEF IInv, Sound, FreeSound, Placed
  <2>3. CASE \E o \in occupied : b = BlockOf(o)
    BY <1>1, <2>3 DEF IInv, Sound, TakenSound, Placed
  <2>4. QED
    BY <1>1, <2>2, <2>3 DEF BlocksOf
<1>2. IInv => BlocksHoldHeader
  BY <1>1 DEF BlocksHoldHeader, Roomy
<1>3. QED
  BY <1>2, Invariance, PTL

(* The pool that grows the chain always has room for the request it was    *)
(* made for.                                                               *)
THEOREM FreshPoolServesAlways ==
  ASSUME HeadersHoldPools
  PROVE  Spec => []FreshPoolServes
<1>1. ASSUME IInv, pools # <<>>, NEW q \in Requests, NEW base \in Bases,
             RequiredBlockSize(q[1], q[2]) # 0
      PROVE  Fits(FirstBlock(base, MAX(RequiredBlockSize(q[1], q[2]),
                                       PoolSize(pools[1])), FALSE),
                  q[1], q[2])
  <2> DEFINE required == RequiredBlockSize(q[1], q[2])
             pool_size == MAX(required, PoolSize(pools[1]))
  <2>1. required \in 0 .. UINT32_MAX
    BY RequiredBounds, RequestFacts
  <2>2. PoolSize(pools[1]) \in 0 .. UINT32_MAX
    BY <1>1 DEF IInv, Sound, PoolsSound
  <2> HIDE DEF required
  <2>3. pool_size \in Nat /\ pool_size <= UINT32_MAX /\ pool_size >= required
    BY <2>1, <2>2, WidthAssumption DEF MAX
  <2> HIDE DEF pool_size
  <2>4. QED
    BY <1>1, <2>3, RequiredServes, RequestFacts, BaseFacts DEF required, pool_size
<1>2. IInv => FreshPoolServes
  BY <1>1 DEF FreshPoolServes
<1>3. QED
  BY <1>2, Invariance, PTL

(* A freed block can hold again what it held.                              *)
THEOREM FreedBlockReusableAlways ==
  ASSUME HeadersHoldPools
  PROVE  Spec => []FreedBlockReusable
<1>1. ASSUME IInv, NEW o \in occupied, NEW q \in Requests,
             q[2] # 0, o.ptr % q[2] = 0
      PROVE  Fits(BlockOf(o), o.len, q[2])
  <2> DEFINE a == MAX(q[2], OccupiedHeaderAlign)
             b == BlockOf(o)
  <2>1. HeaderSound(o)
    BY <1>1 DEF IInv, Sound, TakenSound
  <2>2. a \in Nat \ {0} /\ o.ptr % a = 0
    BY <1>1, <2>1, RequestFacts DEF MAX, HeaderSound, OccupiedHeaderAlign
  <2>3. /\ b \in Block /\ o.ptr \in Nat /\ o.len \in Nat
        /\ b.addr + OccupiedHeaderSize \in Nat
        /\ b.addr + OccupiedHeaderSize <= o.ptr
        /\ o.ptr + o.len <= BlockEnd(b)
    BY <2>1 DEF HeaderSound, Taken, Block, OccupiedHeaderSize
  <2> DEFINE v == b.addr + OccupiedHeaderSize
  <2> HIDE DEF a, b
  <2>4. /\ AlignUp(v, a) <= o.ptr
        /\ AlignUp(v, a) \in Nat
    <3>1. v \in Nat /\ v <= o.ptr
      BY <2>3
    <3> HIDE DEF v
    <3>2. AlignUp(v, a) \in v .. v + a - 1
      BY <2>2, <3>1, AlignUpBounds
    <3>3. AlignUp(v, a) <= o.ptr
      BY <2>2, <2>3, <3>1, AlignUpLeast
    <3>4. QED
      BY <2>2, <3>1, <3>2, <3>3
  <2>5. AlignUp(b.addr + OccupiedHeaderSize, a) + o.len <= BlockEnd(b)
    BY <2>3, <2>4 DEF Block, BlockEnd
  <2>6. QED
    BY <2>5 DEF Fits, Payload, AlignPtr, a, b
<1>2. IInv => FreedBlockReusable
  BY <1>1 DEF FreedBlockReusable
<1>3. QED
  BY <1>2, Invariance, PTL

-----------------------------------------------------------------------------
(* FreeList implements the contract of a memory resource: each step of the *)
(* free list is, on the memory its callers use, a step of MemoryResource   *)
(* or no step at all.                                                      *)
\* The region an allocation's header stands in front of.
RegionOf(o) == [ptr |-> o.ptr, len |-> o.len]

(* Two allocations in use share no byte: each lies in its own block, and   *)
(* the blocks share none.                                                  *)
LEMMA TakenApart ==
  ASSUME NEW pls, NEW fr, NEW occ, Sound(pls, fr, occ),
         NEW o \in occ, NEW u \in occ, o # u
  PROVE  /\ o.ptr \in Nat \ {0} /\ o.len \in Nat \ {0}
         /\ u.ptr \in Nat \ {0} /\ u.len \in Nat \ {0}
         /\ o.ptr + o.len <= u.ptr \/ u.ptr + u.len <= o.ptr
<1>1. /\ HeaderSound(o) /\ HeaderSound(u)
      /\ Disjoint(BlockOf(o), BlockOf(u))
  BY DEF Sound, TakenSound
<1> DEFINE b == BlockOf(o)
           c == BlockOf(u)
<1>2. /\ b \in Block /\ c \in Block
      /\ o.ptr \in Nat /\ o.len \in Nat /\ o.len > 0
      /\ u.ptr \in Nat /\ u.len \in Nat /\ u.len > 0
      /\ b.addr <= o.ptr - 8 /\ o.ptr + o.len <= BlockEnd(b)
      /\ c.addr <= u.ptr - 8 /\ u.ptr + u.len <= BlockEnd(c)
      /\ BlockEnd(b) <= c.addr \/ BlockEnd(c) <= b.addr
  BY <1>1 DEF HeaderSound, Taken, Disjoint, OccupiedHeaderSize
<1> HIDE DEF b, c
<1>3. QED
  BY <1>2 DEF Block, BlockEnd

(* The same of a single allocation. *)
LEMMA TakenRegion ==
  ASSUME NEW pls, NEW fr, NEW occ, Sound(pls, fr, occ), NEW o \in occ
  PROVE  RegionOf(o) \in Contract!Region
<1>1. HeaderSound(o)
  BY DEF Sound, TakenSound
<1> DEFINE b == BlockOf(o)
<1>2. /\ b \in Block /\ o.ptr \in Nat /\ o.len \in Nat /\ o.len > 0
      /\ b.addr <= o.ptr - 8
  BY <1>1 DEF HeaderSound, Taken, OccupiedHeaderSize
<1> HIDE DEF b
<1>3. o.ptr \in Nat \ {0} /\ o.len \in Nat \ {0}
  BY <1>2 DEF Block
<1>4. QED
  BY <1>3 DEF RegionOf, Contract!Region

(* Their regions, too, are apart, and so different. *)
LEMMA RegionsApart ==
  ASSUME NEW pls, NEW fr, NEW occ, Sound(pls, fr, occ),
         NEW o \in occ, NEW u \in occ, o # u
  PROVE  /\ Contract!Apart(RegionOf(o), RegionOf(u))
         /\ RegionOf(o) # RegionOf(u)
<1>1. /\ o.ptr \in Nat \ {0} /\ o.len \in Nat \ {0}
      /\ u.ptr \in Nat \ {0} /\ u.len \in Nat \ {0}
      /\ o.ptr + o.len <= u.ptr \/ u.ptr + u.len <= o.ptr
  BY TakenApart
<1>2. /\ RegionOf(o).ptr = o.ptr /\ RegionOf(o).len = o.len
      /\ RegionOf(u).ptr = u.ptr /\ RegionOf(u).len = u.len
  BY DEF RegionOf
<1>3. Contract!Apart(RegionOf(o), RegionOf(u))
  BY <1>1, <1>2 DEF Contract!Apart
<1>4. o.ptr # u.ptr
  BY <1>1
<1>5. QED
  BY <1>2, <1>3, <1>4

(* A step that adds a header is a successful allocate of the contract.     *)
LEMMA AllocateRefines ==
  ASSUME IInv, IInv', NEW q \in Requests, NEW b \in Block,
         occupied' = occupied \cup {Header(b, q[1], q[2])}
  PROVE  [Contract!Next]_(Live(occupied))
<1> DEFINE h == Header(b, q[1], q[2])
           r == RegionOf(h)
<1>1. CASE h \in occupied
  <2>1. occupied' = occupied
    BY <1>1
  <2>2. QED
    BY <2>1 DEF Live
<1>2. CASE h \notin occupied
  <2>1. /\ h.len = q[1] /\ h.ptr = Payload(b, q[2])
        /\ r.len = q[1] /\ r.ptr = Payload(b, q[2])
    BY DEF Header, RegionOf
  <2>2. q[2] # 0 => r.ptr % q[2] = 0
    BY <2>1, PayloadAligned, RequestFacts
  <2>3. /\ h \in occupied' /\ occupied \in SUBSET occupied'
        /\ \A o \in occupied : o \in occupied' /\ o # h
    BY <1>2
  <2> HIDE DEF h
  <2>4. Sound(pools', free', occupied')
    BY DEF IInv
  <2>5. \A o \in occupied : /\ Contract!Apart(r, RegionOf(o))
                            /\ r # RegionOf(o)
    BY <2>3, <2>4, RegionsApart
  <2>6. r \in Contract!Region
    BY <2>3, <2>4, TakenRegion
  <2>7. /\ Live(occupied) = {RegionOf(o) : o \in occupied}
        /\ Live(occupied)' = {RegionOf(o) : o \in occupied} \cup {r}
    BY DEF Live, RegionOf, h
  <2> HIDE DEF r
  <2>8. /\ r \notin Live(occupied)
        /\ r \in Live(occupied)'
        /\ Live(occupied)' = Live(occupied) \cup {r}
        /\ \A s \in Live(occupied) : Contract!Apart(r, s)
    BY <2>5, <2>7
  <2>9. Contract!Allocate(q[1], q[2])
    BY <2>1, <2>2, <2>6, <2>8 DEF Contract!Allocate
  <2>10. QED
    BY <2>9 DEF Contract!Next
<1>3. QED
  BY <1>1, <1>2

(* A step that takes a header away is a deallocate of the contract.        *)
LEMMA DeallocateRefines ==
  ASSUME IInv, NEW o \in occupied, occupied' = occupied \ {o}
  PROVE  Contract!Deallocate
<1>1. \A u \in occupied : u # o => RegionOf(u) # RegionOf(o)
  BY RegionsApart DEF IInv
<1>2. /\ Live(occupied) = {RegionOf(u) : u \in occupied}
      /\ Live(occupied)' = {RegionOf(u) : u \in occupied \ {o}}
  BY DEF Live, RegionOf
<1>3. /\ RegionOf(o) \in Live(occupied)
      /\ Live(occupied)' = Live(occupied) \ {RegionOf(o)}
  BY <1>1, <1>2
<1>4. QED
  BY <1>3 DEF Contract!Deallocate

(* Both ways an allocation is served cut it from a block.                  *)
LEMMA AllocateFromBlock ==
  ASSUME IInv, NEW q \in Requests,
         AllocateExisting(q[1], q[2]) \/ AllocateGrowing(q[1], q[2])
  PROVE  \E b \in Block : occupied' = occupied \cup {Header(b, q[1], q[2])}
<1>1. CASE AllocateExisting(q[1], q[2])
  <2>1. PICK p \in DOMAIN pools : \E i \in DOMAIN free[p] :
          occupied' = occupied \cup {Header(free[p][i], q[1], q[2])}
    BY <1>1 DEF AllocateExisting
  <2>2. PICK i \in DOMAIN free[p] :
          occupied' = occupied \cup {Header(free[p][i], q[1], q[2])}
    BY <2>1
  <2>3. free[p] \in Seq(Block)
    BY DEF IInv, Sound, FreeSound
  <2>4. free[p][i] \in Block
    BY <2>3
  <2>5. QED
    BY <2>2, <2>4
<1>2. CASE AllocateGrowing(q[1], q[2])
  <2> DEFINE pool_size == MAX(RequiredBlockSize(q[1], q[2]), PoolSize(pools[1]))
  <2>1. PICK base \in Bases :
          occupied' = occupied \cup
                        {Header(FirstBlock(base, pool_size, FALSE), q[1], q[2])}
    BY <1>2 DEF AllocateGrowing
  <2>2. PoolSize(pools[1]) \in 0 .. UINT32_MAX
    BY <1>2 DEF AllocateGrowing, IInv, Sound, PoolsSound
  <2>3. RequiredBlockSize(q[1], q[2]) \in 0 .. UINT32_MAX
    BY RequiredBounds, RequestFacts
  <2>4. pool_size \in Nat /\ pool_size <= UINT32_MAX
    BY <2>2, <2>3, WidthAssumption DEF MAX
  <2> HIDE DEF pool_size
  <2>5. pool_size + InFront(FALSE) <= UINT32_MAX
    BY <2>4 DEF InFront
  <2>6. FirstBlock(base, pool_size, FALSE) \in Block
    BY <2>4, <2>5, FreshPool, BaseFacts
  <2>7. QED
    BY <2>1, <2>6
<1>3. QED
  BY <1>1, <1>2

(* What a free list hands out is as large and as aligned as asked, and     *)
(* shares no byte with anything else in use, until it is deallocated or    *)
(* the free list destroyed.                                                *)
THEOREM Refinement ==
  ASSUME HeadersHoldPools
  PROVE  Spec => ImplementsContract
<1>1. Init => Contract!Init
  BY DEF Init, Contract!Init, Live
<1>2. IInv /\ IInv' /\ [Next]_vars => [Contract!Next]_(Live(occupied))
  <2> SUFFICES ASSUME IInv, IInv', [Next]_vars
               PROVE  [Contract!Next]_(Live(occupied))
    OBVIOUS
  <2>1. ASSUME NEW pool_size \in PoolSizes, Ctor(pool_size)
        PROVE  UNCHANGED occupied
    BY <2>1 DEF Ctor
  <2>2. ASSUME NEW q \in Requests,
               AllocateExisting(q[1], q[2]) \/ AllocateGrowing(q[1], q[2])
        PROVE  [Contract!Next]_(Live(occupied))
    BY <2>2, AllocateFromBlock, AllocateRefines
  <2>3. ASSUME NEW q \in Requests, AllocateNull(q[1], q[2])
        PROVE  UNCHANGED occupied
    BY <2>3 DEF AllocateNull, vars
  <2>4. ASSUME NEW o \in occupied, Deallocate(o)
        PROVE  [Contract!Next]_(Live(occupied))
    BY <2>4, DeallocateRefines DEF Deallocate, Contract!Next
  <2>5. ASSUME NEW ptr \in Bases \cup {0}, DeallocateForeign(ptr)
        PROVE  UNCHANGED occupied
    BY <2>5 DEF DeallocateForeign, vars
  <2>6. CASE Dtor
    <3>1. Live(occupied)' = {}
      BY <2>6 DEF Dtor, Live
    <3>2. QED
      BY <3>1 DEF Contract!Next, Contract!Release
  <2>7. CASE UNCHANGED vars
    BY <2>7 DEF vars, Live
  <2>8. UNCHANGED occupied => [Contract!Next]_(Live(occupied))
    BY DEF Live
  <2>9. QED
    BY <2>1, <2>2, <2>3, <2>4, <2>5, <2>6, <2>7, <2>8 DEF Next
<1>3. QED
  BY <1>1, <1>2, Invariance, PTL DEF Spec, ImplementsContract, Contract!Spec

-----------------------------------------------------------------------------
(* What becomes of a pool's memory: its blocks always fill it from the end *)
(* of its metadata to its own end, and where a block starts one starts     *)
(* until the free list is destroyed.  Of each pool two sets matter, where  *)
(* its blocks start and where they end.  Cutting an allocation from a      *)
(* block adds the same address to both, or nothing; a block that is given  *)
(* back only moves from the allocations in use to the pool's list; a new   *)
(* pool is one block.                                                      *)

(* BlocksOf and Tiled of FreeList, of any chain of pools, its lists and    *)
(* the allocations in use.                                                 *)
ListBlocks(list) == {list[i] : i \in DOMAIN list}

TakenBlocks(pool, occ) == {b \in {BlockOf(o) : o \in occ} : Inside(b, pool)}

BlocksIn(pls, fr, occ, p) == ListBlocks(fr[p]) \cup TakenBlocks(pls[p], occ)

Starts(blocks) == {b.addr : b \in blocks}

Ends(blocks) == {BlockEnd(b) : b \in blocks}

Filled(blocks, pool) ==
  Starts(blocks) \cup {pool.end} = Ends(blocks) \cup {PoolStart(pool)}

TiledIn(pls, fr, occ) ==
  \A p \in DOMAIN pls : Filled(BlocksIn(pls, fr, occ, p), pls[p])

(* No block starts where none did, in a pool that both chains have.        *)
StartsKept(pls, fr, occ, pls2, fr2, occ2) ==
  \A p \in DOMAIN pls :
    Starts(BlocksIn(pls, fr, occ, p)) \subseteq Starts(BlocksIn(pls2, fr2, occ2, p))

(* The blocks on a list after an allocation: those it had, without the one *)
(* the allocation was cut from, and the rest of that one.                  *)
LEMMA FreeAfterBlocks ==
  ASSUME NEW list \in Seq(Block), NEW i \in DOMAIN list,
         NEW size \in Nat, NEW alignment \in Nat
  PROVE  ListBlocks(FreeAfter(list, i, size, alignment))
           = {list[k] : k \in DOMAIN list \ {i}}
               \cup (IF Splits(list[i], size, alignment)
                     THEN {Remainder(list[i], size, alignment)} ELSE {})
<1> DEFINE rest == FreeAfter(list, i, size, alignment)
           r == Remainder(list[i], size, alignment)
<1>1. CASE Splits(list[i], size, alignment)
  <2>1. rest = [list EXCEPT ![i] = r]
    BY <1>1 DEF FreeAfter
  <2> HIDE DEF r
  <2>2. /\ DOMAIN rest = DOMAIN list
        /\ \A k \in DOMAIN list : rest[k] = IF k = i THEN r ELSE list[k]
    BY <2>1
  <2> HIDE DEF rest
  <2>3. {rest[k] : k \in DOMAIN rest} = {list[k] : k \in DOMAIN list \ {i}} \cup {r}
    BY <2>2
  <2>4. QED
    BY <1>1, <2>3 DEF ListBlocks, rest, r
<1>2. CASE ~Splits(list[i], size, alignment)
  <2>1. rest = RemoveAt(list, i)
    BY <1>2 DEF FreeAfter
  <2>2. /\ DOMAIN rest = 1 .. Len(list) - 1
        /\ \A k \in DOMAIN rest : rest[k] = list[IF k < i THEN k ELSE k + 1]
    BY <2>1, RemoveAtShape
  <2>3. DOMAIN list = 1 .. Len(list) /\ Len(list) \in Nat
    OBVIOUS
  <2> HIDE DEF rest
  <2>4. ASSUME NEW k \in DOMAIN list \ {i}
        PROVE  \E j \in DOMAIN rest : rest[j] = list[k]
    <3>1. CASE k < i
      BY <3>1, <2>2, <2>3
    <3>2. CASE ~(k < i)
      <4>1. k - 1 \in DOMAIN rest /\ ~(k - 1 < i) /\ k - 1 + 1 = k
        BY <3>2, <2>2, <2>3
      <4>2. QED
        BY <4>1, <2>2
    <3>3. QED
      BY <3>1, <3>2
  <2>5. ASSUME NEW j \in DOMAIN rest
        PROVE  \E k \in DOMAIN list \ {i} : rest[j] = list[k]
    BY <2>2, <2>3
  <2>6. {rest[k] : k \in DOMAIN rest} = {list[k] : k \in DOMAIN list \ {i}}
    BY <2>4, <2>5
  <2>7. QED
    BY <1>2, <2>6 DEF ListBlocks, rest
<1>3. QED
  BY <1>1, <1>2

(* A block that can hold a header lies in one pool only.                   *)
LEMMA InOnePool ==
  ASSUME NEW pls \in Seq(Pool), PoolsSound(pls), NEW b \in Block, Roomy(b),
         NEW p \in DOMAIN pls, NEW q \in DOMAIN pls,
         Inside(b, pls[p]), Inside(b, pls[q])
  PROVE  p = q
<1> SUFFICES ASSUME p # q PROVE FALSE
  OBVIOUS
<1>1. pls[p] \in Pool /\ pls[q] \in Pool /\ Separate(pls[p], pls[q])
  BY DEF PoolsSound
<1>2. Disjoint(b, b)
  BY <1>1, SeparatePools
<1>3. QED
  BY <1>2 DEF Disjoint, BlockEnd, Block, Roomy, FreeHeaderSize

(* Where an allocation is cut from a block its start and its end stay a    *)
(* start and an end, and at most one new address becomes both.             *)
LEMMA CutKeepsFilled ==
  ASSUME NEW old, NEW new, NEW b \in old, NEW pool,
         NEW kept \in new, kept.addr = b.addr,
         \A c \in old : c = b \/ c \in new,
         \/ /\ BlockEnd(kept) = BlockEnd(b)
            /\ \A c \in new : c = kept \/ c \in old
         \/ \E rest \in new :
              /\ rest.addr = BlockEnd(kept)
              /\ BlockEnd(rest) = BlockEnd(b)
              /\ \A c \in new : c \in {kept, rest} \/ c \in old,
         Filled(old, pool)
  PROVE  Filled(new, pool) /\ Starts(old) \subseteq Starts(new)
<1>1. CASE /\ BlockEnd(kept) = BlockEnd(b)
           /\ \A c \in new : c = kept \/ c \in old
  <2>1. Starts(new) = Starts(old)
    BY <1>1 DEF Starts
  <2>2. Ends(new) = Ends(old)
    <3> HIDE DEF BlockEnd
    <3>1. QED
      BY <1>1 DEF Ends
  <2>3. QED
    BY <2>1, <2>2 DEF Filled
<1>2. CASE \E rest \in new :
             /\ rest.addr = BlockEnd(kept)
             /\ BlockEnd(rest) = BlockEnd(b)
             /\ \A c \in new : c \in {kept, rest} \/ c \in old
  <2>1. PICK rest \in new :
             /\ rest.addr = BlockEnd(kept)
             /\ BlockEnd(rest) = BlockEnd(b)
             /\ \A c \in new : c \in {kept, rest} \/ c \in old
    BY <1>2
  <2>2. Starts(new) = Starts(old) \cup {rest.addr}
    BY <2>1 DEF Starts
  <2>3. Ends(new) = Ends(old) \cup {rest.addr}
    BY <2>1 DEF Ends
  <2>4. QED
    BY <2>2, <2>3 DEF Filled
<1>3. QED
  BY <1>1, <1>2

(* A block of a pool is no longer than the pool.                           *)
LEMMA BlockInUInt32 ==
  ASSUME NEW b \in Block, NEW pool \in Pool, Inside(b, pool),
         PoolSize(pool) \in 0 .. UINT32_MAX
  PROVE  b.size <= UINT32_MAX
BY WidthAssumption
   DEF Inside, PoolSize, PoolStart, BlockEnd, Block, Pool, POOL_METADATA_SIZE

(* Cutting an allocation from a free block keeps the pools tiled.          *)
LEMMA TakeTiled ==
  ASSUME NEW pls, NEW fr, NEW occ, Sound(pls, fr, occ), TiledIn(pls, fr, occ),
         NEW p \in DOMAIN fr, NEW i \in DOMAIN fr[p],
         NEW size \in Nat \ {0}, NEW alignment \in Nat,
         Fits(fr[p][i], size, alignment),
         NEW fr2, fr2 = [fr EXCEPT ![p] = FreeAfter(fr[p], i, size, alignment)],
         NEW occ2, occ2 = occ \cup {Header(fr[p][i], size, alignment)}
  PROVE  TiledIn(pls, fr2, occ2) /\ StartsKept(pls, fr, occ, pls, fr2, occ2)
<1> DEFINE b == fr[p][i]
           kept == BlockOf(Header(b, size, alignment))
           r == Remainder(b, size, alignment)
<1>1. /\ pls \in Seq(Pool) /\ fr \in Seq(Seq(Block)) /\ Len(fr) = Len(pls)
      /\ DOMAIN pls = DOMAIN fr
      /\ fr[p] \in Seq(Block) /\ b \in Block /\ pls[p] \in Pool
      /\ PoolsSound(pls) /\ size \in Nat
  BY DEF Sound, FreeSound
<1>2. Inside(b, pls[p]) /\ Roomy(b) /\ PoolSize(pls[p]) \in 0 .. UINT32_MAX
  BY <1>1 DEF Sound, FreeSound, PoolsSound, Placed
<1>3. b.size <= UINT32_MAX
  <2> HIDE DEF b
  <2>1. QED
    BY <1>1, <1>2, BlockInUInt32
<1>4. /\ kept \in Block /\ kept.addr = b.addr /\ Roomy(kept)
      /\ BlockEnd(kept) = IF Splits(b, size, alignment)
                          THEN SplitPoint(b, size, alignment) ELSE BlockEnd(b)
      /\ BlockEnd(kept) <= BlockEnd(b)
  <2>1. Fits(b, size, alignment)
    OBVIOUS
  <2> DEFINE h == Header(b, size, alignment)
  <2> HIDE DEF b, h
  <2>2. /\ BlockOf(h) \in Block /\ BlockOf(h).addr = b.addr
        /\ Roomy(BlockOf(h))
        /\ BlockEnd(BlockOf(h)) = IF Splits(b, size, alignment)
                                  THEN SplitPoint(b, size, alignment)
                                  ELSE BlockEnd(b)
        /\ BlockEnd(BlockOf(h)) <= BlockEnd(b)
    BY <1>1, <1>2, <1>3, <2>1, HeaderFaithful DEF h
  <2>3. QED
    BY <2>2 DEF h
<1>5. Splits(b, size, alignment) =>
        /\ r.addr = SplitPoint(b, size, alignment)
        /\ BlockEnd(r) = BlockEnd(b)
  BY <1>1, RemainderPlaced
<1>6. ListBlocks(fr2[p]) = {fr[p][k] : k \in DOMAIN fr[p] \ {i}}
                             \cup (IF Splits(b, size, alignment) THEN {r} ELSE {})
  BY <1>1, FreeAfterBlocks
<1>7. \A q \in DOMAIN fr : q # p => fr2[q] = fr[q]
  BY <1>1
<1>8. \A q \in DOMAIN pls : TakenBlocks(pls[q], occ2)
                              = TakenBlocks(pls[q], occ)
                                  \cup {c \in {kept} : Inside(c, pls[q])}
  BY DEF TakenBlocks
<1> HIDE DEF b, kept, r
<1>9. Inside(kept, pls[p])
  <2>1. Within(kept, b)
    BY <1>1, <1>4 DEF Within, Block
  <2>2. QED
    BY <2>1, <1>1, <1>2, <1>4, WithinInside
<1>10. \A q \in DOMAIN pls : q # p => BlocksIn(pls, fr2, occ2, q) = BlocksIn(pls, fr, occ, q)
  <2> SUFFICES ASSUME NEW q \in DOMAIN pls, q # p
               PROVE  BlocksIn(pls, fr2, occ2, q) = BlocksIn(pls, fr, occ, q)
    OBVIOUS
  <2>1. ~Inside(kept, pls[q])
    BY <1>1, <1>4, <1>9, InOnePool
  <2>2. TakenBlocks(pls[q], occ2) = TakenBlocks(pls[q], occ)
    BY <1>8, <2>1
  <2>3. QED
    BY <2>2, <1>1, <1>7 DEF BlocksIn
<1> DEFINE old == BlocksIn(pls, fr, occ, p)
           new == BlocksIn(pls, fr2, occ2, p)
           others == {fr[p][k] : k \in DOMAIN fr[p] \ {i}} \cup TakenBlocks(pls[p], occ)
<1>11. old = others \cup {b}
  BY DEF BlocksIn, ListBlocks, b
<1>12. new = others \cup {kept} \cup (IF Splits(b, size, alignment) THEN {r} ELSE {})
  <2>1. p \in DOMAIN pls
    BY <1>1
  <2>2. TakenBlocks(pls[p], occ2) = TakenBlocks(pls[p], occ) \cup {kept}
    BY <1>8, <1>9, <2>1
  <2>3. QED
    BY <1>6, <2>2 DEF BlocksIn
<1>13. Filled(old, pls[p])
  BY <1>1 DEF TiledIn
<1> HIDE DEF old, new, others
<1>14. /\ b \in old /\ kept \in new
       /\ \A c \in old : c = b \/ c \in new
  BY <1>11, <1>12
<1>15. \/ /\ BlockEnd(kept) = BlockEnd(b)
          /\ \A c \in new : c = kept \/ c \in old
       \/ \E rest \in new :
            /\ rest.addr = BlockEnd(kept)
            /\ BlockEnd(rest) = BlockEnd(b)
            /\ \A c \in new : c \in {kept, rest} \/ c \in old
  <2>1. CASE Splits(b, size, alignment)
    BY <2>1, <1>4, <1>5, <1>11, <1>12
  <2>2. CASE ~Splits(b, size, alignment)
    BY <2>2, <1>4, <1>11, <1>12
  <2>3. QED
    BY <2>1, <2>2
<1>16. Filled(new, pls[p]) /\ Starts(old) \subseteq Starts(new)
  BY <1>4, <1>13, <1>14, <1>15, CutKeepsFilled
<1>17. TiledIn(pls, fr2, occ2)
  BY <1>10, <1>16 DEF TiledIn, new
<1>18. StartsKept(pls, fr, occ, pls, fr2, occ2)
  BY <1>10, <1>16 DEF StartsKept, new, old
<1>19. QED
  BY <1>17, <1>18

(* A deallocation finds the pool the block of the allocation lies in.      *)
LEMMA GivenPlaced ==
  ASSUME NEW pls, NEW fr, NEW occ, Sound(pls, fr, occ),
         NEW o \in occ, NEW p \in DOMAIN fr, CheckPtr(pls[p], o.ptr)
  PROVE  Placed(BlockOf(o), pls[p])
<1> DEFINE b == BlockOf(o)
<1>1. /\ pls \in Seq(Pool) /\ b \in Block /\ pls[p] \in Pool
      /\ DOMAIN pls = DOMAIN fr /\ PoolsSound(pls) /\ HeaderSound(o)
  BY DEF Sound, FreeSound, TakenSound, HeaderSound
<1>2. PICK q \in DOMAIN pls : Placed(b, pls[q])
  BY DEF Sound, TakenSound
<1>3. o.ptr \in Nat /\ b.addr <= o.ptr /\ o.ptr < BlockEnd(b) /\ pls[q] \in Pool
  BY <1>1 DEF HeaderSound, Taken, Block, BlockEnd, OccupiedHeaderSize
<1>4. CheckPtr(pls[q], o.ptr)
  BY <1>1, <1>2, <1>3, CheckPtrOfInside DEF Placed
<1>5. ~Separate(pls[p], pls[q])
  BY <1>1, <1>3, <1>4, CheckPtrOnce
<1>6. p = q
  BY <1>1, <1>5 DEF PoolsSound
<1>7. QED
  BY <1>2, <1>6

(* So does pushing the block of an allocation on the list of its pool:     *)
(* every pool has the blocks it had.                                       *)
LEMMA GiveTiled ==
  ASSUME NEW pls, NEW fr, NEW occ, Sound(pls, fr, occ), TiledIn(pls, fr, occ),
         NEW o \in occ, NEW p \in DOMAIN fr, CheckPtr(pls[p], o.ptr),
         NEW fr2, fr2 = [fr EXCEPT ![p] = <<BlockOf(o)>> \o fr[p]],
         NEW occ2, occ2 = occ \ {o}
  PROVE  TiledIn(pls, fr2, occ2) /\ StartsKept(pls, fr, occ, pls, fr2, occ2)
<1> DEFINE b == BlockOf(o)
<1>1. /\ pls \in Seq(Pool) /\ fr \in Seq(Seq(Block)) /\ Len(fr) = Len(pls)
      /\ fr[p] \in Seq(Block) /\ b \in Block /\ DOMAIN pls = DOMAIN fr
      /\ PoolsSound(pls)
  BY DEF Sound, FreeSound, TakenSound, HeaderSound
<1>2. Placed(b, pls[p])
  BY GivenPlaced
<1>3. ListBlocks(fr2[p]) = ListBlocks(fr[p]) \cup {b}
  <2> HIDE DEF b
  <2>1. <<b>> \in Seq(Block) /\ Len(<<b>>) = 1 /\ <<b>>[1] = b
    BY <1>1
  <2> DEFINE rest == <<b>> \o fr[p]
  <2>2. /\ rest \in Seq(Block) /\ Len(rest) = 1 + Len(fr[p])
        /\ \A j \in 1 .. 1 + Len(fr[p]) :
             rest[j] = IF j <= 1 THEN <<b>>[j] ELSE fr[p][j - 1]
    BY <1>1, <2>1, ConcatProperties
  <2>3. fr2[p] = rest
    BY DEF b
  <2> HIDE DEF rest
  <2>4. DOMAIN rest = 1 .. 1 + Len(fr[p]) /\ DOMAIN fr[p] = 1 .. Len(fr[p])
        /\ Len(fr[p]) \in Nat
    BY <1>1, <2>2
  <2>5. rest[1] = b
    <3>1. 1 \in 1 .. 1 + Len(fr[p]) /\ 1 <= 1
      BY <2>4
    <3> HIDE DEF b
    <3>2. QED
      BY <2>1, <2>2, <3>1
  <2>6. ASSUME NEW k \in DOMAIN fr[p]
        PROVE  k + 1 \in DOMAIN rest /\ rest[k + 1] = fr[p][k]
    BY <2>2, <2>4
  <2>7. ASSUME NEW j \in DOMAIN rest, j # 1
        PROVE  j - 1 \in DOMAIN fr[p] /\ rest[j] = fr[p][j - 1]
    BY <2>2, <2>4, <2>7
  <2>8. 1 \in DOMAIN rest
    BY <2>4
  <2>9. {rest[j] : j \in DOMAIN rest} = {fr[p][k] : k \in DOMAIN fr[p]} \cup {b}
    BY <2>5, <2>6, <2>7, <2>8
  <2>10. QED
    BY <2>3, <2>9 DEF ListBlocks
<1>4. \A q \in DOMAIN fr : q # p => fr2[q] = fr[q]
  BY <1>1
<1>5. \A q \in DOMAIN pls : TakenBlocks(pls[q], occ)
                              = TakenBlocks(pls[q], occ2)
                                  \cup {c \in {b} : Inside(c, pls[q])}
  BY DEF TakenBlocks
<1> HIDE DEF b
<1>6. ASSUME NEW q \in DOMAIN pls
      PROVE  BlocksIn(pls, fr2, occ2, q) = BlocksIn(pls, fr, occ, q)
  <2>1. CASE q = p
    <3>1. TakenBlocks(pls[q], occ) = TakenBlocks(pls[q], occ2) \cup {b}
      BY <2>1, <1>2, <1>5 DEF Placed
    <3>2. QED
      BY <2>1, <3>1, <1>3 DEF BlocksIn
  <2>2. CASE q # p
    <3>1. ~Inside(b, pls[q])
      BY <2>2, <1>1, <1>2, InOnePool DEF Placed
    <3>2. TakenBlocks(pls[q], occ) = TakenBlocks(pls[q], occ2)
      BY <3>1, <1>5
    <3>3. QED
      BY <2>2, <3>2, <1>1, <1>4 DEF BlocksIn
  <2>3. QED
    BY <2>1, <2>2
<1>7. QED
  BY <1>6 DEF TiledIn, StartsKept

(* And so does a new pool, which is one block.                             *)
LEMMA GrowTiled ==
  ASSUME NEW pls, NEW fr, NEW occ, Sound(pls, fr, occ), TiledIn(pls, fr, occ),
         NEW pool \in Pool, NEW b \in Block,
         b.addr = PoolStart(pool), BlockEnd(b) = pool.end,
         \A p \in DOMAIN pls : Separate(pls[p], pool),
         NEW pls2, pls2 = Append(pls, pool), NEW fr2, fr2 = Append(fr, <<b>>)
  PROVE  TiledIn(pls2, fr2, occ) /\ StartsKept(pls, fr, occ, pls2, fr2, occ)
<1> DEFINE n == Len(pls)
<1>1. pls \in Seq(Pool) /\ fr \in Seq(Seq(Block)) /\ Len(fr) = n /\ n \in Nat
  BY DEF Sound, FreeSound
<1>2. /\ DOMAIN pls2 = 1 .. n + 1 /\ DOMAIN pls = 1 .. n
      /\ \A p \in 1 .. n : pls2[p] = pls[p]
      /\ pls2[n + 1] = pool
  BY <1>1
<1>3. /\ \A p \in 1 .. n : fr2[p] = fr[p]
      /\ fr2[n + 1] = <<b>>
  BY <1>1
<1> HIDE DEF n
<1>4. \A p \in 1 .. n : BlocksIn(pls2, fr2, occ, p) = BlocksIn(pls, fr, occ, p)
  BY <1>2, <1>3 DEF BlocksIn
<1>5. TakenBlocks(pool, occ) = {}
  <2> SUFFICES ASSUME NEW o \in occ, Inside(BlockOf(o), pool) PROVE FALSE
    BY DEF TakenBlocks
  <2>1. PICK p \in DOMAIN pls : Placed(BlockOf(o), pls[p])
    BY DEF Sound, TakenSound
  <2>2. /\ BlockOf(o) \in Block /\ pls[p] \in Pool
        /\ Inside(BlockOf(o), pls[p]) /\ Roomy(BlockOf(o)) /\ Separate(pls[p], pool)
    BY <1>1, <2>1 DEF Sound, TakenSound, HeaderSound, Placed
  <2>3. Disjoint(BlockOf(o), BlockOf(o))
    BY <2>2, SeparatePools
  <2>4. QED
    BY <2>2, <2>3 DEF Disjoint, BlockEnd, Block, Roomy, FreeHeaderSize
<1>6. ListBlocks(<<b>>) = {b}
  BY DEF ListBlocks
<1>7. BlocksIn(pls2, fr2, occ, n + 1) = {b}
  BY <1>2, <1>3, <1>5, <1>6 DEF BlocksIn
<1>8. Filled({b}, pool)
  BY DEF Filled, Starts, Ends
<1>9. \A p \in 1 .. n + 1 : p \in 1 .. n \/ p = n + 1
  BY <1>1
<1>10. TiledIn(pls2, fr2, occ)
  BY <1>2, <1>4, <1>7, <1>8, <1>9 DEF TiledIn
<1>11. StartsKept(pls, fr, occ, pls2, fr2, occ)
  BY <1>2, <1>4 DEF StartsKept
<1>12. QED
  BY <1>10, <1>11

-----------------------------------------------------------------------------
(* ChunkOf and NoLeak of FreeList, of any chain of pools and any heap.     *)
ChunkAt(pls, p) ==
  IF p = 1
  THEN [base |-> pls[1].addr - FreeListSize,
        len  |-> AllocSize(PoolSize(pls[1]) - FreeListSize)]
  ELSE [base |-> pls[p].addr, len |-> AllocSize(PoolSize(pls[p]))]

Accounted(pls, hp) == hp = {ChunkAt(pls, p) : p \in DOMAIN pls}

(* IInv with what the pools' memory adds to it. *)
KInv ==
  /\ IInv
  /\ TiledIn(pools, free, occupied)
  /\ Accounted(pools, heap)

Kept ==
  StartsKept(pools, free, occupied, pools', free', occupied')

(* How free_list_pool_ctor lays a pool out in its chunk: one block fills   *)
(* the pool, and the size of the chunk can be told from the size of the    *)
(* pool, although a small pool_size was raised to that of a free header.   *)
LaidOut(pool, b, base, size, extra) ==
  /\ b.addr = PoolStart(pool)
  /\ BlockEnd(b) = pool.end
  /\ pool.addr - extra = base
  /\ AllocSize(PoolSize(pool) - extra) = AllocSize(size)

LEMMA FreshLayout ==
  ASSUME NEW base \in Nat, NEW first \in BOOLEAN,
         NEW size \in Nat, size + InFront(first) <= UINT32_MAX
  PROVE  LaidOut(NewPool(base, size, first), FirstBlock(base, size, first),
                 base, size, InFront(first))
<1> DEFINE extra == InFront(first)
           room == MAX(size, 16)
           pool == NewPool(base, size, first)
           b == FirstBlock(base, size, first)
<1>1. /\ room \in Nat /\ room >= 16 /\ room >= size
      /\ room + extra \in Nat /\ room + extra <= UINT32_MAX
      /\ extra \in Nat
  BY WidthAssumption DEF MAX, InFront, FreeListSize
<1>2. b = [addr |-> base + extra + 24, size |-> room + extra]
  BY <1>1, WidthAssumption DEF FirstBlock, SizeT, PoolAddr, POOL_METADATA_SIZE,
                               FreeListSize, FreeHeaderSize
<1>3. pool = [addr |-> base + extra, end |-> base + extra + 24 + (room + extra)]
  BY <1>2 DEF NewPool, PoolAddr, BlockEnd
<1>4. MAX(room, 16) = room
  <2> HIDE DEF room
  <2>1. QED
    BY <1>1 DEF MAX
<1>5. AllocSize(room) = AllocSize(size)
  BY <1>4 DEF AllocSize, FreeHeaderSize
<1> HIDE DEF extra, room, pool, b
<1>6. PoolSize(pool) - extra = room
  BY <1>1, <1>3 DEF PoolSize, PoolStart, POOL_METADATA_SIZE
<1>7. /\ b.addr = PoolStart(pool) /\ BlockEnd(b) = pool.end
      /\ pool.addr - extra = base
  BY <1>1, <1>2, <1>3 DEF PoolStart, POOL_METADATA_SIZE, BlockEnd
<1>8. QED
  BY <1>5, <1>6, <1>7 DEF extra, pool, b, LaidOut

(* The chunk of a new pool is the one malloc just gave.                    *)
LEMMA GrowAccounted ==
  ASSUME NEW pls \in Seq(Pool), NEW hp, Accounted(pls, hp),
         NEW base, NEW len, NEW pool \in Pool,
         NEW first \in BOOLEAN, first <=> pls = <<>>,
         base = pool.addr - InFront(first),
         len = AllocSize(PoolSize(pool) - InFront(first)),
         PoolSize(pool) \in Nat
  PROVE  Accounted(Append(pls, pool), Malloc(hp, base, len))
<1> DEFINE n == Len(pls)
           pls2 == Append(pls, pool)
           c == [base |-> base, len |-> len]
<1>1. /\ DOMAIN pls2 = 1 .. n + 1 /\ DOMAIN pls = 1 .. n /\ n \in Nat
      /\ \A p \in 1 .. n : pls2[p] = pls[p]
      /\ pls2[n + 1] = pool
      /\ n = 0 <=> first
  OBVIOUS
<1> HIDE DEF n, pls2
<1>2. \A p \in 1 .. n : ChunkAt(pls2, p) = ChunkAt(pls, p)
  BY <1>1 DEF ChunkAt
<1>3. ChunkAt(pls2, n + 1) = c
  <2>1. CASE first
    <3>1. n + 1 = 1 /\ pls2[1] = pool /\ InFront(first) = FreeListSize
      BY <2>1, <1>1 DEF InFront
    <3>2. QED
      BY <3>1 DEF ChunkAt
  <2>2. CASE ~first
    <3>1. n + 1 # 1 /\ InFront(first) = 0
      BY <2>2, <1>1 DEF InFront
    <3>2. pool.addr - 0 = pool.addr /\ PoolSize(pool) - 0 = PoolSize(pool)
      BY DEF Pool
    <3>3. QED
      BY <3>1, <3>2, <1>1 DEF ChunkAt
  <2>3. QED
    BY <2>1, <2>2
<1> HIDE DEF c
<1>4. {ChunkAt(pls2, p) : p \in 1 .. n + 1} = {ChunkAt(pls, p) : p \in 1 .. n} \cup {c}
  <2>1. \A p \in 1 .. n + 1 : p \in 1 .. n \/ p = n + 1
    BY <1>1
  <2>2. \A p \in 1 .. n : p \in 1 .. n + 1
    BY <1>1
  <2>3. n + 1 \in 1 .. n + 1
    BY <1>1
  <2>4. QED
    BY <1>2, <1>3, <2>1, <2>2, <2>3
<1>5. QED
  BY <1>1, <1>4 DEF Accounted, Malloc, pls2, c

(* free_list_ctor.                                                         *)
LEMMA CtorKeeps ==
  ASSUME HeadersHoldPools, KInv, NEW pool_size \in PoolSizes, Ctor(pool_size)
  PROVE  KInv' /\ Kept
<1>1. PICK base \in Bases :
        /\ heap' = Malloc(heap, base, AllocSize(pool_size))
        /\ pools' = <<NewPool(base, pool_size, TRUE)>>
        /\ free' = << <<FirstBlock(base, pool_size, TRUE)>> >>
  BY DEF Ctor
<1> DEFINE pool == NewPool(base, pool_size, TRUE)
           b == FirstBlock(base, pool_size, TRUE)
           len == AllocSize(pool_size)
<1>2. pools = <<>> /\ free = <<>> /\ occupied' = occupied
  BY DEF Ctor, KInv, IInv, Sound, FreeSound
<1>3. /\ pool_size \in Nat /\ pool_size + InFront(TRUE) <= UINT32_MAX
      /\ base \in Nat /\ base % MallocAlignment = 0
  BY WidthAssumption, BaseFacts DEF HeadersHoldPools, InFront
<1>4. pool \in Pool /\ b \in Block /\ PoolSize(pool) \in 0 .. UINT32_MAX
  BY <1>3, FreshPool
<1>5. /\ b.addr = PoolStart(pool) /\ BlockEnd(b) = pool.end
      /\ pool.addr - InFront(TRUE) = base
      /\ AllocSize(PoolSize(pool) - InFront(TRUE)) = len
  <2>1. LaidOut(pool, b, base, pool_size, InFront(TRUE))
    BY <1>3, FreshLayout
  <2> HIDE DEF pool, b
  <2>2. QED
    BY <2>1 DEF LaidOut
<1> HIDE DEF pool, b, len
<1>6. pools' = Append(pools, pool) /\ free' = Append(free, <<b>>)
      /\ heap' = Malloc(heap, base, len)
  BY <1>1, <1>2 DEF pool, b, len
<1>7. TiledIn(pools', free', occupied') /\ Kept
  <2>1. \A p \in DOMAIN pools : Separate(pools[p], pool)
    BY <1>2
  <2>2. /\ TiledIn(pools', free', occupied)
        /\ StartsKept(pools, free, occupied, pools', free', occupied)
    BY <1>4, <1>5, <1>6, <2>1, GrowTiled DEF KInv, IInv
  <2>3. QED
    BY <1>2, <2>2 DEF Kept
<1>8. Accounted(pools', heap')
  <2>1. pools \in Seq(Pool) /\ pools = <<>> /\ PoolSize(pool) \in Nat
    BY <1>2, <1>4
  <2>2. Accounted(Append(pools, pool), Malloc(heap, base, len))
    BY <1>4, <1>5, <2>1, GrowAccounted DEF KInv
  <2>3. QED
    BY <1>6, <2>2
<1>9. IInv'
  BY CtorSound DEF KInv
<1>10. QED
  BY <1>7, <1>8, <1>9 DEF KInv

(* free_list_allocate served by a pool of the chain.                       *)
LEMMA AllocateExistingKeeps ==
  ASSUME KInv, NEW size \in Nat, NEW alignment \in Nat, Ordinary(alignment),
         AllocateExisting(size, alignment)
  PROVE  KInv' /\ Kept
<1>1. PICK p \in DOMAIN pools : \E i \in DOMAIN free[p] :
        /\ FirstFit(p, i, size, alignment)
        /\ free' = [free EXCEPT ![p] = FreeAfter(@, i, size, alignment)]
        /\ occupied' = occupied \cup {Header(free[p][i], size, alignment)}
  BY DEF AllocateExisting
<1>2. PICK i \in DOMAIN free[p] :
        /\ FirstFit(p, i, size, alignment)
        /\ free' = [free EXCEPT ![p] = FreeAfter(@, i, size, alignment)]
        /\ occupied' = occupied \cup {Header(free[p][i], size, alignment)}
  BY <1>1
<1>3. p \in DOMAIN free /\ size \in Nat \ {0} /\ Fits(free[p][i], size, alignment)
  BY <1>2 DEF KInv, IInv, Sound, FreeSound, AllocateExisting, ValidSize, FirstFit
<1>4. free' = [free EXCEPT ![p] = FreeAfter(free[p], i, size, alignment)]
  BY <1>2
<1>5. pools' = pools /\ heap' = heap
  BY DEF AllocateExisting
<1>6. /\ TiledIn(pools, free', occupied')
      /\ StartsKept(pools, free, occupied, pools, free', occupied')
  BY <1>2, <1>3, <1>4, TakeTiled DEF KInv, IInv
<1>7. IInv'
  BY AllocateExistingSound DEF KInv
<1>8. QED
  BY <1>5, <1>6, <1>7 DEF KInv, Kept

(* free_list_allocate when the chain grows: a new pool, and an allocation  *)
(* cut from its block.                                                     *)
LEMMA AllocateGrowingKeeps ==
  ASSUME KInv, NEW size \in Nat, NEW alignment \in Nat, Ordinary(alignment),
         AllocateGrowing(size, alignment)
  PROVE  KInv' /\ Kept
<1> DEFINE pool_size == MAX(RequiredBlockSize(size, alignment), PoolSize(pools[1]))
<1>1. PICK base \in Bases :
        LET block == FirstBlock(base, pool_size, FALSE)
        IN  /\ CanPlace(heap, base, AllocSize(pool_size))
            /\ heap' = Malloc(heap, base, AllocSize(pool_size))
            /\ pools' = Append(pools, NewPool(base, pool_size, FALSE))
            /\ free' = Append(free, FreeAfter(<<block>>, 1, size, alignment))
            /\ occupied' = occupied \cup {Header(block, size, alignment)}
  BY DEF AllocateGrowing
<1>2. /\ RequiredBlockSize(size, alignment) \in 0 .. UINT32_MAX
      /\ RequiredBlockSize(size, alignment) # 0
  BY RequiredBounds DEF AllocateGrowing
<1>3. PoolSize(pools[1]) \in 0 .. UINT32_MAX
  BY DEF AllocateGrowing, KInv, IInv, Sound, PoolsSound
<1>4. /\ pool_size \in Nat /\ pool_size <= UINT32_MAX
      /\ pool_size >= RequiredBlockSize(size, alignment)
  BY <1>2, <1>3, WidthAssumption DEF MAX
<1> DEFINE pool == NewPool(base, pool_size, FALSE)
           b == FirstBlock(base, pool_size, FALSE)
           len == AllocSize(pool_size)
           grown == Append(free, <<b>>)
<1> HIDE DEF pool_size
<1>5. size \in Nat \ {0} /\ Fits(b, size, alignment)
  BY <1>2, <1>4, RequiredServes, BaseFacts
<1>6. /\ pool_size + InFront(FALSE) <= UINT32_MAX /\ InFront(FALSE) = 0
      /\ base \in Nat /\ base % MallocAlignment = 0
  BY <1>4, BaseFacts DEF InFront
<1>7. /\ pool \in Pool /\ b \in Block /\ Placed(b, pool)
      /\ PoolSize(pool) \in 0 .. UINT32_MAX
      /\ len \in Nat /\ base <= pool.addr
      /\ pool.end <= base + len + InFront(FALSE)
  BY <1>4, <1>6, FreshPool
<1>8. /\ b.addr = PoolStart(pool) /\ BlockEnd(b) = pool.end
      /\ pool.addr - InFront(FALSE) = base
      /\ AllocSize(PoolSize(pool) - InFront(FALSE)) = len
  <2>1. LaidOut(pool, b, base, pool_size, InFront(FALSE))
    BY <1>4, <1>6, FreshLayout
  <2> HIDE DEF pool, b
  <2>2. QED
    BY <2>1 DEF LaidOut
<1>9. /\ CanPlace(heap, base, len)
      /\ heap' = Malloc(heap, base, len)
      /\ pools' = Append(pools, pool)
      /\ free' = Append(free, FreeAfter(<<b>>, 1, size, alignment))
      /\ occupied' = occupied \cup {Header(b, size, alignment)}
  BY <1>1
<1> HIDE DEF pool, b, len
<1>10. pool.end <= base + len /\ pool.end <= base + len + MallocGap
  <2>1. pool.end \in Nat /\ base + len \in Nat /\ pool.end <= base + len + 0
    BY <1>6, <1>7 DEF Pool, InFront
  <2>2. QED
    BY <2>1, HeapAssumption
<1>11. /\ pools \in Seq(Pool) /\ heap \in SUBSET Chunk /\ InHeap(pools, heap)
       /\ free \in Seq(Seq(Block)) /\ pools # <<>>
  BY DEF KInv, IInv, Sound, FreeSound, AllocateGrowing
<1>12. \A p \in DOMAIN pools : Separate(pools[p], pool)
  BY <1>7, <1>9, <1>10, <1>11, GrowHeap
<1>13. /\ TiledIn(pools', grown, occupied)
       /\ StartsKept(pools, free, occupied, pools', grown, occupied)
  BY <1>7, <1>8, <1>9, <1>12, GrowTiled DEF KInv, IInv
<1>14. Sound(pools', grown, occupied)
  <2>1. Sound(Append(pools, pool), Append(free, <<b>>), occupied)
    BY <1>7, <1>12, GrowSound DEF KInv, IInv
  <2>2. QED
    BY <1>9, <2>1
<1> DEFINE n == Len(free) + 1
<1>15. /\ n \in DOMAIN grown /\ grown[n] = <<b>>
       /\ free' = [grown EXCEPT ![n] = FreeAfter(<<b>>, 1, size, alignment)]
  <2>1. <<b>> \in Seq(Block) /\ 1 \in DOMAIN <<b>> /\ size \in Nat
    BY <1>5, <1>7
  <2>2. FreeAfter(<<b>>, 1, size, alignment) \in Seq(Block)
    BY <2>1, FreeAfterShape
  <2>3. AppendThenChange(free, <<b>>, FreeAfter(<<b>>, 1, size, alignment))
    BY <1>11, <2>1, <2>2, AppendExcept
  <2>4. QED
    BY <1>9, <2>3 DEF AppendThenChange
<1> HIDE DEF grown, n
<1>16. /\ TiledIn(pools', free', occupied')
       /\ StartsKept(pools', grown, occupied, pools', free', occupied')
  <2>1. 1 \in DOMAIN grown[n] /\ grown[n][1] = b
    BY <1>15
  <2>2. free' = [grown EXCEPT ![n] = FreeAfter(grown[n], 1, size, alignment)]
    BY <1>15
  <2>3. occupied' = occupied \cup {Header(grown[n][1], size, alignment)}
    BY <1>9, <2>1
  <2>4. QED
    BY <1>5, <1>13, <1>14, <1>15, <2>1, <2>2, <2>3, TakeTiled
<1>17. Kept
  <2>1. DOMAIN pools \subseteq DOMAIN pools'
    BY <1>9, <1>11, <1>7
  <2>2. QED
    BY <1>13, <1>16, <2>1 DEF Kept, StartsKept
<1>18. Accounted(pools', heap')
  <2>1. PoolSize(pool) \in Nat
    BY <1>7
  <2>2. Accounted(Append(pools, pool), Malloc(heap, base, len))
    BY <1>7, <1>8, <1>11, <2>1, GrowAccounted DEF KInv
  <2>3. QED
    BY <1>9, <2>2
<1>19. IInv'
  BY AllocateGrowingSound DEF KInv
<1>20. QED
  BY <1>16, <1>17, <1>18, <1>19 DEF KInv

(* free_list_deallocate.                                                   *)
LEMMA DeallocateKeeps ==
  ASSUME KInv, NEW o \in occupied, Deallocate(o)
  PROVE  KInv' /\ Kept
<1>1. PICK p \in DOMAIN pools :
        /\ CheckPtr(pools[p], o.ptr)
        /\ free' = [free EXCEPT ![p] = <<BlockOf(o)>> \o @]
  BY DEF Deallocate
<1>2. p \in DOMAIN free /\ free' = [free EXCEPT ![p] = <<BlockOf(o)>> \o free[p]]
  BY <1>1 DEF KInv, IInv, Sound, FreeSound
<1>3. pools' = pools /\ heap' = heap /\ occupied' = occupied \ {o}
  BY DEF Deallocate
<1>4. /\ TiledIn(pools, free', occupied')
      /\ StartsKept(pools, free, occupied, pools, free', occupied')
  BY <1>1, <1>2, <1>3, GiveTiled DEF KInv, IInv
<1>5. IInv'
  BY DeallocateSound DEF KInv
<1>6. QED
  BY <1>3, <1>4, <1>5 DEF KInv, Kept

(* free_list_dtor frees every chunk: the first by the address of the       *)
(* FreeList, the others by those of their pools.                           *)
LEMMA DtorKeeps ==
  ASSUME KInv, Dtor
  PROVE  KInv' /\ pools' = <<>>
<1>1. pools' = <<>> /\ free' = <<>> /\ occupied' = {}
  BY DEF Dtor
<1>2. heap' = {}
  <2> SUFFICES ASSUME NEW c \in heap
               PROVE  c.base \in {pools[1].addr - FreeListSize}
                                   \cup {pools[p].addr : p \in 2 .. Len(pools)}
    BY DEF Dtor, FreeAll
  <2>1. PICK p \in DOMAIN pools : c = ChunkAt(pools, p)
    BY DEF KInv, Accounted
  <2>2. DOMAIN pools = 1 .. Len(pools) /\ Len(pools) \in Nat
    BY DEF KInv, IInv, Sound
  <2>3. CASE p = 1
    BY <2>1, <2>3 DEF ChunkAt
  <2>4. CASE p # 1
    BY <2>1, <2>2, <2>4 DEF ChunkAt
  <2>5. QED
    BY <2>3, <2>4
<1>3. TiledIn(pools', free', occupied') /\ Accounted(pools', heap')
  BY <1>1, <1>2 DEF TiledIn, Accounted
<1>4. IInv'
  BY DtorSound DEF KInv
<1>5. QED
  BY <1>1, <1>3, <1>4 DEF KInv

(* A step that changes nothing.                                            *)
LEMMA StutterKeeps ==
  ASSUME KInv, UNCHANGED vars
  PROVE  KInv' /\ Kept
<1>1. pools' = pools /\ free' = free /\ occupied' = occupied /\ heap' = heap
  BY DEF vars
<1>2. IInv'
  BY <1>1 DEF KInv, IInv
<1>3. QED
  BY <1>1, <1>2 DEF KInv, Kept, StartsKept

(* Every step keeps the invariant, and destroys the free list or keeps     *)
(* every start of a block.                                                 *)
LEMMA NextKeeps ==
  ASSUME HeadersHoldPools, KInv, [Next]_vars
  PROVE  KInv' /\ (Kept \/ pools' = <<>>)
<1>1. ASSUME NEW pool_size \in PoolSizes, Ctor(pool_size) PROVE KInv' /\ Kept
  BY <1>1, CtorKeeps
<1>2. ASSUME NEW q \in Requests, AllocateExisting(q[1], q[2]) PROVE KInv' /\ Kept
  BY <1>2, AllocateExistingKeeps, RequestFacts
<1>3. ASSUME NEW q \in Requests, AllocateGrowing(q[1], q[2]) PROVE KInv' /\ Kept
  BY <1>3, AllocateGrowingKeeps, RequestFacts
<1>4. ASSUME NEW q \in Requests, AllocateNull(q[1], q[2]) PROVE KInv' /\ Kept
  BY <1>4, StutterKeeps DEF AllocateNull
<1>5. ASSUME NEW o \in occupied, Deallocate(o) PROVE KInv' /\ Kept
  BY <1>5, DeallocateKeeps
<1>6. ASSUME NEW ptr \in Bases \cup {0}, DeallocateForeign(ptr) PROVE KInv' /\ Kept
  BY <1>6, StutterKeeps DEF DeallocateForeign
<1>7. CASE Dtor
  BY <1>7, DtorKeeps
<1>8. CASE UNCHANGED vars
  BY <1>8, StutterKeeps
<1>9. QED
  BY <1>1, <1>2, <1>3, <1>4, <1>5, <1>6, <1>7, <1>8 DEF Next

(* The pools stay tiled and the heap accounted for.                        *)
LEMMA KeptInvariance ==
  ASSUME HeadersHoldPools
  PROVE  Spec => []KInv
<1>1. Init => KInv
  BY EmptySound DEF Init, KInv, IInv, InHeap, TiledIn, Accounted
<1>2. KInv /\ [Next]_vars => KInv'
  BY NextKeeps
<1>3. QED
  BY <1>1, <1>2, PTL DEF Spec

-----------------------------------------------------------------------------
(* Splitting and giving back lose no byte: the blocks of a pool follow one *)
(* another from the end of its metadata to its own end.                    *)
THEOREM TiledAlways ==
  ASSUME HeadersHoldPools
  PROVE  Spec => []Tiled
<1>1. KInv => Tiled
  BY DEF KInv, TiledIn, Filled, Starts, Ends, BlocksIn, ListBlocks, TakenBlocks,
         Tiled, BlocksOf
<1>2. QED
  BY <1>1, KeptInvariance, PTL

(* The heap is the chunks of the pools, so that free_list_dtor, which      *)
(* frees the pools of the chain, leaves no memory behind.                  *)
THEOREM NoLeakAlways ==
  ASSUME HeadersHoldPools
  PROVE  Spec => []NoLeak
<1>1. KInv => NoLeak
  BY DEF KInv, Accounted, ChunkAt, NoLeak, ChunkOf
<1>2. QED
  BY <1>1, KeptInvariance, PTL

(* Of a chunk of the size that free_list_pool_ctor computes, extra bytes   *)
(* are missing, and those are what it adds to a first pool.                *)
LEMMA ChunkReach ==
  ASSUME NEW pool \in Pool, NEW extra \in {0, FreeListSize},
         PoolSize(pool) \in 0 .. UINT32_MAX,
         NEW len, len = AllocSize(PoolSize(pool) - extra)
  PROVE  /\ len \in Nat
         /\ pool.end <= pool.addr + len
         /\ PoolStart(pool) + FreeHeaderSize + extra <= pool.addr + len
<1> DEFINE size == PoolSize(pool)
           room == MAX(size - extra, 16)
<1>1. extra \in Nat /\ extra <= 8 /\ size \in Nat /\ size <= UINT32_MAX
  BY WidthAssumption DEF FreeListSize
<1>2. /\ room \in Nat /\ room >= 16 /\ room >= size - extra
      /\ room <= UINT32_MAX
  BY <1>1, WidthAssumption DEF MAX
<1>3. len = 32 + room
  BY <1>2, WidthAssumption
     DEF AllocSize, SizeT, POOL_METADATA_SIZE, OccupiedHeaderSize, FreeHeaderSize
<1>4. pool.end = pool.addr + 24 + size /\ pool.addr \in Nat
  BY <1>1 DEF Pool, PoolSize, PoolStart, POOL_METADATA_SIZE
<1> HIDE DEF size, room
<1>5. QED
  BY <1>1, <1>2, <1>3, <1>4
     DEF PoolStart, POOL_METADATA_SIZE, FreeHeaderSize

(* However many pools are added, only the first reaches behind its chunk,  *)
(* and by no more than a FreeList.                                         *)
THEOREM OverrunBoundedAlways ==
  ASSUME HeadersHoldPools
  PROVE  Spec => []OverrunBounded
<1>1. KInv => OverrunBounded
  <2> SUFFICES ASSUME KInv, NEW p \in DOMAIN pools
               PROVE  \E c \in heap :
                        /\ c.base + InFront(p = 1) <= pools[p].addr
                        /\ pools[p].end <= c.base + c.len + InFront(p = 1)
                        /\ PoolStart(pools[p]) + FreeHeaderSize <= c.base + c.len
    BY DEF OverrunBounded
  <2> DEFINE extra == InFront(p = 1)
             pool == pools[p]
             len == AllocSize(PoolSize(pool) - extra)
             c == ChunkAt(pools, p)
  <2>1. c \in heap
    BY DEF KInv, Accounted
  <2>2. pool \in Pool /\ PoolSize(pool) \in 0 .. UINT32_MAX
    BY DEF KInv, IInv, Sound, PoolsSound
  <2>3. extra \in {0, FreeListSize}
    BY DEF InFront
  <2>4. c.base = pool.addr - extra /\ c.len = len
    <3>1. CASE p = 1
      BY <3>1 DEF ChunkAt, InFront
    <3>2. CASE p # 1
      <4>1. extra = 0 /\ pool.addr - 0 = pool.addr
            /\ PoolSize(pool) - 0 = PoolSize(pool)
        BY <3>2, <2>2 DEF InFront, Pool
      <4>2. QED
        BY <3>2, <4>1 DEF ChunkAt
    <3>3. QED
      BY <3>1, <3>2
  <2>5. len \in Nat /\ pool.addr \in Nat /\ PoolStart(pool) \in Nat
        /\ pool.end \in Nat
    BY <2>2, <2>3, ChunkReach DEF Pool, PoolStart, POOL_METADATA_SIZE
  <2>6. /\ pool.end <= pool.addr + len
        /\ PoolStart(pool) + FreeHeaderSize + extra <= pool.addr + len
    BY <2>2, <2>3, ChunkReach
  <2> HIDE DEF len, pool, c
  <2>7. QED
    <3>1. extra \in Nat
      BY <2>3 DEF FreeListSize
    <3> HIDE DEF extra
    <3>2. /\ c.base + extra <= pool.addr
          /\ pool.end <= c.base + c.len + extra
          /\ PoolStart(pool) + FreeHeaderSize <= c.base + c.len
      BY <2>4, <2>5, <2>6, <3>1 DEF FreeHeaderSize
    <3>3. QED
      BY <2>1, <3>2 DEF extra, pool
<1>2. QED
  BY <1>1, KeptInvariance, PTL

(* Nothing joins neighbouring blocks again.                                *)
THEOREM FragmentationForever ==
  ASSUME HeadersHoldPools
  PROVE  Spec => FragmentationIsPermanent
<1> DEFINE StartsStay ==
             pools' # <<>> =>
               \A p \in DOMAIN pools :
                 {b.addr : b \in BlocksOf(p)} \subseteq {b.addr : b \in BlocksOf(p)'}
<1>1. KInv /\ [Next]_vars => [StartsStay]_vars
  <2> SUFFICES ASSUME KInv, [Next]_vars PROVE StartsStay
    OBVIOUS
  <2>1. Kept \/ pools' = <<>>
    BY NextKeeps
  <2>2. Kept => StartsStay
    BY DEF Kept, StartsKept, Starts, BlocksIn, ListBlocks, TakenBlocks, BlocksOf
  <2>3. QED
    BY <2>1, <2>2
<1>2. QED
  BY <1>1, KeptInvariance, PTL DEF Spec, FragmentationIsPermanent
=============================================================================
