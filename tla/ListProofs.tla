----------------------------- MODULE ListProofs -----------------------------
(***************************************************************************)
(* Theorems about List, for any number of lists, nodes and resources.      *)
(*                                                                         *)
(* The links are judged by one predicate, Linked, against the sequences of *)
(* nodes they stand for: around list l and its sequence q the links go     *)
(* from each place At(q, l, k) to the next one and back (Ring).  The       *)
(* invariant says that there are such sequences.  Every operation on the   *)
(* links is one on the sequences, and Walk, which List's properties and    *)
(* its refinement of NodeSequences are stated with, finds them again from  *)
(* the links (WalkOfRing).                                                 *)
(***************************************************************************)
EXTENDS List, SequenceTheorems, FiniteSetTheorems, WellFoundedInduction, TLAPS

-----------------------------------------------------------------------------
(* Every set of natural numbers has a least one: what stands in for        *)
(* induction below.                                                        *)
LEMMA LeastNat ==
  ASSUME NEW T \in SUBSET Nat, T # {}
  PROVE  \E m \in T : \A k \in T : m <= k
<1>1. PICK m \in T : \A k \in T : ~(<<k, m>> \in OpToRel(<, Nat))
  BY NatLessThanWellFounded, WFMin
<1>2. \A k \in T : ~(k < m)
  BY <1>1 DEF OpToRel
<1>3. QED
  BY <1>2

LEMMA IntervalCardinality ==
  ASSUME NEW n \in Nat
  PROVE  Cardinality(1 .. n) = n
<1>1. Cardinality(1 .. n) = IF 1 > n THEN 0 ELSE n - 1 + 1
  BY FS_Interval
<1>2. QED
  BY <1>1

(* The place k of the ring of list l whose nodes are q: the sentinel comes *)
(* before the first node and behind the last.                              *)
At(q, l, k) == IF k \in 1 .. Len(q) THEN q[k] ELSE l

(* The links nx and pv lead around that ring, forwards and backwards.      *)
Ring(pv, nx, l, q) ==
  \A k \in 0 .. Len(q) :
    /\ nx[At(q, l, k)] = At(q, l, k + 1)
    /\ pv[At(q, l, k + 1)] = At(q, l, k)

(* No node is in a sequence twice. *)
Once(q) == \A i, j \in DOMAIN q : q[i] = q[j] => i = j

(* A sequence without repetition is no longer than there are nodes. *)
LEMMA OnceBound ==
  ASSUME NEW q \in Seq(Nodes), Once(q)
  PROVE  Cardinality(Nodes) \in Nat /\ Len(q) <= Cardinality(Nodes)
<1>1. IsFiniteSet(Nodes)
  BY ListAssumption
<1>2. q \in Injection(1 .. Len(q), Nodes)
  BY DEF Once, Injection, IsInjective
<1>3. Cardinality(1 .. Len(q)) <= Cardinality(Nodes)
  BY <1>1, <1>2, FS_Injection
<1>4. Cardinality(1 .. Len(q)) = Len(q)
  BY IntervalCardinality
<1>5. QED
  BY <1>1, <1>3, <1>4, FS_CardinalityType

(* The function Walk is defined with, for some link and list. *)
Visits(at, link, l) ==
  at = [k \in 1 .. Cardinality(Nodes) + 1 |->
          IF k = 1 THEN link[l]
          ELSE IF at[k - 1] \in Nodes THEN link[at[k - 1]] ELSE at[k - 1]]

\* A list's nodes and then its sentinel, as often as Visits goes on.
Visited(q, l) == [k \in 1 .. Cardinality(Nodes) + 1 |-> At(q, l, k)]

(* Following the links of a ring visits its places in order. *)
LEMMA VisitsRing ==
  ASSUME NEW l \in Lists, NEW q \in Seq(Nodes), NEW link, Once(q),
         \A k \in 0 .. Len(q) : link[At(q, l, k)] = At(q, l, k + 1)
  PROVE  Visits(Visited(q, l), link, l)
<1> DEFINE N == Cardinality(Nodes)
           g == Visited(q, l)
<1>1. N \in Nat /\ Len(q) \in Nat /\ Len(q) <= N
  BY OnceBound
<1>2. l \notin Nodes
  BY ListAssumption
<1> HIDE DEF N
<1>3. \A k \in 1 .. N + 1 : g[k] = At(q, l, k)
  BY DEF Visited, N
<1>4. ASSUME NEW k \in 1 .. N + 1
      PROVE  At(q, l, k) = IF k = 1 THEN link[l]
                           ELSE IF g[k - 1] \in Nodes THEN link[g[k - 1]]
                           ELSE g[k - 1]
  <2>1. CASE k = 1
    <3>1. 0 \in 0 .. Len(q) /\ At(q, l, 0) = l
      BY <1>1 DEF At
    <3>2. QED
      BY <2>1, <3>1
  <2>2. CASE k # 1
    <3>1. k - 1 \in 1 .. N + 1 /\ (k - 1) + 1 = k /\ g[k - 1] = At(q, l, k - 1)
      BY <2>2, <1>1, <1>3
    <3>2. CASE k - 1 <= Len(q)
      <4>1. k - 1 \in 0 .. Len(q) /\ k - 1 \in 1 .. Len(q)
        BY <2>2, <3>2, <1>1
      <4>2. At(q, l, k - 1) \in Nodes
        BY <4>1 DEF At
      <4>3. link[At(q, l, k - 1)] = At(q, l, k)
        BY <3>1, <4>1
      <4>4. QED
        BY <2>2, <3>1, <4>2, <4>3
    <3>3. CASE ~(k - 1 <= Len(q))
      <4>1. At(q, l, k - 1) = l /\ At(q, l, k) = l
        BY <3>3, <1>1 DEF At
      <4>2. QED
        BY <2>2, <3>1, <4>1, <1>2
    <3>4. QED
      BY <3>2, <3>3
  <2>3. QED
    BY <2>1, <2>2
<1>5. g = [k \in 1 .. N + 1 |-> At(q, l, k)]
  BY DEF Visited, N
<1> HIDE DEF g
<1>6. g = [k \in 1 .. N + 1 |->
             IF k = 1 THEN link[l]
             ELSE IF g[k - 1] \in Nodes THEN link[g[k - 1]] ELSE g[k - 1]]
  BY <1>4, <1>5
<1>7. QED
  BY <1>6 DEF Visits, N, g

(* Only one function visits in that way. *)
LEMMA VisitsOnce ==
  ASSUME NEW link, NEW l, NEW g, NEW h, Visits(g, link, l), Visits(h, link, l),
         Cardinality(Nodes) \in Nat
  PROVE  g = h
<1> DEFINE N == Cardinality(Nodes)
           T == {k \in 1 .. N + 1 : g[k] # h[k]}
<1>1. T = {}
  <2> SUFFICES ASSUME T # {} PROVE FALSE
    OBVIOUS
  <2>1. T \in SUBSET Nat
    OBVIOUS
  <2>2. PICK m \in T : \A k \in T : m <= k
    BY <2>1, LeastNat
  <2>3. /\ g[m] = IF m = 1 THEN link[l]
                  ELSE IF g[m - 1] \in Nodes THEN link[g[m - 1]] ELSE g[m - 1]
        /\ h[m] = IF m = 1 THEN link[l]
                  ELSE IF h[m - 1] \in Nodes THEN link[h[m - 1]] ELSE h[m - 1]
    BY <2>2 DEF Visits
  <2>4. m # 1
    BY <2>2, <2>3
  <2>5. m - 1 \in 1 .. N + 1 /\ ~(m <= m - 1)
    BY <2>2, <2>4
  <2>6. g[m - 1] = h[m - 1]
    BY <2>2, <2>5
  <2>7. QED
    BY <2>2, <2>3, <2>6
<1>2. \A k \in 1 .. N + 1 : g[k] = h[k]
  BY <1>1
<1>3. g = [k \in 1 .. N + 1 |-> g[k]] /\ h = [k \in 1 .. N + 1 |-> h[k]]
  BY DEF Visits
<1>4. QED
  BY <1>2, <1>3

(* Walk finds the sequence of a ring again. *)
LEMMA WalkOfRing ==
  ASSUME NEW l \in Lists, NEW q \in Seq(Nodes), NEW link, Once(q),
         \A k \in 0 .. Len(q) : link[At(q, l, k)] = At(q, l, k + 1)
  PROVE  Walk(link, l) = q
<1> DEFINE N == Cardinality(Nodes)
           at[k \in 1 .. N + 1] ==
             IF k = 1 THEN link[l]
             ELSE IF at[k - 1] \in Nodes THEN link[at[k - 1]] ELSE at[k - 1]
           met == {k \in 1 .. N : at[k] \in Nodes}
<1>1. N \in Nat /\ Len(q) \in Nat /\ Len(q) <= N
  BY OnceBound
<1>2. Walk(link, l) = [k \in 1 .. Cardinality(met) |-> at[k]]
  BY DEF Walk
<1>3. at = CHOOSE g : Visits(g, link, l)
  BY DEF Visits
<1> HIDE DEF at
<1>4. Visits(at, link, l)
  BY <1>3, VisitsRing
<1>5. at = Visited(q, l)
  BY <1>1, <1>4, VisitsRing, VisitsOnce
<1>6. \A k \in 1 .. N + 1 : at[k] = At(q, l, k)
  BY <1>5 DEF Visited
<1>7. met = 1 .. Len(q)
  <2>1. l \notin Nodes
    BY ListAssumption
  <2>2. ASSUME NEW k \in 1 .. N
        PROVE  at[k] \in Nodes <=> k \in 1 .. Len(q)
    <3>1. at[k] = At(q, l, k)
      BY <1>1, <1>6
    <3>2. CASE k \in 1 .. Len(q)
      BY <3>1, <3>2 DEF At
    <3>3. CASE k \notin 1 .. Len(q)
      BY <3>1, <3>3, <2>1 DEF At
    <3>4. QED
      BY <3>2, <3>3
  <2> HIDE DEF N
  <2>3. QED
    BY <1>1, <2>2
<1>8. Cardinality(met) = Len(q)
  BY <1>1, <1>7, IntervalCardinality
<1>9. \A k \in 1 .. Len(q) : at[k] = q[k]
  BY <1>1, <1>6 DEF At
<1> HIDE DEF met
<1>10. Walk(link, l) = [k \in 1 .. Len(q) |-> q[k]]
  BY <1>2, <1>8, <1>9
<1>11. QED
  BY <1>10

-----------------------------------------------------------------------------
(* The two changes of a sequence.                                          *)
Inserted(q2, q, i, n) ==
  /\ Len(q2) = Len(q) + 1
  /\ \A k \in 1 .. Len(q) + 1 :
       q2[k] = IF k < i THEN q[k] ELSE IF k = i THEN n ELSE q[k - 1]

LEMMA InsertAtShape ==
  ASSUME NEW S, NEW q \in Seq(S), NEW i \in 1 .. Len(q) + 1, NEW n \in S
  PROVE  InsertAt(q, i, n) \in Seq(S) /\ Inserted(InsertAt(q, i, n), q, i, n)
<1> DEFINE front == SubSeq(q, 1, i - 1)
           back == SubSeq(q, i, Len(q))
           head == front \o <<n>>
<1>1. i \in 1 .. Len(q) + 1 /\ Len(q) \in Nat
  OBVIOUS
<1>2. /\ front \in Seq(S) /\ Len(front) = i - 1
      /\ \A k \in 1 .. i - 1 : front[k] = q[k]
  BY <1>1
<1>3. /\ back \in Seq(S) /\ Len(back) = Len(q) - i + 1
      /\ \A k \in 1 .. Len(q) - i + 1 : back[k] = q[i + k - 1]
  BY <1>1
<1>4. InsertAt(q, i, n) = head \o back
  BY DEF InsertAt
<1> HIDE DEF front, back
<1>5. /\ head \in Seq(S) /\ Len(head) = i
      /\ \A k \in 1 .. i : head[k] = IF k < i THEN q[k] ELSE n
  <2>1. /\ <<n>> \in Seq(S) /\ Len(<<n>>) = 1 /\ <<n>>[1] = n
    OBVIOUS
  <2>2. /\ head \in Seq(S)
        /\ Len(head) = Len(front) + Len(<<n>>)
        /\ \A k \in 1 .. Len(front) + Len(<<n>>) :
             head[k] = IF k <= Len(front) THEN front[k] ELSE <<n>>[k - Len(front)]
    BY <1>2, <2>1, ConcatProperties
  <2> HIDE DEF head
  <2>3. Len(head) = i
    BY <1>1, <1>2, <2>1, <2>2
  <2>4. \A k \in 1 .. i : head[k] = IF k <= i - 1 THEN front[k] ELSE <<n>>[k - (i - 1)]
    BY <1>1, <1>2, <2>1, <2>2
  <2>5. \A k \in 1 .. i - 1 : head[k] = q[k]
    BY <1>1, <1>2, <2>4
  <2>6. head[i] = n
    <3>1. i \in 1 .. i /\ ~(i <= i - 1) /\ i - (i - 1) = 1
      BY <1>1
    <3>2. QED
      BY <3>1, <2>1, <2>4
  <2>7. \A k \in 1 .. i : (k \in 1 .. i - 1 /\ k < i) \/ k = i
    BY <1>1
  <2>8. ~(i < i)
    BY <1>1
  <2>9. QED
    BY <2>2, <2>3, <2>5, <2>6, <2>7, <2>8
<1> HIDE DEF head
<1>6. /\ head \o back \in Seq(S)
      /\ Len(head \o back) = Len(q) + 1
      /\ \A k \in 1 .. Len(q) + 1 :
           (head \o back)[k] = IF k <= i THEN head[k] ELSE back[k - i]
  <2>1. /\ head \o back \in Seq(S)
        /\ Len(head \o back) = Len(head) + Len(back)
        /\ \A k \in 1 .. Len(head) + Len(back) :
             (head \o back)[k] =
               IF k <= Len(head) THEN head[k] ELSE back[k - Len(head)]
    BY <1>3, <1>5, ConcatProperties
  <2>2. Len(head) + Len(back) = Len(q) + 1
    BY <1>1, <1>3, <1>5
  <2>3. QED
    BY <2>1, <2>2, <1>5
<1>7. ASSUME NEW k \in 1 .. Len(q) + 1
      PROVE  (head \o back)[k] =
               IF k < i THEN q[k] ELSE IF k = i THEN n ELSE q[k - 1]
  <2>1. CASE k <= i
    <3>1. k \in 1 .. i
      BY <2>1, <1>1
    <3>2. (head \o back)[k] = head[k] /\ head[k] = IF k < i THEN q[k] ELSE n
      BY <2>1, <3>1, <1>5, <1>6
    <3>3. ~(k < i) => k = i
      BY <2>1, <1>1
    <3>4. QED
      BY <3>2, <3>3
  <2>2. CASE ~(k <= i)
    <3>1. k - i \in 1 .. Len(q) - i + 1 /\ i + (k - i) - 1 = k - 1
      BY <2>2, <1>1
    <3>2. back[k - i] = q[k - 1]
      BY <3>1, <1>3
    <3>3. ~(k < i) /\ k # i
      BY <2>2, <1>1
    <3>4. QED
      BY <2>2, <3>2, <3>3, <1>6
  <2>3. QED
    BY <2>1, <2>2
<1>8. QED
  BY <1>4, <1>6, <1>7 DEF Inserted

LEMMA RemoveAtShape ==
  ASSUME NEW S, NEW q \in Seq(S), NEW i \in DOMAIN q
  PROVE  /\ RemoveAt(q, i) \in Seq(S)
         /\ Len(RemoveAt(q, i)) = Len(q) - 1
         /\ \A k \in 1 .. Len(q) - 1 :
              RemoveAt(q, i)[k] = q[IF k < i THEN k ELSE k + 1]
<1> DEFINE front == SubSeq(q, 1, i - 1)
           back == SubSeq(q, i + 1, Len(q))
<1>1. i \in 1 .. Len(q) /\ Len(q) \in Nat
  OBVIOUS
<1>2. /\ front \in Seq(S) /\ Len(front) = i - 1
      /\ \A k \in 1 .. i - 1 : front[k] = q[k]
  BY <1>1
<1>3. /\ back \in Seq(S) /\ Len(back) = Len(q) - i
      /\ \A k \in 1 .. Len(q) - i : back[k] = q[i + k]
  BY <1>1
<1>4. RemoveAt(q, i) = front \o back
  BY DEF RemoveAt
<1> HIDE DEF front, back
<1>5. /\ front \o back \in Seq(S) /\ Len(front \o back) = Len(q) - 1
      /\ \A k \in 1 .. Len(q) - 1 :
           (front \o back)[k] = IF k <= i - 1 THEN front[k] ELSE back[k - (i - 1)]
  <2>1. /\ front \o back \in Seq(S)
        /\ Len(front \o back) = Len(front) + Len(back)
        /\ \A k \in 1 .. Len(front) + Len(back) :
             (front \o back)[k] =
               IF k <= Len(front) THEN front[k] ELSE back[k - Len(front)]
    BY <1>2, <1>3, ConcatProperties
  <2>2. Len(front) + Len(back) = Len(q) - 1
    BY <1>1, <1>2, <1>3
  <2>3. QED
    BY <2>1, <2>2, <1>2
<1>6. ASSUME NEW k \in 1 .. Len(q) - 1
      PROVE  (front \o back)[k] = q[IF k < i THEN k ELSE k + 1]
  <2>1. CASE k < i
    BY <2>1, <1>1, <1>2, <1>5
  <2>2. CASE ~(k < i)
    <3>1. k - (i - 1) \in 1 .. Len(q) - i /\ i + (k - (i - 1)) = k + 1
      BY <2>2, <1>1
    <3>2. back[k - (i - 1)] = q[k + 1]
      BY <3>1, <1>3
    <3>3. QED
      BY <2>2, <3>2, <1>1, <1>5
  <2>3. QED
    BY <2>1, <2>2
<1>7. QED
  BY <1>4, <1>5, <1>6

(* What they do to the places of the ring.                                 *)
LEMMA AtInserted ==
  ASSUME NEW l, NEW q \in Seq(Nodes), NEW i \in 1 .. Len(q) + 1, NEW n \in Nodes,
         NEW k \in 0 .. Len(q) + 2
  PROVE  At(InsertAt(q, i, n), l, k) =
           IF k < i THEN At(q, l, k) ELSE IF k = i THEN n ELSE At(q, l, k - 1)
<1>1. Len(q) \in Nat /\ i \in Nat /\ k \in Nat
  OBVIOUS
<1>2. /\ Len(InsertAt(q, i, n)) = Len(q) + 1
      /\ \A j \in 1 .. Len(q) + 1 :
           InsertAt(q, i, n)[j] =
             IF j < i THEN q[j] ELSE IF j = i THEN n ELSE q[j - 1]
  <2>1. Inserted(InsertAt(q, i, n), q, i, n)
    BY InsertAtShape
  <2>2. QED
    BY <2>1 DEF Inserted
<1>3. CASE k = 0 \/ k = Len(q) + 2
  <2>1. /\ k \notin 1 .. Len(q) + 1
        /\ k < i => k \notin 1 .. Len(q)
        /\ ~(k < i) => k # i /\ k - 1 \notin 1 .. Len(q)
    BY <1>1, <1>3
  <2>2. QED
    BY <1>2, <2>1 DEF At
<1>4. CASE k \in 1 .. Len(q) + 1
  <2>1. At(InsertAt(q, i, n), l, k) =
          IF k < i THEN q[k] ELSE IF k = i THEN n ELSE q[k - 1]
    BY <1>2, <1>4 DEF At
  <2>2. k < i => k \in 1 .. Len(q)
    BY <1>1, <1>4
  <2>3. ~(k < i) /\ k # i => k - 1 \in 1 .. Len(q)
    BY <1>1, <1>4
  <2>4. QED
    BY <2>1, <2>2, <2>3 DEF At
<1>5. QED
  BY <1>1, <1>3, <1>4

LEMMA AtRemoved ==
  ASSUME NEW l, NEW q \in Seq(Nodes), NEW i \in DOMAIN q, NEW k \in 0 .. Len(q)
  PROVE  At(RemoveAt(q, i), l, k) = At(q, l, IF k < i THEN k ELSE k + 1)
<1>1. Len(q) \in Nat /\ i \in 1 .. Len(q) /\ k \in Nat
  OBVIOUS
<1>2. /\ Len(RemoveAt(q, i)) = Len(q) - 1
      /\ \A j \in 1 .. Len(q) - 1 :
           RemoveAt(q, i)[j] = q[IF j < i THEN j ELSE j + 1]
  BY RemoveAtShape
<1>3. CASE k = 0 \/ k = Len(q)
  BY <1>1, <1>2, <1>3 DEF At
<1>4. CASE k \in 1 .. Len(q) - 1
  <2>1. At(RemoveAt(q, i), l, k) = q[IF k < i THEN k ELSE k + 1]
    BY <1>2, <1>4 DEF At
  <2>2. (IF k < i THEN k ELSE k + 1) \in 1 .. Len(q)
    BY <1>1, <1>4
  <2>3. QED
    BY <2>1, <2>2 DEF At
<1>5. QED
  BY <1>1, <1>3, <1>4

(* The places of a ring are different: of a sequence without repetition    *)
(* only the two that stand for the sentinel are the same.                  *)
LEMMA AtOnce ==
  ASSUME NEW l \in Lists, NEW q \in Seq(Nodes), Once(q)
  PROVE  /\ \A j, k \in 0 .. Len(q) : At(q, l, j) = At(q, l, k) => j = k
         /\ \A j, k \in 1 .. Len(q) + 1 : At(q, l, j) = At(q, l, k) => j = k
<1>1. l \notin Nodes /\ Len(q) \in Nat
  BY ListAssumption
<1>2. \A k \in 1 .. Len(q) : At(q, l, k) = q[k] /\ q[k] \in Nodes /\ k \in DOMAIN q
  BY DEF At
<1>3. At(q, l, 0) = l /\ At(q, l, Len(q) + 1) = l
  BY <1>1 DEF At
<1>4. \A k \in 0 .. Len(q) : k = 0 \/ k \in 1 .. Len(q)
  BY <1>1
<1>5. \A k \in 1 .. Len(q) + 1 : k = Len(q) + 1 \/ k \in 1 .. Len(q)
  BY <1>1
<1>6. \A j, k \in 1 .. Len(q) : At(q, l, j) = At(q, l, k) => j = k
  BY <1>2 DEF Once
<1>7. \A k \in 1 .. Len(q) : At(q, l, k) # l
  BY <1>1, <1>2
<1>8. QED
  BY <1>3, <1>4, <1>5, <1>6, <1>7

-----------------------------------------------------------------------------
(* The two changes of the links: n is put between node and succ, or taken  *)
(* out from between them.                                                  *)
Spliced(pv, nx, pv2, nx2, node, n, succ) ==
  \A x \in Lists \cup Nodes :
    /\ nx2[x] = IF x = node THEN n ELSE IF x = n THEN succ ELSE nx[x]
    /\ pv2[x] = IF x = succ THEN n ELSE IF x = n THEN node ELSE pv[x]

Bridged(pv, nx, pv2, nx2, node, n, succ) ==
  \A x \in Lists \cup Nodes :
    /\ nx2[x] = IF x = n THEN NULL ELSE IF x = node THEN succ ELSE nx[x]
    /\ pv2[x] = IF x = n THEN NULL ELSE IF x = succ THEN node ELSE pv[x]

\* Where a sequence's places are.
LEMMA AtType ==
  ASSUME NEW l \in Lists, NEW q \in Seq(Nodes), NEW k
  PROVE  At(q, l, k) \in Lists \cup Nodes
BY DEF At

(* Splicing a new node in is inserting it into the sequence.               *)
LEMMA SplicedRing ==
  ASSUME NEW pv, NEW nx, NEW pv2, NEW nx2,
         NEW l \in Lists, NEW q \in Seq(Nodes), Once(q), Ring(pv, nx, l, q),
         NEW i \in 1 .. Len(q) + 1, NEW n \in Nodes, \A k \in DOMAIN q : q[k] # n,
         Spliced(pv, nx, pv2, nx2, At(q, l, i - 1), n, At(q, l, i))
  PROVE  Ring(pv2, nx2, l, InsertAt(q, i, n))
<1> DEFINE m == Len(q)
           a(k) == At(q, l, k)
           b(k) == At(InsertAt(q, i, n), l, k)
<1>1. m \in Nat /\ i \in 1 .. m + 1 /\ Len(InsertAt(q, i, n)) = m + 1
  BY InsertAtShape DEF Inserted
<1>2. \A k \in 0 .. m + 2 : b(k) = IF k < i THEN a(k) ELSE IF k = i THEN n ELSE a(k - 1)
  BY AtInserted
<1>3. /\ \A j, k \in 0 .. m : a(j) = a(k) => j = k
      /\ \A j, k \in 1 .. m + 1 : a(j) = a(k) => j = k
  BY AtOnce
<1>4. \A k : a(k) \in Lists \cup Nodes /\ a(k) # n
  <2> SUFFICES ASSUME NEW k PROVE a(k) \in Lists \cup Nodes /\ a(k) # n
    OBVIOUS
  <2>1. l # n
    BY ListAssumption
  <2>2. QED
    BY <2>1, AtType DEF At
<1>5. \A k \in 0 .. m : nx[a(k)] = a(k + 1) /\ pv[a(k + 1)] = a(k)
  BY DEF Ring
<1>6. \A x \in Lists \cup Nodes :
        /\ nx2[x] = IF x = a(i - 1) THEN n ELSE IF x = n THEN a(i) ELSE nx[x]
        /\ pv2[x] = IF x = a(i) THEN n ELSE IF x = n THEN a(i - 1) ELSE pv[x]
  BY DEF Spliced
<1>7. n \in Lists \cup Nodes
  OBVIOUS
<1> HIDE DEF m, a, b
<1>8. ASSUME NEW k \in 0 .. m + 1
      PROVE  nx2[b(k)] = b(k + 1) /\ pv2[b(k + 1)] = b(k)
  <2>1. CASE k < i - 1
    <3>1. /\ b(k) = a(k) /\ b(k + 1) = a(k + 1)
          /\ k \in 0 .. m /\ i - 1 \in 0 .. m /\ k # i - 1
          /\ k + 1 \in 1 .. m + 1 /\ i \in 1 .. m + 1 /\ k + 1 # i
      BY <2>1, <1>1, <1>2
    <3>2. a(k) # a(i - 1) /\ a(k + 1) # a(i)
      BY <3>1, <1>3
    <3>3. QED
      BY <3>1, <3>2, <1>4, <1>5, <1>6
  <2>2. CASE k = i - 1
    <3>1. b(k) = a(i - 1) /\ b(k + 1) = n
      BY <2>2, <1>1, <1>2
    <3>2. QED
      BY <3>1, <1>4, <1>6, <1>7
  <2>3. CASE k = i
    <3>1. b(k) = n /\ b(k + 1) = a(i)
      BY <2>3, <1>1, <1>2
    <3>2. QED
      BY <3>1, <1>4, <1>6, <1>7
  <2>4. CASE k > i
    <3>1. /\ b(k) = a(k - 1) /\ b(k + 1) = a(k)
          /\ k - 1 \in 0 .. m /\ i - 1 \in 0 .. m /\ k - 1 # i - 1
          /\ k \in 1 .. m + 1 /\ i \in 1 .. m + 1 /\ k # i
          /\ (k - 1) + 1 = k
      BY <2>4, <1>1, <1>2
    <3>2. a(k - 1) # a(i - 1) /\ a(k) # a(i)
      BY <3>1, <1>3
    <3>3. nx[a(k - 1)] = a(k) /\ pv[a(k)] = a(k - 1)
      BY <3>1, <1>5
    <3>4. QED
      BY <3>1, <3>2, <3>3, <1>4, <1>6
  <2>5. QED
    BY <1>1, <2>1, <2>2, <2>3, <2>4
<1>9. QED
  BY <1>1, <1>8 DEF Ring, b

(* Taking a node out is removing it from the sequence.                     *)
LEMMA BridgedRing ==
  ASSUME NEW pv, NEW nx, NEW pv2, NEW nx2,
         NEW l \in Lists, NEW q \in Seq(Nodes), Once(q), Ring(pv, nx, l, q),
         NEW i \in DOMAIN q,
         Bridged(pv, nx, pv2, nx2, At(q, l, i - 1), q[i], At(q, l, i + 1))
  PROVE  Ring(pv2, nx2, l, RemoveAt(q, i))
<1> DEFINE m == Len(q)
           n == q[i]
           a(k) == At(q, l, k)
           b(k) == At(RemoveAt(q, i), l, k)
<1>1. m \in Nat /\ i \in 1 .. m /\ Len(RemoveAt(q, i)) = m - 1 /\ n \in Nodes
  BY RemoveAtShape
<1>2. \A k \in 0 .. m : b(k) = IF k < i THEN a(k) ELSE a(k + 1)
  BY AtRemoved
<1>3. /\ \A j, k \in 0 .. m : a(j) = a(k) => j = k
      /\ \A j, k \in 1 .. m + 1 : a(j) = a(k) => j = k
  BY AtOnce
<1>4. \A k : a(k) \in Lists \cup Nodes
  BY AtType
<1>5. \A k \in 0 .. m : nx[a(k)] = a(k + 1) /\ pv[a(k + 1)] = a(k)
  BY DEF Ring
<1>6. \A x \in Lists \cup Nodes :
        /\ nx2[x] = IF x = n THEN NULL ELSE IF x = a(i - 1) THEN a(i + 1) ELSE nx[x]
        /\ pv2[x] = IF x = n THEN NULL ELSE IF x = a(i + 1) THEN a(i - 1) ELSE pv[x]
  BY DEF Bridged
<1>7. a(i) = n
  BY <1>1 DEF At
<1> HIDE DEF m, n, a, b
<1>8. ASSUME NEW k \in 0 .. m - 1
      PROVE  nx2[b(k)] = b(k + 1) /\ pv2[b(k + 1)] = b(k)
  <2>1. CASE k < i - 1
    <3>1. /\ b(k) = a(k) /\ b(k + 1) = a(k + 1)
          /\ k \in 0 .. m /\ i - 1 \in 0 .. m /\ i \in 0 .. m
          /\ k # i - 1 /\ k # i
          /\ k + 1 \in 1 .. m + 1 /\ i \in 1 .. m + 1 /\ i + 1 \in 1 .. m + 1
          /\ k + 1 # i /\ k + 1 # i + 1
      BY <2>1, <1>1, <1>2
    <3>2. a(k) # a(i - 1) /\ a(k) # n /\ a(k + 1) # a(i + 1) /\ a(k + 1) # n
      BY <3>1, <1>3, <1>7
    <3>3. QED
      BY <3>1, <3>2, <1>4, <1>5, <1>6
  <2>2. CASE k = i - 1
    <3>1. /\ b(k) = a(i - 1) /\ b(k + 1) = a(i + 1)
          /\ i - 1 \in 0 .. m /\ i \in 0 .. m /\ i - 1 # i
          /\ i \in 1 .. m + 1 /\ i + 1 \in 1 .. m + 1 /\ i # i + 1
      BY <2>2, <1>1, <1>2
    <3>2. a(i - 1) # n /\ a(i + 1) # n
      BY <3>1, <1>3, <1>7
    <3>3. QED
      BY <3>1, <3>2, <1>4, <1>6
  <2>3. CASE k > i - 1
    <3>1. /\ b(k) = a(k + 1) /\ b(k + 1) = a(k + 1 + 1)
          /\ k + 1 \in 0 .. m /\ i - 1 \in 0 .. m /\ i \in 0 .. m
          /\ k + 1 # i - 1 /\ k + 1 # i
          /\ k + 1 + 1 \in 1 .. m + 1 /\ i \in 1 .. m + 1 /\ i + 1 \in 1 .. m + 1
          /\ k + 1 + 1 # i /\ k + 1 + 1 # i + 1
      BY <2>3, <1>1, <1>2
    <3>2. /\ a(k + 1) # a(i - 1) /\ a(k + 1) # n
          /\ a(k + 1 + 1) # a(i + 1) /\ a(k + 1 + 1) # n
      BY <3>1, <1>3, <1>7
    <3>3. nx[a(k + 1)] = a(k + 1 + 1) /\ pv[a(k + 1 + 1)] = a(k + 1)
      BY <3>1, <1>5
    <3>4. QED
      BY <3>1, <3>2, <3>3, <1>4, <1>6
  <2>4. QED
    BY <1>1, <2>1, <2>2, <2>3
<1>9. QED
  BY <1>1, <1>8 DEF Ring, b

(* A ring none of whose places is touched stays one.                       *)
LEMMA UntouchedRing ==
  ASSUME NEW pv, NEW nx, NEW pv2, NEW nx2, NEW l, NEW q, Ring(pv, nx, l, q),
         \A k \in 0 .. Len(q) + 1 :
           /\ nx2[At(q, l, k)] = nx[At(q, l, k)]
           /\ pv2[At(q, l, k)] = pv[At(q, l, k)],
         Len(q) \in Nat
  PROVE  Ring(pv2, nx2, l, q)
<1>1. \A k \in 0 .. Len(q) : k \in 0 .. Len(q) + 1 /\ k + 1 \in 0 .. Len(q) + 1
  OBVIOUS
<1>2. QED
  BY <1>1 DEF Ring

-----------------------------------------------------------------------------
(* What the links, the nodes' resources, the lists in use and the loop     *)
(* have to do with the sequences s the lists stand for.                    *)

\* Node n is in no list.
Unlisted(s, n) == \A l \in Lists : \A i \in DOMAIN s[l] : s[l][i] # n

\* No node is in two places.
Distinct(s) ==
  \A k, l \in Lists : \A i \in DOMAIN s[k], j \in DOMAIN s[l] :
    s[k][i] = s[l][j] => k = l /\ i = j

\* A loop is at its list's sentinel or at one of its nodes.
Loops == [list : Lists, at : Lists \cup Nodes, link : {"next", "prev"}]

OnList(it, s) ==
  it.at = it.list \/ \E i \in DOMAIN s[it.list] : it.at = s[it.list][i]

Owners == {ResourceOf[l] : l \in Lists} \cup {NULL}

LinkTypes(pv, nx, rs, op) ==
  /\ pv \in [Lists \cup Nodes -> Links]
  /\ nx \in [Lists \cup Nodes -> Links]
  /\ rs \in [Nodes -> Owners]
  /\ op \in SUBSET Lists

Listing(op, s) ==
  /\ s \in [Lists -> Seq(Nodes)]
  /\ \A l \in Lists : l \notin op => s[l] = <<>>
  /\ Distinct(s)

Rings(pv, nx, op, s) == \A l \in op : Ring(pv, nx, l, s[l])

Owned(rs, s) == \A l \in Lists : \A i \in DOMAIN s[l] : rs[s[l][i]] = ResourceOf[l]

Unlinked(pv, nx, rs, s) ==
  \A n \in Nodes : rs[n] # NULL /\ Unlisted(s, n) => pv[n] = NULL /\ nx[n] = NULL

LoopSound(it, op, s) ==
  it # NULL => it \in Loops /\ it.list \in op /\ OnList(it, s)

Linked(pv, nx, rs, op, it, s) ==
  /\ LinkTypes(pv, nx, rs, op)
  /\ Listing(op, s)
  /\ Rings(pv, nx, op, s)
  /\ Owned(rs, s)
  /\ Unlinked(pv, nx, rs, s)
  /\ LoopSound(it, op, s)

(* A listed node is in no second place, and so each sequence is without    *)
(* repetition and the places of two lists are different.                   *)
LEMMA ListingOnce ==
  ASSUME NEW op, NEW s, Listing(op, s), NEW l \in Lists
  PROVE  s[l] \in Seq(Nodes) /\ Once(s[l])
BY DEF Listing, Distinct, Once

LEMMA PlacesApart ==
  ASSUME NEW op, NEW s, Listing(op, s), NEW k \in Lists, NEW l \in Lists, k # l,
         NEW i, NEW j
  PROVE  At(s[k], k, i) # At(s[l], l, j)
<1>1. k \notin Nodes /\ l \notin Nodes
  BY ListAssumption
<1>2. s[k] \in Seq(Nodes) /\ s[l] \in Seq(Nodes)
  BY ListingOnce
<1>3. i \in 1 .. Len(s[k]) => s[k][i] \in Nodes /\ i \in DOMAIN s[k]
  BY <1>2
<1>4. j \in 1 .. Len(s[l]) => s[l][j] \in Nodes /\ j \in DOMAIN s[l]
  BY <1>2
<1>5. QED
  BY <1>1, <1>3, <1>4 DEF At, Listing, Distinct

\* A node of no list is at none of their places.
LEMMA UnlistedApart ==
  ASSUME NEW op, NEW s, Listing(op, s), NEW n \in Nodes, Unlisted(s, n),
         NEW l \in Lists, NEW k
  PROVE  At(s[l], l, k) # n
<1>1. l \notin Nodes
  BY ListAssumption
<1>2. k \in 1 .. Len(s[l]) => k \in DOMAIN s[l]
  BY DEF Listing
<1>3. QED
  BY <1>1, <1>2 DEF At, Unlisted

\* No list but l has n at a place; the links agree but at three places.
NotAmongOthers(s, l, n) ==
  \A k \in Lists : k # l => \A m : At(s[k], k, m) # n

SameBut(pv, nx, pv2, nx2, node, n, succ) ==
  \A x \in Lists \cup Nodes :
    x \notin {node, n, succ} => nx2[x] = nx[x] /\ pv2[x] = pv[x]

\* Only n's memory changes hands; a loop is not at n.
OwnersBut(rs, rs2, n) == \A x \in Nodes : x # n => rs2[x] = rs[x]

LoopElsewhere(it, n) == it # NULL => it.at # n

RingsElsewhere(pv, nx, op, s, l) == \A k \in op : k # l => Ring(pv, nx, k, s[k])

(* The other lists do not notice a change around places of one list.       *)
LEMMA OtherRings ==
  ASSUME NEW pv, NEW nx, NEW pv2, NEW nx2, NEW op \in SUBSET Lists, NEW s,
         Listing(op, s), Rings(pv, nx, op, s), NEW l \in op, NEW i, NEW j, NEW n,
         NotAmongOthers(s, l, n),
         SameBut(pv, nx, pv2, nx2, At(s[l], l, i), n, At(s[l], l, j))
  PROVE  RingsElsewhere(pv2, nx2, op, s, l)
<1> SUFFICES ASSUME NEW k \in op, k # l PROVE Ring(pv2, nx2, k, s[k])
  BY DEF RingsElsewhere
<1>1. Ring(pv, nx, k, s[k]) /\ k \in Lists /\ l \in Lists /\ s[k] \in Seq(Nodes)
  BY DEF Rings, Listing
<1>2. \A m : At(s[k], k, m) \in Lists \cup Nodes
  BY <1>1, AtType
<1>3. \A m : /\ At(s[k], k, m) # At(s[l], l, i)
             /\ At(s[k], k, m) # At(s[l], l, j)
  <2> SUFFICES ASSUME NEW m
               PROVE  /\ At(s[k], k, m) # At(s[l], l, i)
                      /\ At(s[k], k, m) # At(s[l], l, j)
    OBVIOUS
  <2>1. QED
    BY <1>1, PlacesApart
<1>4. \A m : At(s[k], k, m) # n
  BY <1>1 DEF NotAmongOthers
<1>5. \A m \in 0 .. Len(s[k]) + 1 :
        /\ nx2[At(s[k], k, m)] = nx[At(s[k], k, m)]
        /\ pv2[At(s[k], k, m)] = pv[At(s[k], k, m)]
  BY <1>2, <1>3, <1>4 DEF SameBut
<1>6. Len(s[k]) \in Nat
  BY <1>1
<1>7. QED
  BY <1>1, <1>5, <1>6, UntouchedRing

(* A node of no list is spliced into one.                                  *)
LEMMA InsertLinked ==
  ASSUME NEW pv, NEW nx, NEW rs, NEW op, NEW it, NEW s,
         Linked(pv, nx, rs, op, it, s),
         NEW l \in op, NEW i \in 1 .. Len(s[l]) + 1,
         NEW n \in Nodes, Unlisted(s, n),
         NEW pv2, NEW nx2, NEW rs2, LinkTypes(pv2, nx2, rs2, op),
         Spliced(pv, nx, pv2, nx2, At(s[l], l, i - 1), n, At(s[l], l, i)),
         rs2[n] = ResourceOf[l], OwnersBut(rs, rs2, n),
         NEW s2, s2 = [s EXCEPT ![l] = InsertAt(s[l], i, n)]
  PROVE  Linked(pv2, nx2, rs2, op, it, s2)
<1> DEFINE q == s[l]
           q2 == InsertAt(q, i, n)
           Old(j) == IF j < i THEN j ELSE j - 1
           New(j) == IF j < i THEN j ELSE j + 1
<1>1. /\ op \in SUBSET Lists /\ l \in Lists /\ Listing(op, s)
      /\ s \in [Lists -> Seq(Nodes)] /\ q \in Seq(Nodes) /\ Once(q)
      /\ Rings(pv, nx, op, s) /\ Ring(pv, nx, l, q)
  BY ListingOnce DEF Linked, LinkTypes, Listing, Rings
<1>2. /\ s2 \in [Lists -> Seq(Nodes)] /\ s2[l] = q2
      /\ \A k \in Lists : k # l => s2[k] = s[k]
  BY <1>1, InsertAtShape
<1>3. q2 \in Seq(Nodes) /\ Inserted(q2, q, i, n) /\ Len(q) \in Nat /\ i \in 1 .. Len(q) + 1
  BY <1>1, InsertAtShape
<1> HIDE DEF q2
<1>4. /\ DOMAIN q2 = 1 .. Len(q) + 1 /\ DOMAIN q = 1 .. Len(q)
      /\ i \in DOMAIN q2 /\ q2[i] = n
      /\ \A j \in DOMAIN q2 : j # i => Old(j) \in DOMAIN q /\ q2[j] = q[Old(j)]
      /\ \A j \in DOMAIN q : New(j) \in DOMAIN q2 /\ q2[New(j)] = q[j]
      /\ \A j, k \in DOMAIN q2 : j # i /\ k # i /\ Old(j) = Old(k) => j = k
  <2>1. /\ DOMAIN q2 = 1 .. Len(q) + 1 /\ DOMAIN q = 1 .. Len(q)
        /\ \A k \in 1 .. Len(q) + 1 :
             q2[k] = IF k < i THEN q[k] ELSE IF k = i THEN n ELSE q[k - 1]
    BY <1>1, <1>3 DEF Inserted
  <2> HIDE DEF q
  <2>2. i \in DOMAIN q2 /\ q2[i] = n
    BY <1>3, <2>1
  <2>3. \A j \in DOMAIN q2 : j # i => Old(j) \in DOMAIN q /\ q2[j] = q[Old(j)]
    BY <1>3, <2>1
  <2>4. ASSUME NEW j \in DOMAIN q
        PROVE  New(j) \in DOMAIN q2 /\ q2[New(j)] = q[j]
    <3>1. CASE j < i
      BY <3>1, <1>3, <2>1
    <3>2. CASE ~(j < i)
      <4>1. j + 1 \in 1 .. Len(q) + 1 /\ ~(j + 1 < i) /\ j + 1 # i /\ j + 1 - 1 = j
        BY <3>2, <1>3, <2>1
      <4>2. q2[j + 1] = q[j]
        BY <2>1, <4>1
      <4>3. QED
        BY <3>2, <4>1, <4>2, <2>1
    <3>3. QED
      BY <3>1, <3>2
  <2>5. \A j, k \in DOMAIN q2 : j # i /\ k # i /\ Old(j) = Old(k) => j = k
    BY <1>3, <2>1
  <2>6. QED
    BY <2>1, <2>2, <2>3, <2>4, <2>5
<1> HIDE DEF Old, New
<1>5. \A k \in Lists : \A j \in DOMAIN s[k] : s[k][j] # n
  BY DEF Unlisted
<1>6. Listing(op, s2)
  <2>1. \A k \in Lists : k \notin op => s2[k] = <<>>
    BY <1>1, <1>2 DEF Listing
  <2>2. ASSUME NEW k \in Lists, NEW m \in Lists,
               NEW j \in DOMAIN s2[k], NEW h \in DOMAIN s2[m], s2[k][j] = s2[m][h]
        PROVE  k = m /\ j = h
    <3>1. CASE k = l /\ m = l
      <4>1. j = i <=> h = i
        BY <3>1, <2>2, <1>2, <1>4, <1>5
      <4>2. CASE j # i /\ h # i
        BY <3>1, <4>2, <2>2, <1>1, <1>2, <1>4 DEF Once
      <4>3. QED
        BY <3>1, <4>1, <4>2
    <3>2. CASE k = l /\ m # l
      BY <3>2, <2>2, <1>1, <1>2, <1>4, <1>5 DEF Listing, Distinct
    <3>3. CASE k # l /\ m = l
      BY <3>3, <2>2, <1>1, <1>2, <1>4, <1>5 DEF Listing, Distinct
    <3>4. CASE k # l /\ m # l
      BY <3>4, <2>2, <1>1, <1>2 DEF Listing, Distinct
    <3>5. QED
      BY <3>1, <3>2, <3>3, <3>4
  <2>3. QED
    BY <1>2, <2>1, <2>2 DEF Listing, Distinct
<1>7. SameBut(pv, nx, pv2, nx2, At(s[l], l, i - 1), n, At(s[l], l, i))
  BY DEF Spliced, SameBut
<1>8. Rings(pv2, nx2, op, s2)
  <2>1. Ring(pv2, nx2, l, q2)
    BY <1>1, <1>5, SplicedRing DEF q2
  <2>2. NotAmongOthers(s, l, n)
    <3> SUFFICES ASSUME NEW k \in Lists, NEW m PROVE At(s[k], k, m) # n
      BY DEF NotAmongOthers
    <3>1. QED
      BY <1>1, UnlistedApart
  <2>3. \A k \in op : k # l => Ring(pv2, nx2, k, s[k])
    <3>1. RingsElsewhere(pv2, nx2, op, s, l)
      BY <1>1, <1>7, <2>2, OtherRings
    <3>2. QED
      BY <3>1 DEF RingsElsewhere
  <2>4. QED
    BY <1>1, <1>2, <2>1, <2>3 DEF Rings
<1>9. Owned(rs2, s2)
  <2> SUFFICES ASSUME NEW k \in Lists, NEW j \in DOMAIN s2[k]
               PROVE  rs2[s2[k][j]] = ResourceOf[k]
    BY DEF Owned
  <2>1. CASE k = l /\ j = i
    BY <2>1, <1>2, <1>4
  <2>2. CASE k = l /\ j # i
    <3>1. Old(j) \in DOMAIN s[l] /\ s2[k][j] = s[l][Old(j)]
      BY <2>2, <1>2, <1>4
    <3>2. s[l][Old(j)] \in Nodes /\ s[l][Old(j)] # n
      BY <3>1, <1>1, <1>5
    <3>3. QED
      BY <2>2, <3>1, <3>2, <1>1 DEF Linked, Owned, OwnersBut
  <2>3. CASE k # l
    <3>1. j \in DOMAIN s[k] /\ s2[k][j] = s[k][j]
      BY <2>3, <1>2
    <3>2. s[k][j] \in Nodes /\ s[k][j] # n
      BY <3>1, <1>1, <1>5
    <3>3. QED
      BY <3>1, <3>2 DEF Linked, Owned, OwnersBut
  <2>4. QED
    BY <2>1, <2>2, <2>3
<1>10. Unlinked(pv2, nx2, rs2, s2)
  <2> SUFFICES ASSUME NEW x \in Nodes, rs2[x] # NULL, Unlisted(s2, x)
               PROVE  pv2[x] = NULL /\ nx2[x] = NULL
    BY DEF Unlinked
  <2>1. x # n
    BY <1>1, <1>2, <1>4 DEF Unlisted
  <2>2. Unlisted(s, x)
    <3> SUFFICES ASSUME NEW k \in Lists, NEW j \in DOMAIN s[k]
                 PROVE  s[k][j] # x
      BY DEF Unlisted
    <3>1. CASE k = l
      BY <3>1, <1>2, <1>4 DEF Unlisted
    <3>2. CASE k # l
      BY <3>2, <1>2 DEF Unlisted
    <3>3. QED
      BY <3>1, <3>2
  <2>3. pv[x] = NULL /\ nx[x] = NULL
    BY <2>1, <2>2 DEF Linked, Unlinked, OwnersBut
  <2>4. At(s[l], l, i - 1) # x /\ At(s[l], l, i) # x
    BY <1>1, <2>2, UnlistedApart
  <2>5. QED
    BY <1>7, <2>1, <2>3, <2>4 DEF SameBut
<1>11. LoopSound(it, op, s2)
  <2> SUFFICES ASSUME it # NULL
               PROVE  it \in Loops /\ it.list \in op /\ OnList(it, s2)
    BY DEF LoopSound
  <2>1. it \in Loops /\ it.list \in op /\ OnList(it, s) /\ it.list \in Lists
    BY <1>1 DEF Linked, LoopSound
  <2>2. CASE it.list = l
    BY <2>1, <2>2, <1>2, <1>4 DEF OnList, LoopElsewhere
  <2>3. CASE it.list # l
    BY <2>1, <2>3, <1>2 DEF OnList
  <2>4. QED
    BY <2>1, <2>2, <2>3
<1>12. QED
  BY <1>6, <1>8, <1>9, <1>10, <1>11 DEF Linked

(* A node of a list is taken out of it.                                    *)
LEMMA RemoveLinked ==
  ASSUME NEW pv, NEW nx, NEW rs, NEW op, NEW it, NEW s,
         Linked(pv, nx, rs, op, it, s),
         NEW l \in op, NEW i \in DOMAIN s[l], NEW n, n = s[l][i],
         NEW pv2, NEW nx2, NEW rs2, LinkTypes(pv2, nx2, rs2, op),
         Bridged(pv, nx, pv2, nx2, At(s[l], l, i - 1), n, At(s[l], l, i + 1)),
         OwnersBut(rs, rs2, n), LoopElsewhere(it, n),
         NEW s2, s2 = [s EXCEPT ![l] = RemoveAt(s[l], i)]
  PROVE  Linked(pv2, nx2, rs2, op, it, s2)
<1> DEFINE q == s[l]
           q2 == RemoveAt(q, i)
           Old(j) == IF j < i THEN j ELSE j + 1
           New(j) == IF j < i THEN j ELSE j - 1
<1>1. /\ op \in SUBSET Lists /\ l \in Lists /\ Listing(op, s)
      /\ s \in [Lists -> Seq(Nodes)] /\ q \in Seq(Nodes) /\ Once(q)
      /\ Rings(pv, nx, op, s) /\ Ring(pv, nx, l, q)
      /\ n \in Nodes /\ l \notin Nodes
  <2>1. op \in SUBSET Lists /\ Listing(op, s) /\ Rings(pv, nx, op, s)
    BY DEF Linked, LinkTypes
  <2>2. l \in Lists /\ s \in [Lists -> Seq(Nodes)] /\ Ring(pv, nx, l, q)
    BY <2>1 DEF Listing, Rings
  <2>3. q \in Seq(Nodes) /\ Once(q)
    BY <2>1, <2>2, ListingOnce
  <2>4. n \in Nodes
    BY <2>3
  <2>5. QED
    BY <2>1, <2>2, <2>3, <2>4, ListAssumption
<1>2. /\ s2 \in [Lists -> Seq(Nodes)] /\ s2[l] = q2
      /\ \A k \in Lists : k # l => s2[k] = s[k]
  BY <1>1, RemoveAtShape
<1>3. /\ q2 \in Seq(Nodes) /\ Len(q2) = Len(q) - 1
      /\ Len(q) \in Nat /\ i \in 1 .. Len(q) /\ DOMAIN q = 1 .. Len(q)
      /\ \A k \in 1 .. Len(q) - 1 : q2[k] = q[IF k < i THEN k ELSE k + 1]
  BY <1>1, RemoveAtShape
<1> HIDE DEF q2
<1>4. /\ \A j \in DOMAIN q2 : /\ Old(j) \in DOMAIN q /\ Old(j) # i
                              /\ q2[j] = q[Old(j)]
      /\ \A j \in DOMAIN q : j # i => New(j) \in DOMAIN q2 /\ q2[New(j)] = q[j]
      /\ \A j, k \in DOMAIN q2 : Old(j) = Old(k) => j = k
  <2>1. DOMAIN q2 = 1 .. Len(q) - 1
    BY <1>3
  <2> HIDE DEF q
  <2>2. \A j \in DOMAIN q2 : /\ Old(j) \in DOMAIN q /\ Old(j) # i
                             /\ q2[j] = q[Old(j)]
    BY <1>3, <2>1
  <2>3. ASSUME NEW j \in DOMAIN q, j # i
        PROVE  New(j) \in DOMAIN q2 /\ q2[New(j)] = q[j]
    <3>1. CASE j < i
      BY <3>1, <1>3, <2>1
    <3>2. CASE ~(j < i)
      <4>1. j - 1 \in 1 .. Len(q) - 1 /\ ~(j - 1 < i) /\ j - 1 + 1 = j
        BY <2>3, <3>2, <1>3, <2>1
      <4>2. q2[j - 1] = q[j]
        BY <1>3, <4>1
      <4>3. QED
        BY <3>2, <4>1, <4>2, <2>1
    <3>3. QED
      BY <3>1, <3>2
  <2>4. \A j, k \in DOMAIN q2 : Old(j) = Old(k) => j = k
    BY <1>3, <2>1
  <2>5. QED
    BY <2>2, <2>3, <2>4
<1> HIDE DEF Old, New
<1>5. \A k \in Lists : \A j \in DOMAIN s[k] : s[k][j] = n => k = l /\ j = i
  BY <1>1 DEF Listing, Distinct
<1>6. Listing(op, s2)
  <2>1. \A k \in Lists : k \notin op => s2[k] = <<>>
    BY <1>1, <1>2 DEF Listing
  <2>2. ASSUME NEW k \in Lists, NEW m \in Lists,
               NEW j \in DOMAIN s2[k], NEW h \in DOMAIN s2[m], s2[k][j] = s2[m][h]
        PROVE  k = m /\ j = h
    <3>1. CASE k = l /\ m = l
      BY <3>1, <2>2, <1>1, <1>2, <1>4 DEF Once
    <3>2. CASE k = l /\ m # l
      BY <3>2, <2>2, <1>1, <1>2, <1>4 DEF Listing, Distinct
    <3>3. CASE k # l /\ m = l
      BY <3>3, <2>2, <1>1, <1>2, <1>4 DEF Listing, Distinct
    <3>4. CASE k # l /\ m # l
      BY <3>4, <2>2, <1>1, <1>2 DEF Listing, Distinct
    <3>5. QED
      BY <3>1, <3>2, <3>3, <3>4
  <2>3. QED
    BY <1>2, <2>1, <2>2 DEF Listing, Distinct
<1>7. SameBut(pv, nx, pv2, nx2, At(s[l], l, i - 1), n, At(s[l], l, i + 1))
  BY DEF Bridged, SameBut
<1>8. Rings(pv2, nx2, op, s2)
  <2>1. Ring(pv2, nx2, l, q2)
    BY <1>1, BridgedRing DEF q2
  <2>2. NotAmongOthers(s, l, n)
    <3> SUFFICES ASSUME NEW k \in Lists, k # l, NEW m PROVE At(s[k], k, m) # n
      BY DEF NotAmongOthers
    <3>1. n = At(s[l], l, i)
      BY <1>3 DEF At
    <3>2. l \in Lists /\ Listing(op, s)
      BY <1>1
    <3>3. At(s[k], k, m) # At(s[l], l, i)
      BY <3>2, PlacesApart
    <3>4. QED
      BY <3>1, <3>3
  <2>3. RingsElsewhere(pv2, nx2, op, s, l)
    BY <1>1, <1>7, <2>2, OtherRings
  <2>4. QED
    BY <1>1, <1>2, <2>1, <2>3 DEF Rings, RingsElsewhere
<1>9. Owned(rs2, s2)
  <2> SUFFICES ASSUME NEW k \in Lists, NEW j \in DOMAIN s2[k]
               PROVE  rs2[s2[k][j]] = ResourceOf[k]
    BY DEF Owned
  <2>1. CASE k = l
    <3>1. Old(j) \in DOMAIN s[l] /\ s2[k][j] = s[l][Old(j)] /\ Old(j) # i
      BY <2>1, <1>2, <1>4
    <3>2. s[l][Old(j)] \in Nodes /\ s[l][Old(j)] # n
      BY <3>1, <1>1, <1>5
    <3>3. QED
      BY <2>1, <3>1, <3>2, <1>1 DEF Linked, Owned, OwnersBut
  <2>2. CASE k # l
    <3>1. j \in DOMAIN s[k] /\ s2[k][j] = s[k][j]
      BY <2>2, <1>2
    <3>2. s[k][j] \in Nodes /\ s[k][j] # n
      BY <2>2, <3>1, <1>1, <1>5
    <3>3. QED
      BY <3>1, <3>2 DEF Linked, Owned, OwnersBut
  <2>3. QED
    BY <2>1, <2>2
<1>10. Unlinked(pv2, nx2, rs2, s2)
  <2> SUFFICES ASSUME NEW x \in Nodes, rs2[x] # NULL, Unlisted(s2, x)
               PROVE  pv2[x] = NULL /\ nx2[x] = NULL
    BY DEF Unlinked
  <2>1. CASE x = n
    BY <2>1 DEF Bridged
  <2>2. CASE x # n
    <3>1. Unlisted(s, x)
      <4> SUFFICES ASSUME NEW k \in Lists, NEW j \in DOMAIN s[k]
                   PROVE  s[k][j] # x
        BY DEF Unlisted
      <4>1. CASE k = l /\ j = i
        BY <4>1, <2>2
      <4>2. CASE k = l /\ j # i
        BY <4>2, <1>2, <1>4 DEF Unlisted
      <4>3. CASE k # l
        BY <4>3, <1>2 DEF Unlisted
      <4>4. QED
        BY <4>1, <4>2, <4>3
    <3>2. pv[x] = NULL /\ nx[x] = NULL
      BY <2>2, <3>1 DEF Linked, Unlinked, OwnersBut
    <3>3. At(s[l], l, i - 1) # x /\ At(s[l], l, i + 1) # x
      BY <1>1, <3>1, UnlistedApart
    <3>4. QED
      BY <1>7, <2>2, <3>2, <3>3 DEF SameBut
  <2>3. QED
    BY <2>1, <2>2
<1>11. LoopSound(it, op, s2)
  <2> SUFFICES ASSUME it # NULL
               PROVE  it \in Loops /\ it.list \in op /\ OnList(it, s2)
    BY DEF LoopSound
  <2>1. it \in Loops /\ it.list \in op /\ OnList(it, s) /\ it.list \in Lists
    BY <1>1 DEF Linked, LoopSound
  <2>2. CASE it.list = l
    BY <2>1, <2>2, <1>2, <1>4 DEF OnList, LoopElsewhere
  <2>3. CASE it.list # l
    BY <2>1, <2>3, <1>2 DEF OnList
  <2>4. QED
    BY <2>1, <2>2, <2>3
<1>12. QED
  BY <1>6, <1>8, <1>9, <1>10, <1>11 DEF Linked

(* A list is constructed: its sentinel leads to itself.                    *)
LEMMA OpenLinked ==
  ASSUME NEW pv, NEW nx, NEW rs, NEW op, NEW it, NEW s,
         Linked(pv, nx, rs, op, it, s),
         NEW l \in Lists \ op,
         NEW pv2, pv2 = [pv EXCEPT ![l] = l], NEW nx2, nx2 = [nx EXCEPT ![l] = l]
  PROVE  Linked(pv2, nx2, rs, op \cup {l}, it, s)
<1>1. /\ op \in SUBSET Lists /\ Listing(op, s) /\ s \in [Lists -> Seq(Nodes)]
      /\ Rings(pv, nx, op, s) /\ LinkTypes(pv, nx, rs, op) /\ s[l] = <<>>
      /\ l \notin Nodes
  BY ListAssumption DEF Linked, LinkTypes, Listing
<1>2. /\ LinkTypes(pv2, nx2, rs, op \cup {l})
      /\ pv2[l] = l /\ nx2[l] = l
      /\ \A x \in Lists \cup Nodes : x # l => nx2[x] = nx[x] /\ pv2[x] = pv[x]
  BY <1>1 DEF LinkTypes, Links
<1>3. Listing(op \cup {l}, s)
  BY <1>1 DEF Listing
<1>4. Rings(pv2, nx2, op \cup {l}, s)
  <2>1. Ring(pv2, nx2, l, s[l])
    <3>1. \A k \in 0 .. 0 : At(<<>>, l, k) = l /\ At(<<>>, l, k + 1) = l
      BY DEF At
    <3>2. Len(<<>>) = 0
      OBVIOUS
    <3>3. Ring(pv2, nx2, l, <<>>)
      BY <3>1, <3>2, <1>2 DEF Ring
    <3>4. QED
      BY <3>3, <1>1
  <2>2. ASSUME NEW k \in op PROVE Ring(pv2, nx2, k, s[k])
    <3>1. k \in Lists /\ k # l /\ s[k] \in Seq(Nodes) /\ Ring(pv, nx, k, s[k])
      BY <1>1 DEF Rings
    <3>2. \A m : At(s[k], k, m) \in Lists \cup Nodes /\ At(s[k], k, m) # l
      <4> SUFFICES ASSUME NEW m
                   PROVE  At(s[k], k, m) \in Lists \cup Nodes /\ At(s[k], k, m) # l
        OBVIOUS
      <4>1. m \in 1 .. Len(s[k]) => s[k][m] \in Nodes
        BY <3>1
      <4>2. QED
        BY <3>1, <4>1, <1>1 DEF At
    <3>3. \A m \in 0 .. Len(s[k]) + 1 :
            /\ nx2[At(s[k], k, m)] = nx[At(s[k], k, m)]
            /\ pv2[At(s[k], k, m)] = pv[At(s[k], k, m)]
      BY <3>2, <1>2
    <3>4. Len(s[k]) \in Nat
      BY <3>1
    <3>5. QED
      BY <3>1, <3>3, <3>4, UntouchedRing
  <2>3. QED
    BY <2>1, <2>2 DEF Rings
<1>5. Unlinked(pv2, nx2, rs, s)
  BY <1>1, <1>2 DEF Linked, Unlinked
<1>6. LoopSound(it, op \cup {l}, s) /\ Owned(rs, s)
  BY DEF Linked, LoopSound
<1>7. QED
  BY <1>2, <1>3, <1>4, <1>5, <1>6 DEF Linked

Freed(rs, members) == [n \in Nodes |-> IF n \in members THEN NULL ELSE rs[n]]

LoopNotOn(it, l) == it # NULL => it.list # l

(* A list is destroyed, and the memory of its nodes given back.            *)
LEMMA CloseLinked ==
  ASSUME NEW pv, NEW nx, NEW rs, NEW op, NEW it, NEW s,
         Linked(pv, nx, rs, op, it, s), NEW l \in op,
         LoopNotOn(it, l),
         NEW members, members = ToSet(s[l]),
         NEW rs2, rs2 = Freed(rs, members),
         NEW s2, s2 = [s EXCEPT ![l] = <<>>]
  PROVE  Linked(pv, nx, rs2, op \ {l}, it, s2)
<1>1. /\ op \in SUBSET Lists /\ l \in Lists /\ Listing(op, s)
      /\ s \in [Lists -> Seq(Nodes)]
      /\ Rings(pv, nx, op, s) /\ LinkTypes(pv, nx, rs, op)
  BY DEF Linked, LinkTypes, Listing
<1>2. /\ s2 \in [Lists -> Seq(Nodes)] /\ s2[l] = <<>> /\ DOMAIN s2[l] = {}
      /\ \A k \in Lists : k # l => s2[k] = s[k]
  BY <1>1
<1>3. members = {s[l][i] : i \in DOMAIN s[l]}
  BY DEF ToSet
<1>4. /\ \A i \in DOMAIN s[l] : s[l][i] \in members
      /\ \A n \in members : \E i \in DOMAIN s[l] : n = s[l][i]
  BY <1>3
<1>5. /\ \A n \in members : n \in Nodes => rs2[n] = NULL
      /\ \A n \in Nodes \ members : rs2[n] = rs[n]
  BY DEF Freed
<1>6. LinkTypes(pv, nx, rs2, op \ {l})
  BY <1>1 DEF LinkTypes, Owners, Freed
<1>7. Listing(op \ {l}, s2)
  BY <1>1, <1>2 DEF Listing, Distinct
<1>8. Rings(pv, nx, op \ {l}, s2)
  BY <1>1, <1>2 DEF Rings
<1>9. Owned(rs2, s2)
  <2> SUFFICES ASSUME NEW k \in Lists, NEW j \in DOMAIN s2[k]
               PROVE  rs2[s2[k][j]] = ResourceOf[k]
    BY DEF Owned
  <2>1. k # l /\ s2[k] = s[k] /\ s[k][j] \in Nodes
    BY <1>1, <1>2
  <2>2. s[k][j] \notin members
    BY <2>1, <1>1, <1>4 DEF Listing, Distinct
  <2>3. rs[s[k][j]] = ResourceOf[k]
    BY <2>1 DEF Linked, Owned
  <2>4. QED
    BY <2>1, <2>2, <2>3, <1>5
<1>10. Unlinked(pv, nx, rs2, s2)
  <2> SUFFICES ASSUME NEW x \in Nodes, rs2[x] # NULL, Unlisted(s2, x)
               PROVE  pv[x] = NULL /\ nx[x] = NULL
    BY DEF Unlinked
  <2>1. x \notin members /\ rs[x] # NULL
    BY <1>5
  <2>2. Unlisted(s, x)
    <3> SUFFICES ASSUME NEW k \in Lists, NEW j \in DOMAIN s[k]
                 PROVE  s[k][j] # x
      BY DEF Unlisted
    <3>1. CASE k = l
      BY <3>1, <2>1, <1>4
    <3>2. CASE k # l
      BY <3>2, <1>2 DEF Unlisted
    <3>3. QED
      BY <3>1, <3>2
  <2>3. QED
    BY <2>1, <2>2 DEF Linked, Unlinked
<1>11. LoopSound(it, op \ {l}, s2)
  BY <1>1, <1>2 DEF Linked, LoopSound, OnList, LoopNotOn
<1>12. QED
  BY <1>6, <1>7, <1>8, <1>9, <1>10, <1>11 DEF Linked

(* A loop stands at its list and goes on to another place of it.           *)
LEMMA IterLinked ==
  ASSUME NEW pv, NEW nx, NEW rs, NEW op, NEW it, NEW s,
         Linked(pv, nx, rs, op, it, s),
         NEW it2, LoopSound(it2, op, s)
  PROVE  Linked(pv, nx, rs, op, it2, s)
BY DEF Linked

-----------------------------------------------------------------------------
(* The sequences a state of List stands for are those Walk finds: Order.   *)
OrderOf(nx, op) == [l \in Lists |-> IF l \in op THEN Walk(nx, l) ELSE <<>>]

LEMMA WalkOfLinked ==
  ASSUME NEW pv, NEW nx, NEW rs, NEW op, NEW it, NEW s,
         Linked(pv, nx, rs, op, it, s), NEW l \in op
  PROVE  Walk(nx, l) = s[l]
<1>1. /\ op \in SUBSET Lists /\ Listing(op, s) /\ Rings(pv, nx, op, s)
  BY DEF Linked, LinkTypes
<1>2. l \in Lists /\ Ring(pv, nx, l, s[l])
  BY <1>1 DEF Rings
<1>3. s[l] \in Seq(Nodes) /\ Once(s[l])
  BY <1>1, <1>2, ListingOnce
<1>4. \A k \in 0 .. Len(s[l]) : nx[At(s[l], l, k)] = At(s[l], l, k + 1)
  BY <1>2 DEF Ring
<1>5. QED
  BY <1>2, <1>3, <1>4, WalkOfRing

LEMMA OrderOfLinked ==
  ASSUME NEW pv, NEW nx, NEW rs, NEW op, NEW it, NEW s,
         Linked(pv, nx, rs, op, it, s)
  PROVE  OrderOf(nx, op) = s
<1>1. s \in [Lists -> Seq(Nodes)] /\ \A l \in Lists : l \notin op => s[l] = <<>>
  BY DEF Linked, Listing
<1>2. \A l \in op : Walk(nx, l) = s[l]
  <2> SUFFICES ASSUME NEW l \in op PROVE Walk(nx, l) = s[l]
    OBVIOUS
  <2>1. QED
    BY WalkOfLinked
<1>3. \A l \in Lists : (IF l \in op THEN Walk(nx, l) ELSE <<>>) = s[l]
  BY <1>1, <1>2
<1>4. s = [l \in Lists |-> s[l]]
  BY <1>1
<1>5. QED
  BY <1>3, <1>4 DEF OrderOf

(* What one step may do to the sequences, and where it leads.              *)

\* n is inserted into list l between two neighbours.
Inserts(s, s2, l, before, n, behind) ==
  /\ Unlisted(s, n)
  /\ \E i \in 1 .. Len(s[l]) + 1 :
       /\ At(s[l], l, i - 1) = before /\ At(s[l], l, i) = behind
       /\ s2 = [s EXCEPT ![l] = InsertAt(s[l], i, n)]

\* n is taken out of the list it is in.
Removes(s, s2, n) ==
  \E l \in Lists : \E i \in DOMAIN s[l] :
    s[l][i] = n /\ s2 = [s EXCEPT ![l] = RemoveAt(s[l], i)]

Moves(s, s2) ==
  \/ s2 = s
  \/ \E l \in Lists, n \in Nodes : \E x, y : Inserts(s, s2, l, x, n, y)
  \/ \E n \in Nodes : Removes(s, s2, n)
  \/ \E l \in Lists : s2 = [s EXCEPT ![l] = <<>>]

\* The places around a node that is in a list, or the list's sentinel.
Around(pv, nx, l, q, node) ==
  \E i \in 1 .. Len(q) + 1 :
    At(q, l, i - 1) = node /\ At(q, l, i) = nx[node]

LEMMA PlaceOf ==
  ASSUME NEW pv, NEW nx, NEW rs, NEW op, NEW it, NEW s,
         Linked(pv, nx, rs, op, it, s), NEW l \in op,
         NEW node \in ToSet(s[l]) \cup {l}
  PROVE  /\ Around(pv, nx, l, s[l], node)
         /\ node \in Lists \cup Nodes /\ nx[node] \in Lists \cup Nodes
         /\ pv[node] \in ToSet(s[l]) \cup {l}
<1> DEFINE q == s[l]
<1>1. l \in Lists /\ q \in Seq(Nodes) /\ Ring(pv, nx, l, q)
  BY DEF Linked, LinkTypes, Listing, Rings
<1> HIDE DEF q
<1>2. Len(q) \in Nat /\ DOMAIN q = 1 .. Len(q)
  BY <1>1
<1>3. PICK k \in 0 .. Len(q) : At(q, l, k) = node
  <2>1. CASE node = l
    <3>1. 0 \in 0 .. Len(q) /\ At(q, l, 0) = l
      BY <1>2 DEF At
    <3>2. QED
      BY <2>1, <3>1
  <2>2. CASE node # l
    <3>1. PICK k \in DOMAIN q : node = q[k]
      BY <2>2 DEF ToSet, q
    <3>2. k \in 0 .. Len(q) /\ At(q, l, k) = node
      BY <3>1, <1>2 DEF At
    <3>3. QED
      BY <3>2
  <2>3. QED
    BY <2>1, <2>2
<1>4. nx[node] = At(q, l, k + 1) /\ k + 1 \in 1 .. Len(q) + 1 /\ (k + 1) - 1 = k
  BY <1>1, <1>2, <1>3 DEF Ring
<1>5. Around(pv, nx, l, q, node)
  BY <1>3, <1>4 DEF Around
<1>6. node \in Lists \cup Nodes /\ nx[node] \in Lists \cup Nodes
  <2>1. At(q, l, k) \in Lists \cup Nodes /\ At(q, l, k + 1) \in Lists \cup Nodes
    BY <1>1, AtType
  <2>2. QED
    BY <2>1, <1>3, <1>4
<1>7. pv[node] \in ToSet(q) \cup {l}
  <2>1. PICK j \in 0 .. Len(q) : At(q, l, j + 1) = node
    <3>1. CASE k = 0
      <4>1. Len(q) \in 0 .. Len(q) /\ At(q, l, Len(q) + 1) = l /\ At(q, l, 0) = l
        BY <1>2 DEF At
      <4>2. QED
        BY <3>1, <4>1, <1>3
    <3>2. CASE k # 0
      <4>1. k - 1 \in 0 .. Len(q) /\ (k - 1) + 1 = k
        BY <3>2, <1>2
      <4>2. QED
        BY <4>1, <1>3
    <3>3. QED
      BY <3>1, <3>2
  <2>2. pv[node] = At(q, l, j)
    BY <2>1, <1>1 DEF Ring
  <2>3. At(q, l, j) = l \/ \E i \in DOMAIN q : At(q, l, j) = q[i]
    BY <1>2 DEF At
  <2>4. QED
    BY <2>2, <2>3 DEF ToSet
<1>8. QED
  BY <1>5, <1>6, <1>7 DEF q

(* A node that is in no memory, or that has no links, is in no list.       *)
LEMMA NotInMemory ==
  ASSUME NEW pv, NEW nx, NEW rs, NEW op, NEW it, NEW s,
         Linked(pv, nx, rs, op, it, s), NEW n \in Nodes,
         rs[n] = NULL \/ nx[n] = NULL
  PROVE  Unlisted(s, n)
<1> SUFFICES ASSUME NEW l \in Lists, NEW i \in DOMAIN s[l], s[l][i] = n
             PROVE  FALSE
  BY DEF Unlisted
<1>1. rs[n] = ResourceOf[l] /\ ResourceOf[l] # NULL
  BY ListAssumption DEF Linked, Owned
<1>2. l \in op
  BY DEF Linked, Listing
<1>3. n \in ToSet(s[l])
  BY DEF ToSet
<1>4. nx[n] \in Lists \cup Nodes
  BY <1>2, <1>3, PlaceOf
<1>5. QED
  BY <1>1, <1>4, ListAssumption


-----------------------------------------------------------------------------
(* The state's own links and sequences.                                    *)
LinkedTo(s) == Linked(prev, next, resource, open, iter, s)

LinkedNext(s) == Linked(prev, next, resource, open, iter, s)'

ReachedFrom(s) == \E s2 : LinkedNext(s2) /\ Moves(s, s2)

InsertedFrom(s, l, before, n, behind) ==
  \E s2 : LinkedNext(s2) /\ Inserts(s, s2, l, before, n, behind)

RemovedFrom(s, n) == \E s2 : LinkedNext(s2) /\ Removes(s, s2, n)

OnlyOwner(n) == resource' \in [Nodes -> Owners] /\ OwnersBut(resource, resource', n)

LEMMA MembersOf ==
  ASSUME NEW s, LinkedTo(s), NEW l \in open
  PROVE  Members(l) = ToSet(s[l])
<1>1. Walk(next, l) = s[l]
  BY WalkOfLinked DEF LinkedTo
<1>2. QED
  BY <1>1 DEF Members

LEMMA LinkSplices ==
  ASSUME LinkTypes(prev, next, resource, open),
         NEW node \in Lists \cup Nodes, NEW n \in Nodes,
         next[node] \in Lists \cup Nodes, LinkAfter(node, n),
         resource' \in [Nodes -> Owners], UNCHANGED open
  PROVE  /\ LinkTypes(prev', next', resource', open)
         /\ Spliced(prev, next, prev', next', node, n, next[node])
<1> DEFINE succ == next[node]
<1>1. /\ prev \in [Lists \cup Nodes -> Links] /\ next \in [Lists \cup Nodes -> Links]
      /\ open \in SUBSET Lists
  BY DEF LinkTypes
<1>2. node \in Links /\ n \in Links /\ succ \in Links
  BY DEF Links
<1>3. /\ prev' = [prev EXCEPT ![n] = node, ![succ] = n]
      /\ next' = [next EXCEPT ![n] = succ, ![node] = n]
  BY DEF LinkAfter
<1> HIDE DEF succ
<1>4. prev' \in [Lists \cup Nodes -> Links] /\ next' \in [Lists \cup Nodes -> Links]
  BY <1>1, <1>2, <1>3
<1>5. Spliced(prev, next, prev', next', node, n, succ)
  BY <1>1, <1>3 DEF Spliced
<1>6. QED
  BY <1>1, <1>4, <1>5 DEF LinkTypes, succ

LEMMA UnlinkBridges ==
  ASSUME LinkTypes(prev, next, resource, open), NEW n \in Nodes,
         next[n] \in Lists \cup Nodes, prev[n] \in Lists \cup Nodes, Unlink(n),
         resource' \in [Nodes -> Owners]
  PROVE  /\ LinkTypes(prev', next', resource', open)
         /\ Bridged(prev, next, prev', next', prev[n], n, next[n])
<1> DEFINE succ == next[n]
           pred == prev[n]
<1>1. /\ prev \in [Lists \cup Nodes -> Links] /\ next \in [Lists \cup Nodes -> Links]
      /\ open \in SUBSET Lists
  BY DEF LinkTypes
<1>2. NULL \in Links /\ pred \in Links /\ succ \in Links
  BY DEF Links
<1>3. /\ next' = [next EXCEPT ![pred] = succ, ![n] = NULL]
      /\ prev' = [prev EXCEPT ![succ] = pred, ![n] = NULL]
  BY DEF Unlink
<1> HIDE DEF succ, pred
<1>4. prev' \in [Lists \cup Nodes -> Links] /\ next' \in [Lists \cup Nodes -> Links]
  BY <1>1, <1>2, <1>3
<1>5. Bridged(prev, next, prev', next', pred, n, succ)
  BY <1>1, <1>3 DEF Bridged
<1>6. QED
  BY <1>1, <1>4, <1>5 DEF LinkTypes, succ, pred

(* Linking a node that is in no list behind one that is, or the sentinel.  *)
LEMMA InsertStep ==
  ASSUME NEW s, LinkedTo(s), NEW l \in open, NEW node \in Members(l) \cup {l},
         NEW n \in Nodes, Unlisted(s, n), LinkAfter(node, n),
         OnlyOwner(n), resource'[n] = ResourceOf[l], UNCHANGED <<open, iter>>
  PROVE  InsertedFrom(s, l, node, n, next[node])
<1> DEFINE q == s[l]
<1>1. /\ LinkTypes(prev, next, resource, open) /\ l \in Lists
      /\ Linked(prev, next, resource, open, iter, s)
  BY DEF LinkedTo, Linked, LinkTypes
<1>2. node \in ToSet(s[l]) \cup {l}
  BY MembersOf
<1>3. /\ Around(prev, next, l, s[l], node)
      /\ node \in Lists \cup Nodes /\ next[node] \in Lists \cup Nodes
  BY <1>1, <1>2, PlaceOf
<1>4. PICK i \in 1 .. Len(s[l]) + 1 :
        At(s[l], l, i - 1) = node /\ At(s[l], l, i) = next[node]
  BY <1>3 DEF Around
<1>5. /\ LinkTypes(prev', next', resource', open)
      /\ Spliced(prev, next, prev', next', node, n, next[node])
  BY <1>1, <1>3, LinkSplices DEF OnlyOwner
<1>6. Spliced(prev, next, prev', next', At(s[l], l, i - 1), n, At(s[l], l, i))
  BY <1>4, <1>5
<1>7. PICK s2 : s2 = [s EXCEPT ![l] = InsertAt(s[l], i, n)]
  OBVIOUS
<1>8. OwnersBut(resource, resource', n)
  BY DEF OnlyOwner
<1>9. Linked(prev', next', resource', open, iter, s2)
  BY <1>1, <1>5, <1>6, <1>7, <1>8, InsertLinked
<1>10. LinkedNext(s2)
  BY <1>9 DEF LinkedNext, Linked, LinkTypes, Listing, Rings, Owned, Unlinked, LoopSound
<1>11. Inserts(s, s2, l, node, n, next[node])
  BY <1>4, <1>7 DEF Inserts
<1>12. QED
  BY <1>10, <1>11 DEF InsertedFrom

(* Taking a node out of the list it is in, whichever that is.              *)
LEMMA RemoveStep ==
  ASSUME NEW s, LinkedTo(s), NEW k \in open, NEW n \in Members(k), NotIteratedAt(n),
         Unlink(n), OnlyOwner(n), UNCHANGED <<open, iter>>
  PROVE  RemovedFrom(s, n)
<1>1. /\ LinkTypes(prev, next, resource, open) /\ k \in Lists
      /\ Linked(prev, next, resource, open, iter, s)
      /\ s[k] \in Seq(Nodes) /\ Ring(prev, next, k, s[k])
  BY DEF LinkedTo, Linked, LinkTypes, Listing, Rings
<1>2. PICK i \in DOMAIN s[k] : n = s[k][i]
  BY MembersOf DEF ToSet
<1>3. n \in Nodes
  BY <1>1, <1>2
<1>4. next[n] = At(s[k], k, i + 1) /\ prev[n] = At(s[k], k, i - 1)
  <2>1. i \in 1 .. Len(s[k]) /\ Len(s[k]) \in Nat
    BY <1>1, <1>2
  <2>2. At(s[k], k, i) = n
    BY <2>1, <1>2 DEF At
  <2>3. i \in 0 .. Len(s[k]) /\ i - 1 \in 0 .. Len(s[k]) /\ (i - 1) + 1 = i
    BY <2>1
  <2>4. next[At(s[k], k, i)] = At(s[k], k, i + 1)
    BY <2>3, <1>1 DEF Ring
  <2>5. prev[At(s[k], k, (i - 1) + 1)] = At(s[k], k, i - 1)
    BY <2>3, <1>1 DEF Ring
  <2>6. QED
    BY <2>2, <2>3, <2>4, <2>5
<1>5. next[n] \in Lists \cup Nodes /\ prev[n] \in Lists \cup Nodes
  <2>1. /\ At(s[k], k, i + 1) \in Lists \cup Nodes
        /\ At(s[k], k, i - 1) \in Lists \cup Nodes
    BY <1>1, AtType
  <2>2. QED
    BY <2>1, <1>4
<1>6. /\ LinkTypes(prev', next', resource', open)
      /\ Bridged(prev, next, prev', next', prev[n], n, next[n])
  BY <1>1, <1>3, <1>5, UnlinkBridges DEF OnlyOwner
<1>7. Bridged(prev, next, prev', next', At(s[k], k, i - 1), n, At(s[k], k, i + 1))
  BY <1>4, <1>6
<1>8. PICK s2 : s2 = [s EXCEPT ![k] = RemoveAt(s[k], i)]
  OBVIOUS
<1>9. OwnersBut(resource, resource', n) /\ LoopElsewhere(iter, n)
  BY DEF OnlyOwner, NotIteratedAt, LoopElsewhere
<1>10. Linked(prev', next', resource', open, iter, s2)
  BY <1>1, <1>2, <1>6, <1>7, <1>8, <1>9, RemoveLinked
<1>11. LinkedNext(s2)
  BY <1>10 DEF LinkedNext, Linked, LinkTypes, Listing, Rings, Owned, Unlinked, LoopSound
<1>12. Removes(s, s2, n)
  BY <1>1, <1>2, <1>8 DEF Removes
<1>13. QED
  BY <1>11, <1>12 DEF RemovedFrom


(* What each operation does to the sequences.                              *)
LEMMA CtorStep ==
  ASSUME NEW s, LinkedTo(s), NEW l \in Lists, Ctor(l)
  PROVE  LinkedNext(s)
<1>1. Linked(prev, next, resource, open, iter, s)
  BY DEF LinkedTo
<1>2. l \notin open
  <2> SUFFICES ASSUME l \in open PROVE FALSE
    OBVIOUS
  <2>1. next[l] \in Lists \cup Nodes
    BY <1>1, PlaceOf
  <2>2. QED
    BY <2>1, ListAssumption DEF Ctor
<1>3. /\ prev' = [prev EXCEPT ![l] = l] /\ next' = [next EXCEPT ![l] = l]
      /\ resource' = resource /\ open' = open \cup {l} /\ iter' = iter
  BY DEF Ctor
<1>4. l \in Lists \ open
  BY <1>2
<1>5. Linked(prev', next', resource, open \cup {l}, iter, s)
  BY <1>1, <1>3, <1>4, OpenLinked
<1>6. QED
  BY <1>3, <1>5 DEF LinkedNext, Linked, LinkTypes, Listing, Rings, Owned, Unlinked, LoopSound

LEMMA DtorStep ==
  ASSUME NEW s, LinkedTo(s), NEW l \in Lists, Dtor(l)
  PROVE  LinkedNext([s EXCEPT ![l] = <<>>])
<1>1. Linked(prev, next, resource, open, iter, s) /\ l \in open
  BY DEF LinkedTo, Dtor
<1>2. Members(l) = ToSet(s[l])
  BY <1>1, MembersOf
<1>3. PICK members : members = ToSet(s[l])
  OBVIOUS
<1>4. /\ resource' = Freed(resource, members) /\ LoopNotOn(iter, l)
      /\ prev' = prev /\ next' = next /\ open' = open \ {l} /\ iter' = iter
  BY <1>2, <1>3 DEF Dtor, Freed, LoopNotOn
<1>5. PICK s2 : s2 = [s EXCEPT ![l] = <<>>]
  OBVIOUS
<1>6. Linked(prev, next, resource', open \ {l}, iter, s2)
  BY <1>1, <1>3, <1>4, <1>5, CloseLinked
<1>7. LinkedNext(s2)
  BY <1>4, <1>6 DEF LinkedNext, Linked, LinkTypes, Listing, Rings, Owned, Unlinked, LoopSound
<1>8. QED
  BY <1>5, <1>7

LEMMA InsertNewStep ==
  ASSUME NEW s, LinkedTo(s), NEW l, NEW node, NEW n \in Nodes,
         InsertNewAfter(l, node, n)
  PROVE  InsertedFrom(s, l, node, n, next[node])
<1>1. /\ Linked(prev, next, resource, open, iter, s)
      /\ l \in open /\ node \in Members(l) \cup {l} /\ LinkAfter(node, n)
      /\ resource' = [resource EXCEPT ![n] = ResourceOf[l]]
      /\ resource[n] = NULL
      /\ UNCHANGED <<open, iter>>
  BY DEF LinkedTo, InsertNewAfter, Allocated
<1>2. Unlisted(s, n)
  BY <1>1, NotInMemory
<1>3. resource \in [Nodes -> Owners] /\ l \in Lists
  BY <1>1 DEF Linked, LinkTypes
<1>4. ResourceOf[l] \in Owners
  BY <1>3 DEF Owners
<1>5. OnlyOwner(n) /\ resource'[n] = ResourceOf[l]
  BY <1>1, <1>3, <1>4 DEF OnlyOwner, OwnersBut
<1>6. QED
  BY <1>1, <1>2, <1>5, InsertStep

LEMMA InsertNodeStep ==
  ASSUME NEW s, LinkedTo(s), NEW l, NEW node, NEW n \in Nodes,
         InsertNodeAfter(l, node, n)
  PROVE  InsertedFrom(s, l, node, n, next[node])
<1>1. /\ Linked(prev, next, resource, open, iter, s)
      /\ l \in open /\ node \in Members(l) \cup {l} /\ LinkAfter(node, n)
      /\ resource[n] = ResourceOf[l] /\ next[n] = NULL
      /\ UNCHANGED <<open, iter>> /\ resource' = resource
  BY DEF LinkedTo, InsertNodeAfter, Detached
<1>2. Unlisted(s, n)
  BY <1>1, NotInMemory
<1>3. resource \in [Nodes -> Owners]
  BY <1>1 DEF Linked, LinkTypes
<1>4. OnlyOwner(n) /\ resource'[n] = ResourceOf[l]
  BY <1>1, <1>3 DEF OnlyOwner, OwnersBut
<1>5. QED
  BY <1>1, <1>2, <1>4, InsertStep

LEMMA ExtractStep ==
  ASSUME NEW s, LinkedTo(s), NEW l, NEW n \in Nodes, Extract(l, n) \/ Erase(l, n)
  PROVE  RemovedFrom(s, n)
<1>1. PICK k \in open : n \in Members(k)
  BY DEF Extract, Erase, Compatible
<1>2. resource \in [Nodes -> Owners]
  BY DEF LinkedTo, Linked, LinkTypes
<1>3. NULL \in Owners
  BY DEF Owners
<1>4. NotIteratedAt(n) /\ Unlink(n) /\ UNCHANGED <<open, iter>>
  BY DEF Extract, Erase
<1>5. OnlyOwner(n)
  <2>1. CASE Extract(l, n)
    BY <2>1, <1>2 DEF Extract, OnlyOwner, OwnersBut
  <2>2. CASE Erase(l, n)
    BY <2>2, <1>2, <1>3 DEF Erase, OnlyOwner, OwnersBut
  <2>3. QED
    BY <2>1, <2>2
<1>6. QED
  BY <1>1, <1>4, <1>5, RemoveStep

(* A loop goes from a place of its list to one next to it.                 *)
LEMMA LoopStep ==
  ASSUME NEW s, LinkedTo(s), UNCHANGED <<prev, next, resource, open>>,
         LoopSound(iter', open, s)
  PROVE  ReachedFrom(s)
<1>1. Linked(prev, next, resource, open, iter, s)
  BY DEF LinkedTo
<1>2. Linked(prev, next, resource, open, iter', s)
  BY <1>1, IterLinked
<1>3. LinkedNext(s)
  BY <1>2 DEF LinkedNext, Linked, LinkTypes, Listing, Rings, Owned, Unlinked, LoopSound
<1>4. QED
  BY <1>3 DEF ReachedFrom, Moves

LEMMA BesideOf ==
  ASSUME NEW s, LinkedTo(s), NEW l \in open, NEW node,
         node = l \/ \E i \in DOMAIN s[l] : node = s[l][i],
         NEW x, x = next[node] \/ x = prev[node]
  PROVE  /\ x \in Lists \cup Nodes
         /\ x = l \/ \E i \in DOMAIN s[l] : x = s[l][i]
<1>1. Linked(prev, next, resource, open, iter, s)
  BY DEF LinkedTo
<1>2. node \in ToSet(s[l]) \cup {l}
  BY DEF ToSet
<1>3. /\ Around(prev, next, l, s[l], node)
      /\ next[node] \in Lists \cup Nodes /\ prev[node] \in ToSet(s[l]) \cup {l}
  BY <1>1, <1>2, PlaceOf
<1>4. l \in Lists /\ s[l] \in Seq(Nodes)
  BY <1>1 DEF Linked, LinkTypes, Listing
<1>5. next[node] = l \/ \E i \in DOMAIN s[l] : next[node] = s[l][i]
  BY <1>3, <1>4 DEF Around, At
<1>6. prev[node] = l \/ \E i \in DOMAIN s[l] : prev[node] = s[l][i]
  BY <1>3 DEF ToSet
<1>7. QED
  BY <1>3, <1>4, <1>5, <1>6

LEMMA BeginStep ==
  ASSUME NEW s, LinkedTo(s), NEW l, Begin(l)
  PROVE  ReachedFrom(s)
<1>1. l \in open /\ UNCHANGED <<prev, next, resource, open>>
  BY DEF Begin
<1>2. l \in Lists
  BY <1>1 DEF LinkedTo, Linked, LinkTypes
<1>3. PICK x, way : /\ iter' = [list |-> l, at |-> x, link |-> way]
                    /\ x = next[l] \/ x = prev[l]
                    /\ way \in {"next", "prev"}
  BY DEF Begin
<1>4. /\ x \in Lists \cup Nodes
      /\ x = l \/ \E i \in DOMAIN s[l] : x = s[l][i]
  BY <1>1, <1>3, BesideOf
<1>5. iter' \in Loops /\ iter'.list = l /\ iter'.at = x
  BY <1>2, <1>3, <1>4 DEF Loops
<1>6. LoopSound(iter', open, s)
  BY <1>1, <1>4, <1>5 DEF LoopSound, OnList
<1>7. QED
  BY <1>1, <1>6, LoopStep

LEMMA StepStep ==
  ASSUME NEW s, LinkedTo(s), Step
  PROVE  ReachedFrom(s)
<1>1. /\ iter \in Loops /\ iter.list \in open /\ OnList(iter, s)
      /\ UNCHANGED <<prev, next, resource, open>>
  BY DEF Step, LinkedTo, Linked, LoopSound
<1>2. PICK x : /\ x = next[iter.at] \/ x = prev[iter.at]
               /\ iter' = [iter EXCEPT !.at = x]
  BY DEF Step
<1>3. PICK l, node : l = iter.list /\ node = iter.at
  OBVIOUS
<1>4. /\ x \in Lists \cup Nodes
      /\ x = l \/ \E i \in DOMAIN s[l] : x = s[l][i]
  <2>1. node = l \/ \E i \in DOMAIN s[l] : node = s[l][i]
    BY <1>1, <1>3 DEF OnList
  <2>2. x = next[node] \/ x = prev[node]
    BY <1>2, <1>3
  <2>3. l \in open
    BY <1>1, <1>3
  <2>4. QED
    BY <2>1, <2>2, <2>3, BesideOf
<1>5. iter' \in Loops /\ iter'.list = l /\ iter'.at = x
  BY <1>1, <1>2, <1>3, <1>4 DEF Loops
<1>6. LoopSound(iter', open, s)
  BY <1>1, <1>3, <1>4, <1>5 DEF LoopSound, OnList
<1>7. QED
  BY <1>1, <1>6, LoopStep

LEMMA StutterStep ==
  ASSUME NEW s, LinkedTo(s), UNCHANGED vars
  PROVE  ReachedFrom(s)
<1>1. UNCHANGED <<prev, next, resource, open>> /\ iter' = iter
  BY DEF vars
<1>2. LoopSound(iter', open, s)
  BY <1>1 DEF LinkedTo, Linked
<1>3. QED
  BY <1>1, <1>2, LoopStep

(* Every step moves the sequences as a user of lists may.                  *)
LEMMA NextStep ==
  ASSUME NEW s, LinkedTo(s), [Next]_vars
  PROVE  ReachedFrom(s)
<1>1. ASSUME NEW l \in Lists,
             Ctor(l) \/ Dtor(l) \/ Begin(l) \/ InsertNothing(l)
      PROVE  ReachedFrom(s)
  <2>1. ASSUME Ctor(l) PROVE ReachedFrom(s)
    BY <2>1, CtorStep DEF ReachedFrom, Moves
  <2>2. ASSUME Dtor(l) PROVE ReachedFrom(s)
    BY <2>2, DtorStep DEF ReachedFrom, Moves
  <2>3. QED
    BY <1>1, <2>1, <2>2, BeginStep, StutterStep DEF InsertNothing
<1>2. ASSUME NEW l \in Lists, NEW n \in Nodes, Extract(l, n) \/ Erase(l, n)
      PROVE  ReachedFrom(s)
  BY <1>2, ExtractStep DEF RemovedFrom, ReachedFrom, Moves
<1>3. ASSUME NEW l \in Lists, NEW x, ExtractNothing(l, x)
      PROVE  ReachedFrom(s)
  BY <1>3, StutterStep DEF ExtractNothing
<1>4. ASSUME NEW l \in Lists, NEW node, NEW n \in Nodes,
             InsertNewAfter(l, node, n) \/ InsertNewBefore(l, node, n)
      PROVE  ReachedFrom(s)
  BY <1>4, InsertNewStep DEF InsertNewBefore, InsertedFrom, ReachedFrom, Moves
<1>5. ASSUME NEW l \in Lists, NEW node, NEW n \in Nodes,
             InsertNodeAfter(l, node, n) \/ InsertNodeBefore(l, node, n)
      PROVE  ReachedFrom(s)
  BY <1>5, InsertNodeStep DEF InsertNodeBefore, InsertedFrom, ReachedFrom, Moves
<1>6. ASSUME End PROVE ReachedFrom(s)
  <2>1. UNCHANGED <<prev, next, resource, open>> /\ LoopSound(iter', open, s)
    BY <1>6 DEF End, LoopSound
  <2>2. QED
    BY <2>1, LoopStep
<1>7. QED
  BY <1>1, <1>2, <1>3, <1>4, <1>5, <1>6, StepStep, StutterStep DEF Next


-----------------------------------------------------------------------------
(* The inductive invariant: the links are those of the sequences that the  *)
(* walks from the open lists' sentinels find.                              *)
IInv == LinkedTo(Order)

LEMMA OrderOfState ==
  ASSUME NEW s, LinkedTo(s)
  PROVE  Order = s
<1>1. OrderOf(next, open) = s
  BY OrderOfLinked DEF LinkedTo
<1>2. QED
  BY <1>1 DEF Order, OrderOf

LEMMA InitLinked ==
  ASSUME Init
  PROVE  IInv
<1>1. PICK s : s = [l \in Lists |-> <<>>]
  OBVIOUS
<1>2. /\ prev = [x \in Lists \cup Nodes |-> NULL]
      /\ next = [x \in Lists \cup Nodes |-> NULL]
      /\ resource = [n \in Nodes |-> NULL] /\ open = {} /\ iter = NULL
  BY DEF Init
<1>3. LinkTypes(prev, next, resource, open)
  BY <1>2 DEF LinkTypes, Links, Owners
<1>4. /\ s \in [Lists -> Seq(Nodes)]
      /\ \A l \in Lists : s[l] = <<>> /\ DOMAIN s[l] = {}
  BY <1>1
<1>5. Listing(open, s) /\ Rings(prev, next, open, s) /\ Owned(resource, s)
  BY <1>2, <1>4 DEF Listing, Distinct, Rings, Owned
<1>6. Unlinked(prev, next, resource, s) /\ LoopSound(iter, open, s)
  BY <1>2 DEF Unlinked, LoopSound
<1>7. LinkedTo(s)
  BY <1>3, <1>5, <1>6 DEF LinkedTo, Linked
<1>8. QED
  BY <1>7, OrderOfState DEF IInv

(* A step keeps the invariant, and moves Order as the sequences move.      *)
LEMMA OrderNext ==
  ASSUME NEW s2, LinkedNext(s2)
  PROVE  Order' = s2
<1>1. Linked(prev', next', resource', open', iter', s2)
  BY DEF LinkedNext, Linked, LinkTypes, Listing, Rings, Owned, Unlinked, LoopSound
<1>2. OrderOf(next', open') = s2
  BY <1>1, OrderOfLinked
<1>3. QED
  BY <1>2 DEF Order, OrderOf, Walk

LEMMA NextKeeps ==
  ASSUME IInv, [Next]_vars
  PROVE  IInv' /\ Moves(Order, Order')
<1>1. PICK s : s = Order
  OBVIOUS
<1>2. LinkedTo(s)
  BY <1>1 DEF IInv
<1>3. PICK s2 : LinkedNext(s2) /\ Moves(s, s2)
  BY <1>2, NextStep DEF ReachedFrom
<1>4. Order' = s2
  BY <1>3, OrderNext
<1>5. IInv'
  BY <1>3, <1>4 DEF IInv, LinkedTo, LinkedNext, Linked, LinkTypes, Listing, Rings, Owned, Unlinked, LoopSound
<1>6. QED
  BY <1>1, <1>3, <1>4, <1>5

(* The links of every reachable state are those of sequences of nodes in   *)
(* which no node is twice, whatever the operations before and the loop     *)
(* whose body they ran in.                                                 *)
THEOREM Invariance == Spec => []IInv
<1>1. Init => IInv
  BY InitLinked
<1>2. IInv /\ [Next]_vars => IInv'
  BY NextKeeps
<1>3. QED
  BY <1>1, <1>2, PTL DEF Spec

-----------------------------------------------------------------------------
(* What the invariant says of a node and of its neighbours.                *)
LEMMA ListedNode ==
  ASSUME IInv, NEW l \in open, NEW n \in Members(l)
  PROVE  /\ n \in Nodes /\ resource[n] = ResourceOf[l]
         /\ n \in Attached
<1>1. PICK s : s = Order
  OBVIOUS
<1>2. LinkedTo(s) /\ Linked(prev, next, resource, open, iter, s)
  BY <1>1 DEF IInv, LinkedTo
<1>3. l \in Lists /\ s[l] \in Seq(Nodes)
  BY <1>2 DEF Linked, LinkTypes, Listing
<1>4. Members(l) = ToSet(s[l])
  BY <1>2, MembersOf
<1>5. PICK i \in DOMAIN s[l] : n = s[l][i]
  BY <1>4 DEF ToSet
<1>6. n \in Nodes /\ resource[n] = ResourceOf[l] /\ ResourceOf[l] # NULL
  BY <1>2, <1>3, <1>5, ListAssumption DEF Linked, Owned
<1>7. next[n] \in Lists \cup Nodes /\ prev[n] \in ToSet(s[l]) \cup {l}
  <2>1. n \in ToSet(s[l]) \cup {l}
    BY <1>4
  <2>2. QED
    BY <1>2, <2>1, PlaceOf
<1>8. prev[n] \in Lists \cup Nodes
  BY <1>3, <1>7 DEF ToSet
<1>9. QED
  BY <1>6, <1>7, <1>8, ListAssumption DEF Attached, Allocated

LEMMA UnlistedNode ==
  ASSUME IInv, NEW n \in Allocated, \A l \in open : n \notin Members(l)
  PROVE  prev[n] = NULL /\ next[n] = NULL
<1>1. PICK s : s = Order
  OBVIOUS
<1>2. LinkedTo(s) /\ Linked(prev, next, resource, open, iter, s)
  BY <1>1 DEF IInv, LinkedTo
<1>3. Unlisted(s, n)
  <2> SUFFICES ASSUME NEW l \in Lists, NEW i \in DOMAIN s[l], s[l][i] = n
               PROVE  FALSE
    BY DEF Unlisted
  <2>1. l \in open
    BY <1>2 DEF Linked, Listing
  <2>2. Members(l) = ToSet(s[l])
    BY <1>2, <2>1, MembersOf
  <2>3. QED
    BY <2>1, <2>2 DEF ToSet
<1>4. QED
  BY <1>2, <1>3 DEF Linked, Unlinked, Allocated

LEMMA BackAndForth ==
  ASSUME IInv, NEW l \in open, NEW x \in Members(l) \cup {l}
  PROVE  /\ next[x] \in Members(l) \cup {l} /\ prev[next[x]] = x
         /\ prev[x] \in Members(l) \cup {l} /\ next[prev[x]] = x
<1>1. PICK s : s = Order
  OBVIOUS
<1>2. LinkedTo(s)
  BY <1>1 DEF IInv
<1>3. Members(l) = ToSet(s[l])
  BY <1>2, MembersOf
<1> DEFINE q == s[l]
<1>4. l \in Lists /\ q \in Seq(Nodes) /\ Ring(prev, next, l, q)
  BY <1>2 DEF LinkedTo, Linked, LinkTypes, Listing, Rings
<1>5. x = l \/ \E i \in DOMAIN s[l] : x = s[l][i]
  BY <1>3 DEF ToSet
<1>6. next[x] = l \/ \E i \in DOMAIN s[l] : next[x] = s[l][i]
  BY <1>2, <1>5, BesideOf
<1>7. prev[x] = l \/ \E i \in DOMAIN s[l] : prev[x] = s[l][i]
  BY <1>2, <1>5, BesideOf
<1>8. next[x] \in Members(l) \cup {l} /\ prev[x] \in Members(l) \cup {l}
  BY <1>3, <1>6, <1>7 DEF ToSet
<1>9. x = l \/ \E i \in DOMAIN q : x = q[i]
  BY <1>5
<1> HIDE DEF q
<1>10. Len(q) \in Nat /\ DOMAIN q = 1 .. Len(q)
  BY <1>4
<1>11. PICK k \in 0 .. Len(q) : At(q, l, k) = x
  BY <1>9, <1>10 DEF At
<1>12. PICK j \in 0 .. Len(q) : At(q, l, j + 1) = x
  <2>1. CASE x = l
    <3>1. Len(q) \in 0 .. Len(q) /\ At(q, l, Len(q) + 1) = l
      BY <1>10 DEF At
    <3>2. QED
      BY <2>1, <3>1
  <2>2. CASE x # l
    <3>1. PICK i \in 1 .. Len(q) : x = q[i]
      BY <2>2, <1>9, <1>10
    <3>2. i - 1 \in 0 .. Len(q) /\ (i - 1) + 1 = i /\ At(q, l, i) = x
      BY <3>1, <1>10 DEF At
    <3>3. QED
      BY <3>2
  <2>3. QED
    BY <2>1, <2>2
<1>13. prev[next[x]] = x
  BY <1>4, <1>11 DEF Ring
<1>14. next[prev[x]] = x
  BY <1>4, <1>12 DEF Ring
<1>15. QED
  BY <1>8, <1>13, <1>14

-----------------------------------------------------------------------------
(* The links are links, memory comes from the lists' resources, and a node *)
(* in memory has both its links or none (list_extract tells by them).      *)
THEOREM TypeCorrectness == Spec => []TypeOK
<1>1. ASSUME IInv PROVE TypeOK
  <2>1. LinkTypes(prev, next, resource, open)
    BY <1>1 DEF IInv, LinkedTo, Linked
  <2>2. ASSUME NEW n \in Allocated
        PROVE  prev[n] = NULL <=> next[n] = NULL
    <3>1. CASE \E l \in open : n \in Members(l)
      BY <3>1, <1>1, ListedNode DEF Attached
    <3>2. CASE \A l \in open : n \notin Members(l)
      BY <3>2, <1>1, UnlistedNode
    <3>3. QED
      BY <3>1, <3>2
  <2>3. QED
    BY <2>1, <2>2 DEF LinkTypes, TypeOK, Owners
<1>2. QED
  BY <1>1, Invariance, PTL

(* In both directions the links around a list's nodes undo each other.     *)
THEOREM WellLinkedAlways == Spec => []WellLinked
<1>1. ASSUME IInv PROVE WellLinked
  <2> SUFFICES ASSUME NEW x \in Attached \cup open
               PROVE  /\ next[x] \in Attached \cup open /\ prev[next[x]] = x
                      /\ prev[x] \in Attached \cup open /\ next[prev[x]] = x
    BY DEF WellLinked
  <2>1. PICK l \in open : x \in Members(l) \cup {l}
    <3>1. CASE x \in open
      BY <3>1
    <3>2. CASE x \in Attached
      BY <3>2, <1>1, UnlistedNode DEF Attached
    <3>3. QED
      BY <3>1, <3>2
  <2>2. /\ next[x] \in Members(l) \cup {l} /\ prev[next[x]] = x
        /\ prev[x] \in Members(l) \cup {l} /\ next[prev[x]] = x
    BY <1>1, <2>1, BackAndForth
  <2>3. \A n \in Members(l) : n \in Attached
    BY <1>1, ListedNode
  <2>4. QED
    BY <2>2, <2>3
<1>2. QED
  BY <1>1, Invariance, PTL

(* Every node in memory is in one living list, of the resource its memory  *)
(* came from, or held by the caller that extracted it.                     *)
THEOREM NodesAccountedAlways == Spec => []NodesAccounted
<1>1. ASSUME IInv PROVE NodesAccounted
  <2>1. ASSUME NEW n, NEW l \in open, n \in Members(l)
        PROVE  n \in Allocated \ Detached /\ resource[n] = ResourceOf[l]
    BY <1>1, <2>1, ListedNode DEF Attached, Detached
  <2>2. ASSUME NEW n \in Allocated \ Detached
        PROVE  \E l \in open : n \in Members(l)
    BY <1>1, <2>2, UnlistedNode DEF Detached
  <2>3. UNION {Members(l) : l \in open} = Allocated \ Detached
    BY <2>1, <2>2
  <2>4. ASSUME NEW k \in open, NEW l \in open, k # l,
               NEW n, n \in Members(k), n \in Members(l)
        PROVE  FALSE
    <3>1. PICK s : s = Order
      OBVIOUS
    <3>2. LinkedTo(s)
      BY <1>1, <3>1 DEF IInv
    <3>3. Members(k) = ToSet(s[k]) /\ Members(l) = ToSet(s[l])
      BY <3>2, MembersOf
    <3>4. Distinct(s) /\ k \in Lists /\ l \in Lists
      BY <3>2 DEF LinkedTo, Linked, LinkTypes, Listing
    <3>5. QED
      BY <2>4, <3>3, <3>4 DEF ToSet, Distinct
  <2>5. QED
    BY <2>1, <2>3, <2>4 DEF NodesAccounted
<1>2. QED
  BY <1>1, Invariance, PTL

(* A running loop is at its list's sentinel or at one of its nodes.        *)
THEOREM LoopStaysOnListAlways == Spec => []LoopStaysOnList
<1>1. ASSUME IInv PROVE LoopStaysOnList
  <2> SUFFICES ASSUME iter # NULL
               PROVE  iter.at \in Members(iter.list) \cup {iter.list}
    BY DEF LoopStaysOnList
  <2>1. PICK s : s = Order
    OBVIOUS
  <2>2. LinkedTo(s)
    BY <1>1, <2>1 DEF IInv
  <2>3. iter.list \in open /\ OnList(iter, s)
    BY <2>2 DEF LinkedTo, Linked, LoopSound
  <2>4. Members(iter.list) = ToSet(s[iter.list])
    BY <2>2, <2>3, MembersOf
  <2>5. QED
    BY <2>3, <2>4 DEF OnList, ToSet
<1>2. QED
  BY <1>1, Invariance, PTL

-----------------------------------------------------------------------------
(* The moves of Order are steps of NodeSequences.                          *)
LEMMA OrderType ==
  ASSUME IInv
  PROVE  Order \in [Lists -> Seq(Nodes)]
<1>1. PICK s : s = Order
  OBVIOUS
<1>2. QED
  BY <1>1 DEF IInv, LinkedTo, Linked, Listing

LEMMA InsertMoves ==
  ASSUME IInv, NEW l \in Lists, NEW n \in Nodes, NEW before, NEW behind,
         Inserts(Order, Order', l, before, n, behind)
  PROVE  \E i \in 1 .. Len(Order[l]) + 1 :
           /\ NodeAt(l, i - 1) = before /\ NodeAt(l, i) = behind
           /\ Sequence!Insert(l, i, n)
<1>1. PICK s, s2 : s = Order /\ s2 = Order'
  OBVIOUS
<1>2. PICK i \in 1 .. Len(s[l]) + 1 :
        /\ At(s[l], l, i - 1) = before /\ At(s[l], l, i) = behind
        /\ s2 = [s EXCEPT ![l] = InsertAt(s[l], i, n)]
  BY <1>1 DEF Inserts
<1>3. n \notin Sequence!Listed
  <2> SUFFICES ASSUME NEW k \in Lists, n \in Sequence!ToSet(s[k]) PROVE FALSE
    BY <1>1 DEF Sequence!Listed
  <2>1. QED
    BY <1>1 DEF Inserts, Unlisted, Sequence!ToSet
<1>4. Sequence!InsertAt(s[l], i, n) = InsertAt(s[l], i, n)
  BY DEF Sequence!InsertAt, InsertAt
<1>5. Sequence!Insert(l, i, n)
  BY <1>1, <1>2, <1>3, <1>4 DEF Sequence!Insert
<1>6. DOMAIN s[l] = 1 .. Len(s[l])
  BY <1>1, OrderType
<1>7. NodeAt(l, i - 1) = before /\ NodeAt(l, i) = behind
  BY <1>1, <1>2, <1>6 DEF NodeAt, At
<1>8. QED
  BY <1>1, <1>5, <1>7

LEMMA RemoveMoves ==
  ASSUME IInv, NEW n, Removes(Order, Order', n)
  PROVE  \E l \in Lists : \E i \in DOMAIN Order[l] :
           Order[l][i] = n /\ Sequence!Take(l, i)
<1>1. PICK s, s2 : s = Order /\ s2 = Order'
  OBVIOUS
<1>2. PICK l \in Lists : \E i \in DOMAIN s[l] :
        s[l][i] = n /\ s2 = [s EXCEPT ![l] = RemoveAt(s[l], i)]
  BY <1>1 DEF Removes
<1>3. PICK i \in DOMAIN s[l] : s[l][i] = n /\ s2 = [s EXCEPT ![l] = RemoveAt(s[l], i)]
  BY <1>2
<1>4. Sequence!RemoveAt(s[l], i) = RemoveAt(s[l], i)
  BY DEF Sequence!RemoveAt, RemoveAt
<1>5. Sequence!Take(l, i)
  BY <1>1, <1>3, <1>4 DEF Sequence!Take
<1>6. QED
  BY <1>1, <1>3, <1>5

LEMMA InsertedOrder ==
  ASSUME IInv, NEW l \in Lists, NEW n \in Nodes, NEW before, NEW behind,
         InsertedFrom(Order, l, before, n, behind)
  PROVE  \E i \in 1 .. Len(Order[l]) + 1 :
           /\ NodeAt(l, i - 1) = before /\ NodeAt(l, i) = behind
           /\ Sequence!Insert(l, i, n)
<1>1. Inserts(Order, Order', l, before, n, behind)
  BY OrderNext DEF InsertedFrom
<1>2. QED
  BY <1>1, InsertMoves

LEMMA RemovedOrder ==
  ASSUME IInv, NEW n, RemovedFrom(Order, n)
  PROVE  \E l \in Lists : \E i \in DOMAIN Order[l] :
           Order[l][i] = n /\ Sequence!Take(l, i)
<1>1. Removes(Order, Order', n)
  BY OrderNext DEF RemovedFrom
<1>2. QED
  BY <1>1, RemoveMoves

(* Every operation does to the sequences what it is for.                   *)
LEMMA Meant ==
  ASSUME IInv, NEW l \in Lists
  PROVE  Means(l)
<1>1. PICK s : s = Order /\ LinkedTo(s)
  BY DEF IInv
<1>2. ASSUME NEW node, NEW n \in Nodes,
             InsertNewAfter(l, node, n) \/ InsertNodeAfter(l, node, n)
      PROVE  \E i \in 1 .. Len(Order[l]) + 1 :
               /\ NodeAt(l, i - 1) = node /\ NodeAt(l, i) = next[node]
               /\ Sequence!Insert(l, i, n)
  <2>1. InsertedFrom(s, l, node, n, next[node])
    BY <1>1, <1>2, InsertNewStep, InsertNodeStep
  <2>2. QED
    BY <1>1, <2>1, InsertedOrder
<1>3. ASSUME NEW node \in Members(l) \cup {l}, NEW n \in Nodes,
             InsertNewBefore(l, node, n) \/ InsertNodeBefore(l, node, n)
      PROVE  \E i \in 1 .. Len(Order[l]) + 1 :
               NodeAt(l, i) = node /\ Sequence!Insert(l, i, n)
  <2>1. next[prev[node]] = node
    BY <1>3, BackAndForth DEF InsertNewBefore, InsertNodeBefore
  <2>2. QED
    BY <1>2, <1>3, <2>1 DEF InsertNewBefore, InsertNodeBefore
<1>4. ASSUME NEW n \in Nodes, Extract(l, n) \/ Erase(l, n)
      PROVE  \E k \in Lists : \E i \in DOMAIN Order[k] :
               Order[k][i] = n /\ Sequence!Take(k, i)
  <2>1. RemovedFrom(s, n)
    BY <1>1, <1>4, ExtractStep
  <2>2. QED
    BY <1>1, <2>1, RemovedOrder
<1>5. ASSUME Dtor(l) PROVE Sequence!Clear(l)
  <2>1. LinkedNext([s EXCEPT ![l] = <<>>])
    BY <1>1, <1>5, DtorStep
  <2>2. Order' = [s EXCEPT ![l] = <<>>]
    BY <2>1, OrderNext
  <2>3. QED
    BY <1>1, <2>2 DEF Sequence!Clear
<1>6. ASSUME Ctor(l) PROVE UNCHANGED Order
  <2>1. LinkedNext(s)
    BY <1>1, <1>6, CtorStep
  <2>2. QED
    BY <1>1, <2>1, OrderNext
<1>7. QED
  BY <1>2, <1>3, <1>4, <1>5, <1>6 DEF Means

(* The links implement the sequences: every operation inserts a node that  *)
(* is in no list, takes one out, empties a list, or changes no sequence,   *)
(* and an insertion is where it should be, beside the node it was given.   *)
THEOREM Refinement == Spec => ImplementsSequence
<1>1. Init => Sequence!Init
  <2> SUFFICES ASSUME Init PROVE Sequence!Init
    OBVIOUS
  <2>1. open = {}
    BY DEF Init
  <2>2. QED
    BY <2>1 DEF Sequence!Init, Order
<1>2. IInv /\ [Next]_vars => [Sequence!Next]_Order
  <2> SUFFICES ASSUME IInv, [Next]_vars PROVE [Sequence!Next]_Order
    OBVIOUS
  <2>1. Moves(Order, Order') /\ \A l \in Lists : Order[l] \in Seq(Nodes)
    BY NextKeeps, OrderType
  <2>2. ASSUME NEW l \in Lists, NEW n \in Nodes, NEW x, NEW y,
               Inserts(Order, Order', l, x, n, y)
        PROVE  Sequence!Next
    BY <2>2, InsertMoves DEF Sequence!Next
  <2>3. ASSUME NEW n \in Nodes, Removes(Order, Order', n)
        PROVE  Sequence!Next
    <3>1. PICK l \in Lists : \E i \in DOMAIN Order[l] : Sequence!Take(l, i)
      BY <2>3, RemoveMoves
    <3>2. PICK i \in DOMAIN Order[l] : Sequence!Take(l, i)
      BY <3>1
    <3>3. i \in 1 .. Len(Order[l])
      BY <2>1
    <3>4. QED
      BY <3>2, <3>3 DEF Sequence!Next
  <2>4. ASSUME NEW l \in Lists, Order' = [Order EXCEPT ![l] = <<>>]
        PROVE  Sequence!Next
    BY <2>4 DEF Sequence!Next, Sequence!Clear
  <2>5. QED
    BY <2>1, <2>2, <2>3, <2>4 DEF Moves
<1>3. IInv => \A l \in Lists : Means(l)
  BY Meant
<1>4. Spec => Sequence!Spec
  BY <1>1, <1>2, Invariance, PTL DEF Spec, Sequence!Spec
<1>5. Spec => [][\A l \in Lists : Means(l)]_vars
  BY <1>3, Invariance, PTL DEF Spec
<1>6. QED
  BY <1>4, <1>5 DEF ImplementsSequence
=============================================================================
