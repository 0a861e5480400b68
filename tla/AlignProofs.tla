---------------------------- MODULE AlignProofs -----------------------------
(***************************************************************************)
(* What AlignUp returns, for every value and alignment: the least multiple *)
(* of the alignment that is not below the value.  And that the macro of    *)
(* AlignMacro, which clears bits, returns the same, for every word size.   *)
(*                                                                         *)
(* A word is handled bit by bit, from the lowest one: the remainder of x   *)
(* modulo 2 ^ (n + 1) is that modulo 2 ^ n and, if bit n is set, 2 ^ n     *)
(* (LowBits).  Clearing the bits of m in s so makes a word between s - m   *)
(* and s (MaskedBounds), a multiple of 2 ^ n if no bit below n is left     *)
(* (MaskedMultiple).  With s the sum and m the mask of the macro these two *)
(* facts are all that is needed: one multiple of the alignment lies there. *)
(***************************************************************************)
EXTENDS AlignMacro, FiniteSetTheorems, WellFoundedInduction, TLAPS

(* Division with remainder, in the form the proofs below use it.           *)
LEMMA DivMod ==
  ASSUME NEW v \in Nat, NEW a \in Nat \ {0}
  PROVE  /\ v \div a \in Nat
         /\ v % a \in 0 .. a - 1
         /\ v = a * (v \div a) + (v % a)
OBVIOUS

(* A multiple leaves no remainder.                                         *)
LEMMA MultipleMod ==
  ASSUME NEW k \in Nat, NEW a \in Nat \ {0}
  PROVE  (a * k) % a = 0
OBVIOUS

(* No other quotient and remainder make the number.                        *)
LEMMA DivModUnique ==
  ASSUME NEW a \in Nat \ {0}, NEW k \in Nat, NEW r \in 0 .. a - 1
  PROVE  /\ (a * k + r) \div a = k
         /\ (a * k + r) % a = r
<1> DEFINE w == a * k + r
           q == w \div a
           m == w % a
<1>1. w \in Nat
  OBVIOUS
<1>2. q \in Nat /\ m \in 0 .. a - 1 /\ w = a * q + m
  BY <1>1, DivMod
<1>3. w = a * k + r
  OBVIOUS
<1> HIDE DEF w, q, m
<1>4. ~(q < k)
  <2>1. SUFFICES ASSUME q < k PROVE FALSE
    OBVIOUS
  <2>2. a * q + a <= a * k
    <3>1. a * (q + 1) <= a * k
      BY <1>2, <2>1
    <3>2. a * (q + 1) = a * q + a
      BY <1>2
    <3>3. QED
      BY <3>1, <3>2
  <2>3. QED
    BY <1>2, <1>3, <2>2
<1>5. ~(k < q)
  <2>1. SUFFICES ASSUME k < q PROVE FALSE
    OBVIOUS
  <2>2. a * k + a <= a * q
    <3>1. a * (k + 1) <= a * q
      BY <1>2, <2>1
    <3>2. a * (k + 1) = a * k + a
      OBVIOUS
    <3>3. QED
      BY <3>1, <3>2
  <2>3. QED
    BY <1>2, <1>3, <2>2
<1>6. q = k /\ m = r
  BY <1>2, <1>3, <1>4, <1>5
<1>7. QED
  BY <1>6 DEF w, q, m

(* Rounding up adds less than the alignment: the padding that              *)
(* free_list_required_block_size reserves is enough.                       *)
LEMMA AlignUpBounds ==
  ASSUME NEW v \in Nat, NEW a \in Nat \ {0}
  PROVE  AlignUp(v, a) \in v .. v + a - 1
<1>1. v % a \in 0 .. a - 1
  BY DivMod
<1>2. QED
  BY <1>1 DEF AlignUp

(* The result is aligned.                                                  *)
LEMMA AlignUpAligned ==
  ASSUME NEW v \in Nat, NEW a \in Nat \ {0}
  PROVE  AlignUp(v, a) % a = 0
<1> DEFINE q == v \div a
           r == v % a
<1>1. q \in Nat /\ r \in 0 .. a - 1 /\ v = a * q + r
  BY DivMod
<1>2. CASE r = 0
  BY <1>2 DEF AlignUp
<1>3. CASE r # 0
  <2>1. AlignUp(v, a) = v + a - r
    BY <1>3 DEF AlignUp
  <2> HIDE DEF q, r
  <2>2. v + a - r = a * q + a
    BY <1>1
  <2>3. a * q + a = a * (q + 1)
    BY <1>1
  <2>4. AlignUp(v, a) = a * (q + 1) /\ q + 1 \in Nat
    BY <1>1, <2>1, <2>2, <2>3
  <2>5. QED
    BY <2>4, MultipleMod
<1>4. QED
  BY <1>2, <1>3

(* No aligned address between the value and the result is passed over: a   *)
(* block that once held an aligned payload has room for it again.          *)
LEMMA AlignUpLeast ==
  ASSUME NEW v \in Nat, NEW a \in Nat \ {0},
         NEW w \in Nat, v <= w, w % a = 0
  PROVE  AlignUp(v, a) <= w
<1> DEFINE q == v \div a
           r == v % a
           k == w \div a
<1>1. q \in Nat /\ r \in 0 .. a - 1 /\ v = a * q + r
  BY DivMod
<1>2. k \in Nat /\ w = a * k + (w % a)
  BY DivMod
<1>3. AlignUp(v, a) = IF r = 0 THEN v ELSE v + a - r
  BY DEF AlignUp
<1> HIDE DEF q, r, k
<1>4. w = a * k
  BY <1>2
<1>5. CASE r = 0
  BY <1>3, <1>5
<1>6. CASE r # 0
  <2>1. k >= q + 1
    <3>1. SUFFICES ASSUME k <= q PROVE FALSE
      BY <1>1, <1>2
    <3>2. a * k <= a * q
      BY <1>1, <1>2, <3>1
    <3>3. QED
      BY <1>1, <1>4, <1>6, <3>2
  <2>2. a * k >= a * (q + 1)
    BY <1>1, <1>2, <2>1
  <2>3. a * (q + 1) = a * q + a
    BY <1>1
  <2>4. QED
    BY <1>1, <1>3, <1>4, <1>6, <2>2, <2>3
<1>7. QED
  BY <1>5, <1>6

(* A multiple of a multiple of four: what is aligned for the alignment a   *)
(* caller asks for is aligned for the header in front of it.               *)
LEMMA MultipleOfFour ==
  ASSUME NEW v \in Nat, NEW a \in Nat \ {0}, v % a = 0, a % 4 = 0
  PROVE  v % 4 = 0
<1> DEFINE k == v \div a
           j == a \div 4
<1>1. k \in Nat /\ v = a * k + (v % a)
  BY DivMod
<1>2. j \in Nat /\ a = 4 * j
  OBVIOUS
<1> HIDE DEF k, j
<1>3. v = (4 * j) * k
  BY <1>1, <1>2
<1>4. j * k \in Nat /\ (4 * j) * k = 4 * (j * k)
  BY <1>1, <1>2
<1>5. QED
  BY <1>3, <1>4

(* Two multiples less than the divisor apart are one.                      *)
LEMMA NextMultiple ==
  ASSUME NEW a \in Nat \ {0}, NEW u \in Nat, NEW w \in Nat,
         u % a = 0, w % a = 0, u <= w, w < u + a
  PROVE  u = w
<1> DEFINE k == u \div a
           j == w \div a
<1>1. k \in Nat /\ u = a * k + (u % a)
  BY DivMod
<1>2. j \in Nat /\ w = a * j + (w % a)
  BY DivMod
<1> HIDE DEF k, j
<1>3. u = a * k /\ w = a * j
  BY <1>1, <1>2
<1>4. ~(j < k)
  <2>1. SUFFICES ASSUME j < k PROVE FALSE
    OBVIOUS
  <2>2. a * (j + 1) <= a * k /\ a * (j + 1) = a * j + a
    BY <1>1, <1>2, <2>1
  <2>3. QED
    BY <1>3, <2>2
<1>5. ~(k < j)
  <2>1. SUFFICES ASSUME k < j PROVE FALSE
    OBVIOUS
  <2>2. a * (k + 1) <= a * j /\ a * (k + 1) = a * k + a
    BY <1>1, <1>2, <2>1
  <2>3. QED
    BY <1>3, <2>2
<1>6. k = j
  BY <1>1, <1>2, <1>4, <1>5
<1>7. QED
  BY <1>3, <1>6

-----------------------------------------------------------------------------
(* A set of naturals that is not empty has a least element.                *)
LEMMA LeastNat ==
  ASSUME NEW T \in SUBSET Nat, T # {}
  PROVE  \E m \in T : \A k \in T : m <= k
<1>1. PICK m \in T : \A k \in T : ~(<<k, m>> \in OpToRel(<, Nat))
  BY NatLessThanWellFounded, WFMin
<1>2. \A k \in T : ~(k < m)
  BY <1>1 DEF OpToRel
<1>3. QED
  BY <1>2

(* Induction up to n, for a property given as the set of those that have   *)
(* it.                                                                     *)
LEMMA UpTo ==
  ASSUME NEW T \in SUBSET Nat, 0 \in T, NEW n \in Nat,
         \A i \in 0 .. n - 1 : i \in T => i + 1 \in T
  PROVE  n \in T
<1>1. SUFFICES ASSUME n \notin T PROVE FALSE
  OBVIOUS
<1> DEFINE M == {i \in 0 .. n : i \notin T}
<1>2. M \in SUBSET Nat /\ M # {}
  BY <1>1
<1>3. PICK m \in M : \A k \in M : m <= k
  BY <1>2, LeastNat
<1>4. m # 0 /\ m - 1 \in 0 .. n - 1 /\ m - 1 \notin M
  BY <1>3
<1>5. m - 1 \in T /\ (m - 1) + 1 = m
  BY <1>4, <1>3
<1>6. QED
  BY <1>3, <1>4, <1>5

(* The sizes of the sets of subsets give the powers of two, which the      *)
(* provers do not know.                                                    *)
LEMMA PowerNat ==
  ASSUME NEW n \in Nat
  PROVE  2 ^ n \in Nat /\ Cardinality(SUBSET (1 .. n)) = 2 ^ n
<1>1. IsFiniteSet(1 .. n) /\ Cardinality(1 .. n) = n
  BY FS_Interval
<1>2. QED
  BY <1>1, FS_SUBSET, FS_CardinalityType

LEMMA PowerZero == 2 ^ 0 = 1
OBVIOUS

(* A subset of 1 .. n + 1 is one of 1 .. n, with or without n + 1.         *)
LEMMA PowerStep ==
  ASSUME NEW n \in Nat
  PROVE  2 ^ (n + 1) = 2 * 2 ^ n
<1> DEFINE S == SUBSET (1 .. n)
           T == {X \cup {n + 1} : X \in S}
           f == [X \in S |-> X \cup {n + 1}]
<1>1. IsFiniteSet(S) /\ Cardinality(S) = 2 ^ n /\ 2 ^ n \in Nat
  <2>1. IsFiniteSet(1 .. n)
    BY FS_Interval
  <2>2. QED
    BY <2>1, FS_SUBSET, PowerNat
<1>2. f \in Bijection(S, T)
  <2>1. f \in [S -> T]
    OBVIOUS
  <2>2. \A X, Y \in S : f[X] = f[Y] => X = Y
    <3>1. \A X \in S : X = f[X] \ {n + 1}
      OBVIOUS
    <3>2. QED
      BY <3>1
  <2>3. \A Z \in T : \E X \in S : f[X] = Z
    OBVIOUS
  <2>4. QED
    BY <2>1, <2>2, <2>3 DEF Bijection, Injection, Surjection, IsInjective
<1>3. IsFiniteSet(T) /\ Cardinality(T) = 2 ^ n
  <2>1. ExistsBijection(S, T)
    BY <1>2 DEF ExistsBijection
  <2>2. QED
    BY <1>1, <2>1, FS_Bijection
<1>4. S \cap T = {}
  OBVIOUS
<1>5. SUBSET (1 .. n + 1) = S \cup T
  <2>1. ASSUME NEW Z, Z \in SUBSET (1 .. n + 1)
        PROVE  Z \in S \cup T
    <3>1. CASE n + 1 \notin Z
      BY <2>1, <3>1
    <3>2. CASE n + 1 \in Z
      <4>1. Z \ {n + 1} \in S
        BY <2>1
      <4>2. Z = (Z \ {n + 1}) \cup {n + 1}
        BY <3>2
      <4>3. QED
        BY <4>1, <4>2
    <3>3. QED
      BY <3>1, <3>2
  <2>2. ASSUME NEW Z, Z \in S \cup T
        PROVE  Z \in SUBSET (1 .. n + 1)
    BY <2>2
  <2>3. QED
    BY <2>1, <2>2
<1>6. Cardinality(SUBSET (1 .. n + 1)) = 2 ^ n + 2 ^ n - Cardinality({})
  <2> HIDE DEF S, T
  <2>1. Cardinality(S \cup T)
          = Cardinality(S) + Cardinality(T) - Cardinality(S \cap T)
    BY <1>1, <1>3, FS_Union
  <2>2. QED
    BY <2>1, <1>1, <1>3, <1>4, <1>5
<1>7. Cardinality({}) = 0
  BY FS_EmptySet
<1>8. QED
  <2>1. n + 1 \in Nat
    OBVIOUS
  <2>2. Cardinality(SUBSET (1 .. n + 1)) = 2 ^ (n + 1)
    BY <2>1, PowerNat, Zenon
  <2> DEFINE p == 2 ^ n
             q == 2 ^ (n + 1)
  <2>3. p \in Nat /\ q = p + p - 0
    BY <2>2, <1>1, <1>6, <1>7
  <2> HIDE DEF p, q
  <2>4. q = 2 * p
    BY <2>3
  <2>5. QED
    BY <2>4 DEF p, q
LEMMA PowerPositive ==
  ASSUME NEW n \in Nat
  PROVE  2 ^ n \in Nat \ {0}
<1> DEFINE T == {i \in Nat : 2 ^ i # 0}
<1>1. 0 \in T
  BY PowerZero
<1>2. ASSUME NEW i \in 0 .. n - 1, i \in T
      PROVE  i + 1 \in T
  <2> DEFINE p == 2 ^ i
             q == 2 ^ (i + 1)
  <2>1. i \in Nat /\ i + 1 \in Nat
    OBVIOUS
  <2>2. p \in Nat /\ p # 0 /\ q = 2 * p
    BY <1>2, <2>1, PowerNat, PowerStep
  <2> HIDE DEF p, q
  <2>3. q # 0
    BY <2>2
  <2>4. QED
    BY <2>1, <2>3 DEF q
<1>3. T \in SUBSET Nat
  OBVIOUS
<1> HIDE DEF T
<1>4. n \in T
  BY <1>1, <1>2, <1>3, UpTo
<1>5. QED
  BY <1>4, PowerNat DEF T

(* A larger power of two is an even multiple of a smaller one.             *)
LEMMA PowerSplit ==
  ASSUME NEW k \in Nat, NEW n \in Nat, k < n
  PROVE  \E e \in Nat : 2 ^ n = 2 ^ k * (2 * e)
<1> DEFINE T == {d \in Nat : \E e \in Nat : 2 ^ (k + d + 1) = 2 ^ k * (2 * e)}
           m == n - k - 1
<1>1. m \in Nat /\ k + m + 1 = n
  OBVIOUS
<1>2. 2 ^ k \in Nat /\ 2 ^ (k + 1) = 2 * 2 ^ k
  BY PowerNat, PowerStep
<1>3. 0 \in T
  <2>1. 2 ^ (k + 0 + 1) = 2 ^ k * (2 * 1)
    <3>1. k + 0 + 1 = k + 1
      OBVIOUS
    <3> DEFINE p == 2 ^ k
    <3>2. p \in Nat /\ 2 ^ (k + 0 + 1) = 2 * p
      BY <1>2, <3>1
    <3> HIDE DEF p
    <3>3. 2 ^ (k + 0 + 1) = p * (2 * 1)
      BY <3>2
    <3>4. QED
      BY <3>3 DEF p
  <2>2. QED
    BY <2>1
<1>4. ASSUME NEW i \in 0 .. m - 1, i \in T
      PROVE  i + 1 \in T
  <2>1. i \in Nat /\ k + i + 1 \in Nat /\ k + (i + 1) + 1 = (k + i + 1) + 1
    BY <1>1
  <2>2. PICK e \in Nat : 2 ^ (k + i + 1) = 2 ^ k * (2 * e)
    BY <1>4
  <2> DEFINE p == 2 ^ k
             q == 2 ^ (k + (i + 1) + 1)
  <2>3. q = 2 * (p * (2 * e)) /\ p \in Nat
    BY <2>1, <2>2, <1>2, PowerStep
  <2> HIDE DEF p, q
  <2>4. q = p * (2 * (2 * e)) /\ 2 * e \in Nat
    BY <2>3
  <2>5. \E f \in Nat : q = p * (2 * f)
    BY <2>4
  <2>6. QED
    BY <2>1, <2>5 DEF p, q
<1>5. T \in SUBSET Nat
  OBVIOUS
<1> HIDE DEF T
<1>6. m \in T
  BY <1>1, <1>3, <1>4, <1>5, UpTo
<1>7. QED
  BY <1>1, <1>6 DEF T

(* The bits below n + 1 are those below n and bit n.                       *)
LEMMA LowBits ==
  ASSUME NEW x \in Nat, NEW n \in Nat
  PROVE  /\ Bit(x, n) \in {0, 1}
         /\ x % 2 ^ n \in 0 .. 2 ^ n - 1
         /\ x % 2 ^ (n + 1) = (x % 2 ^ n) + 2 ^ n * Bit(x, n)
<1> DEFINE p == 2 ^ n
           q == x \div p
           r == x % p
           h == q \div 2
           b == q % 2
<1>1. p \in Nat \ {0} /\ 2 ^ (n + 1) = 2 * p
  BY PowerPositive, PowerStep
<1>2. q \in Nat /\ r \in 0 .. p - 1 /\ x = p * q + r
  BY <1>1, DivMod
<1>3. h \in Nat /\ b \in 0 .. 1 /\ q = 2 * h + b
  BY <1>2, DivMod
<1>4. Bit(x, n) = b
  BY DEF Bit
<1>5. r = x % 2 ^ n
  OBVIOUS
<1>6. x % (2 * p) = p * b + r
  <2> HIDE DEF p, q, r, h, b
  <2>1. p * b \in {0, p}
    BY <1>1, <1>3
  <2>2. p * b + r \in 0 .. 2 * p - 1 /\ 2 * p \in Nat \ {0}
    BY <2>1, <1>1, <1>2
  <2>3. p * q = 2 * p * h + p * b
    BY <1>1, <1>2, <1>3
  <2>4. x = (2 * p) * h + (p * b + r)
    BY <1>1, <1>2, <1>3, <2>1, <2>3
  <2> DEFINE a == 2 * p
             s == p * b + r
  <2>5. a \in Nat \ {0} /\ s \in 0 .. a - 1 /\ x = a * h + s
    BY <2>2, <2>4
  <2> HIDE DEF a, s
  <2>6. x % a = s
    BY <2>5, <1>3, DivModUnique
  <2>7. QED
    BY <2>6 DEF a, s
<1>7. p * b \in Nat /\ p * b + r = r + p * b
  <2> HIDE DEF p, q, r, h, b
  <2>1. QED
    BY <1>1, <1>2, <1>3
<1>8. x % 2 ^ (n + 1) = x % (2 * p)
  BY <1>1
<1> HIDE DEF q, r, h, b
<1>9. x % 2 ^ (n + 1) = r + 2 ^ n * b
  BY <1>6, <1>7, <1>8
<1>10. Bit(x, n) \in {0, 1}
  BY <1>3, <1>4
<1>11. QED
  BY <1>2, <1>4, <1>5, <1>9, <1>10

(* Adding a multiple of 2 ^ n changes no bit below n.                      *)
LEMMA BitOfSum ==
  ASSUME NEW n \in Nat, NEW k \in 0 .. n - 1, NEW c \in Nat, NEW r \in Nat
  PROVE  Bit(2 ^ n * c + r, k) = Bit(r, k)
<1> DEFINE p == 2 ^ k
           q == r \div p
           s == r % p
<1>1. k \in Nat /\ k < n /\ p \in Nat \ {0}
  BY PowerPositive
<1>2. PICK e \in Nat : 2 ^ n = p * (2 * e)
  BY <1>1, PowerSplit
<1>3. q \in Nat /\ s \in 0 .. p - 1 /\ r = p * q + s
  BY <1>1, DivMod
<1> DEFINE t == e * c
           w == 2 ^ n * c + r
<1>4. t \in Nat /\ w = (p * (2 * e)) * c + (p * q + s)
  <2>1. w = 2 ^ n * c + r
    OBVIOUS
  <2>2. t \in Nat
    BY <1>2
  <2> HIDE DEF p, q, s, w
  <2>3. QED
    BY <1>2, <1>3, <2>1, <2>2
<1>5. Bit(w, k) = (w \div p) % 2 /\ Bit(r, k) = q % 2
  BY DEF Bit
<1>6. w \div p = 2 * t + q
  <2>1. (p * (2 * e)) * c = p * (2 * t)
    <3>1. t = e * c
      OBVIOUS
    <3> HIDE DEF p, t
    <3>2. QED
      BY <1>1, <3>1
  <2> HIDE DEF p, q, s, t, w
  <2>2. p * (2 * t) + p * q = p * (2 * t + q)
    BY <1>1, <1>3, <1>4
  <2>3. p * (2 * t) \in Nat /\ p * q \in Nat
    BY <1>1, <1>3, <1>4
  <2>4. w = p * (2 * t + q) + s /\ 2 * t + q \in Nat
    BY <1>1, <1>3, <1>4, <2>1, <2>2, <2>3
  <2>5. QED
    BY <2>4, <1>1, <1>3, DivModUnique
<1>7. (2 * t + q) % 2 = q % 2
  <2> HIDE DEF p, q, t
  <2>1. QED
    BY <1>3, <1>4
<1>8. QED
  BY <1>5, <1>6, <1>7

(* The complement of n bits turns each of them over.                       *)
LEMMA BitOfComplement ==
  ASSUME NEW n \in Nat, NEW m \in 0 .. 2 ^ n - 1, NEW k \in 0 .. n - 1
  PROVE  Bit(2 ^ n - 1 - m, k) = 1 - Bit(m, k)
<1> DEFINE p == 2 ^ k
           q == m \div p
           s == m % p
           w == 2 ^ n - 1 - m
<1>1. k \in Nat /\ k < n /\ p \in Nat \ {0} /\ 2 ^ n \in Nat
  BY PowerPositive
<1>2. PICK e \in Nat : 2 ^ n = p * (2 * e)
  BY <1>1, PowerSplit
<1>3. m \in Nat /\ m < 2 ^ n
  BY <1>1
<1>4. q \in Nat /\ s \in 0 .. p - 1 /\ m = p * q + s
  BY <1>1, <1>3, DivMod
<1> DEFINE d == 2 * e - q - 1
<1>5. d \in Nat
  <2>1. SUFFICES ASSUME 2 * e <= q PROVE FALSE
    BY <1>2, <1>4
  <2> HIDE DEF p, q, s
  <2>2. p * (2 * e) <= p * q
    BY <1>1, <1>2, <1>4, <2>1
  <2>3. QED
    BY <1>1, <1>2, <1>3, <1>4, <2>2
<1>6. w = p * d + (p - 1 - s)
  <2>1. w = 2 ^ n - 1 - m /\ d = 2 * e - q - 1
    OBVIOUS
  <2> HIDE DEF p, q, s, w, d
  <2>2. p * d = p * (2 * e) - p * q - p
    BY <1>1, <1>2, <1>4, <2>1
  <2>3. p * (2 * e) \in Nat /\ p * q \in Nat
    BY <1>1, <1>2, <1>4
  <2>4. QED
    BY <1>1, <1>2, <1>4, <2>1, <2>2, <2>3
<1>7. w \div p = d
  <2>1. p - 1 - s \in 0 .. p - 1
    BY <1>1, <1>4
  <2> HIDE DEF p, q, s, w, d
  <2>2. QED
    BY <1>1, <1>5, <1>6, <2>1, DivModUnique
<1>8. Bit(w, k) = d % 2 /\ Bit(m, k) = q % 2
  BY <1>7 DEF Bit
<1>9. d % 2 = 1 - (q % 2)
  <2>1. d = 2 * e - q - 1
    OBVIOUS
  <2> HIDE DEF p, q, d
  <2>2. QED
    BY <1>2, <1>4, <1>5, <2>1
<1>10. QED
  BY <1>8, <1>9

(* Below 2 ^ n all bits of 2 ^ n - 1 are set.                              *)
LEMMA BitOfOnes ==
  ASSUME NEW n \in Nat, NEW k \in 0 .. n - 1
  PROVE  Bit(2 ^ n - 1, k) = 1
<1>1. 2 ^ n \in Nat \ {0} /\ 2 ^ k \in Nat \ {0} /\ k \in Nat
  BY PowerPositive
<1>2. Bit(2 ^ n - 1 - 0, k) = 1 - Bit(0, k)
  BY <1>1, BitOfComplement
<1>3. Bit(0, k) = 0
  <2> DEFINE p == 2 ^ k
  <2>1. p \in Nat \ {0} /\ Bit(0, k) = (0 \div p) % 2
    BY <1>1 DEF Bit
  <2> HIDE DEF p
  <2>2. 0 \div p = 0
    BY <2>1
  <2>3. QED
    BY <2>1, <2>2
<1>4. 2 ^ n - 1 - 0 = 2 ^ n - 1
  BY <1>1
<1>5. QED
  BY <1>2, <1>3, <1>4

(* There is a word of any bits.                                            *)
LEMMA WordOfBits ==
  ASSUME NEW n \in Nat, NEW b \in [0 .. n - 1 -> {0, 1}]
  PROVE  \E z \in 0 .. 2 ^ n - 1 : \A k \in 0 .. n - 1 : Bit(z, k) = b[k]
<1> DEFINE Has(z, i) == \A k \in 0 .. i - 1 : Bit(z, k) = b[k]
           T == {i \in Nat : \E z \in 0 .. 2 ^ i - 1 : Has(z, i)}
<1>1. 0 \in T
  <2>1. 0 \in 0 .. 2 ^ 0 - 1 /\ Has(0, 0)
    BY PowerZero
  <2>2. QED
    BY <2>1
<1>2. ASSUME NEW i \in 0 .. n - 1, i \in T
      PROVE  i + 1 \in T
  <2> DEFINE p == 2 ^ i
  <2>1. i \in Nat /\ p \in Nat \ {0} /\ 2 ^ (i + 1) = 2 * p
    BY PowerPositive, PowerStep
  <2>2. PICK z \in 0 .. p - 1 : Has(z, i)
    BY <1>2
  <2> DEFINE c == b[i]
             w == p * c + z
  <2>3. c \in {0, 1} /\ z \in Nat /\ c \in Nat
    BY <2>1
  <2>4. w \in 0 .. 2 ^ (i + 1) - 1
    <3>1. w = p * c + z
      OBVIOUS
    <3> HIDE DEF p, c, w
    <3>2. p * c \in {0, p}
      BY <2>1, <2>3
    <3>3. QED
      BY <2>1, <2>3, <3>1, <3>2
  <2>5. ASSUME NEW k \in 0 .. (i + 1) - 1
        PROVE  Bit(w, k) = b[k]
    <3>1. CASE k = i
      <4>1. w \div p = c
        <5>1. w = p * c + z
          OBVIOUS
        <5> HIDE DEF p, c, w
        <5>2. QED
          BY <2>1, <2>2, <2>3, <5>1, DivModUnique
      <4>2. c % 2 = c
        <5> HIDE DEF c
        <5>1. QED
          BY <2>3
      <4>3. Bit(w, i) = c
        BY <4>1, <4>2 DEF Bit
      <4>4. QED
        BY <3>1, <4>3
    <3>2. CASE k # i
      <4>1. k \in 0 .. i - 1
        BY <2>1, <3>2
      <4> HIDE DEF c
      <4>2. Bit(2 ^ i * c + z, k) = Bit(z, k)
        <5>1. i \in Nat /\ c \in Nat /\ z \in Nat
          BY <2>1, <2>3
        <5>2. \A d, y \in Nat : Bit(2 ^ i * d + y, k) = Bit(y, k)
          BY <4>1, <5>1, BitOfSum
        <5>3. QED
          BY ONLY <5>1, <5>2
      <4>3. Bit(z, k) = b[k]
        BY <2>2, <4>1
      <4>4. QED
        BY <4>2, <4>3
    <3>3. QED
      BY <3>1, <3>2
  <2>6. Has(w, i + 1)
    BY <2>5
  <2> HIDE DEF Has, w
  <2>7. \E y \in 0 .. 2 ^ (i + 1) - 1 : Has(y, i + 1)
    BY <2>4, <2>6
  <2>8. QED
    BY <2>1, <2>7
<1>3. T \in SUBSET Nat
  OBVIOUS
<1> HIDE DEF T
<1>4. n \in T
  BY <1>1, <1>2, <1>3, UpTo
<1>5. QED
  BY <1>4 DEF T

-----------------------------------------------------------------------------
(* Modulus, Complement and SizeT, as the proofs below use them.            *)
LEMMA WordFacts ==
  /\ Modulus \in Nat \ {0}
  /\ Word = 0 .. 2 ^ WordBits - 1
  /\ WordBits \in Nat
  /\ \A x \in Word : x \in Nat
  /\ \A m \in Word : Complement(m) \in Word
  /\ \A x \in Int : SizeT(x) \in Word
<1>1. WordBits \in Nat
  BY WordAssumption
<1>2. Modulus \in Nat \ {0} /\ Modulus = 2 ^ WordBits
  BY <1>1, PowerPositive DEF Modulus
<1>3. \A x \in Int : x % Modulus \in 0 .. Modulus - 1
  BY <1>2
<1>4. QED
  BY <1>1, <1>2, <1>3 DEF Word, Complement, SizeT

(* And is a word, and each bit of it the product of those it is made from. *)
LEMMA BitOfAnd ==
  ASSUME NEW x \in Word, NEW y \in Word
  PROVE  /\ And(x, y) \in Word
         /\ \A k \in 0 .. WordBits - 1 :
              Bit(And(x, y), k) = Bit(x, k) * Bit(y, k)
<1> DEFINE b == [k \in 0 .. WordBits - 1 |-> Bit(x, k) * Bit(y, k)]
<1>1. b \in [0 .. WordBits - 1 -> {0, 1}]
  <2>1. ASSUME NEW k \in 0 .. WordBits - 1
        PROVE  Bit(x, k) * Bit(y, k) \in {0, 1}
    <3>1. x \in Nat /\ y \in Nat /\ k \in Nat
      BY WordFacts
    <3>2. Bit(x, k) \in {0, 1} /\ Bit(y, k) \in {0, 1}
      BY <3>1, LowBits
    <3>3. QED
      BY <3>2
  <2>2. QED
    BY <2>1
<1>2. \E z \in Word : \A k \in 0 .. WordBits - 1 : Bit(z, k) = b[k]
  BY <1>1, WordFacts, WordOfBits
<1>3. \E z \in Word :
        \A k \in 0 .. WordBits - 1 : Bit(z, k) = Bit(x, k) * Bit(y, k)
  BY <1>2
<1>4. QED
  BY <1>3 DEF And

(* Bit k of what is left of s when the bits of m are cleared.              *)
LEMMA BitOfMasked ==
  ASSUME NEW s \in Word, NEW m \in Word
  PROVE  /\ And(s, Complement(m)) \in Word
         /\ \A k \in 0 .. WordBits - 1 :
              Bit(And(s, Complement(m)), k) = Bit(s, k) * (1 - Bit(m, k))
<1>1. Complement(m) \in Word
  BY WordFacts
<1>2. \A k \in 0 .. WordBits - 1 : Bit(Complement(m), k) = 1 - Bit(m, k)
  <2>1. SUFFICES ASSUME NEW k \in 0 .. WordBits - 1
                 PROVE  Bit(Complement(m), k) = 1 - Bit(m, k)
    OBVIOUS
  <2>2. Complement(m) = 2 ^ WordBits - 1 - m
    BY DEF Complement, Modulus
  <2>3. m \in 0 .. 2 ^ WordBits - 1 /\ WordBits \in Nat
    BY WordFacts
  <2>4. QED
    BY <2>2, <2>3, BitOfComplement
<1>3. QED
  BY <1>1, <1>2, BitOfAnd

(* Clearing bits makes a word smaller, by the word of these bits at most.  *)
LEMMA MaskedBounds ==
  ASSUME NEW s \in Word, NEW m \in Word
  PROVE  /\ And(s, Complement(m)) <= s
         /\ s - m <= And(s, Complement(m))
<1> DEFINE z == And(s, Complement(m))
           Low(x, i) == x % 2 ^ i
           T == {i \in Nat : /\ Low(z, i) <= Low(s, i)
                             /\ Low(s, i) - Low(m, i) <= Low(z, i)}
<1>1. z \in Word /\ z \in Nat /\ s \in Nat /\ m \in Nat
  <2>1. z \in Word
    BY BitOfMasked
  <2> HIDE DEF z
  <2>2. z \in Nat /\ s \in Nat /\ m \in Nat
    BY <2>1, WordFacts
  <2>3. QED
    BY <2>1, <2>2
<1>2. 0 \in T
  <2>1. \A x \in Nat : x % 1 = 0
    OBVIOUS
  <2>2. Low(z, 0) = 0 /\ Low(s, 0) = 0 /\ Low(m, 0) = 0
    BY <1>1, <2>1, PowerZero
  <2>3. QED
    BY <2>2
<1>3. ASSUME NEW i \in 0 .. WordBits - 1, i \in T
      PROVE  i + 1 \in T
  <2>1. i \in Nat /\ WordBits \in Nat
    BY WordFacts
  <2> DEFINE p == 2 ^ i
             bz == Bit(z, i)
             bs == Bit(s, i)
             bm == Bit(m, i)
  <2>2. p \in Nat
    BY <2>1, PowerPositive
  <2>3. bz = bs * (1 - bm)
    BY BitOfMasked
  <2>4. bs \in {0, 1} /\ bm \in {0, 1}
    BY <1>1, <2>1, LowBits
  <2>5. Low(z, i) \in Nat /\ Low(z, i + 1) = Low(z, i) + p * bz
    BY <1>1, <2>1, <2>2, LowBits
  <2>6. Low(s, i) \in Nat /\ Low(s, i + 1) = Low(s, i) + p * bs
    BY <1>1, <2>1, <2>2, LowBits
  <2>7. Low(m, i) \in Nat /\ Low(m, i + 1) = Low(m, i) + p * bm
    BY <1>1, <2>1, <2>2, LowBits
  <2>8. Low(z, i) <= Low(s, i) /\ Low(s, i) - Low(m, i) <= Low(z, i)
    BY <1>3
  <2> HIDE DEF Low, p, bz, bs, bm, z
  <2>9. p * bs \in {0, p} /\ p * bm \in {0, p} /\ p * bz \in {0, p}
    BY <2>2, <2>3, <2>4
  <2>10. p * bz <= p * bs /\ p * bs - p * bm <= p * bz
    BY <2>2, <2>3, <2>4
  <2>11. /\ Low(z, i + 1) <= Low(s, i + 1)
         /\ Low(s, i + 1) - Low(m, i + 1) <= Low(z, i + 1)
    BY <2>2, <2>5, <2>6, <2>7, <2>8, <2>9, <2>10
  <2>12. QED
    BY <2>1, <2>11
<1>4. T \in SUBSET Nat
  OBVIOUS
<1>5. WordBits \in T
  <2> HIDE DEF T
  <2>1. QED
    BY <1>2, <1>3, <1>4, WordFacts, UpTo
<1>6. ASSUME NEW x \in Word
      PROVE  x % 2 ^ WordBits = x
  <2>1. x \in 0 .. 2 ^ WordBits - 1 /\ 2 ^ WordBits \in Nat \ {0}
    BY WordFacts, PowerPositive
  <2> DEFINE p == 2 ^ WordBits
  <2> HIDE DEF p
  <2>2. x \in 0 .. p - 1 /\ p \in Nat \ {0}
    BY <2>1 DEF p
  <2>3. x % p = x
    BY <2>2
  <2>4. QED
    BY <2>3 DEF p
<1>7. QED
  <2>1. z % 2 ^ WordBits = z /\ s % 2 ^ WordBits = s /\ m % 2 ^ WordBits = m
    BY <1>1, <1>6
  <2>2. QED
    BY <1>5, <2>1

(* What is left is a multiple of 2 ^ n when each bit below n is not set or *)
(* cleared.                                                                *)
LEMMA MaskedMultiple ==
  ASSUME NEW s \in Word, NEW m \in Word, NEW n \in 0 .. WordBits,
         \A k \in 0 .. n - 1 : Bit(s, k) = 0 \/ Bit(m, k) = 1
  PROVE  And(s, Complement(m)) % 2 ^ n = 0
<1> DEFINE z == And(s, Complement(m))
           T == {i \in Nat : z % 2 ^ i = 0}
<1>1. z \in Nat /\ n \in Nat /\ WordBits \in Nat /\ s \in Nat /\ m \in Nat
  <2>1. z \in Word
    BY BitOfMasked
  <2> HIDE DEF z
  <2>2. z \in Nat /\ s \in Nat /\ m \in Nat
    BY <2>1, WordFacts
  <2>3. WordBits \in Nat /\ n \in Nat
    BY WordFacts
  <2>4. QED
    BY <2>2, <2>3
<1>2. 0 \in T
  <2>1. z % 1 = 0
    BY <1>1
  <2>2. QED
    BY <2>1, PowerZero
<1>3. ASSUME NEW i \in 0 .. n - 1, i \in T
      PROVE  i + 1 \in T
  <2>1. i \in Nat /\ i \in 0 .. WordBits - 1
    BY <1>1
  <2>2. Bit(z, i) = Bit(s, i) * (1 - Bit(m, i))
    BY <2>1, BitOfMasked
  <2>3. Bit(s, i) \in {0, 1} /\ Bit(m, i) \in {0, 1}
    BY <1>1, <2>1, LowBits
  <2>4. Bit(z, i) = 0
    BY <2>2, <2>3
  <2> DEFINE p == 2 ^ i
  <2>5. p \in Nat /\ z % 2 ^ (i + 1) = (z % 2 ^ i) + p * 0
    BY <1>1, <2>1, <2>4, LowBits, PowerPositive
  <2> HIDE DEF p
  <2>6. p * 0 = 0
    BY <2>5
  <2>7. z % 2 ^ (i + 1) = 0
    BY <1>3, <2>5, <2>6
  <2>8. QED
    BY <2>1, <2>7
<1>4. T \in SUBSET Nat
  OBVIOUS
<1> HIDE DEF T
<1>5. n \in T
  BY <1>1, <1>2, <1>3, <1>4, UpTo
<1>6. QED
  BY <1>5 DEF T

-----------------------------------------------------------------------------
(* The operands of the macro's &: the sum wraps around at most once.       *)
LEMMA Operands ==
  ASSUME NEW v \in Word, NEW a \in Word
  PROVE  /\ SizeT(v + a - 1) \in Word
         /\ SizeT(a - 1) \in Word
         /\ a # 0 => SizeT(a - 1) = a - 1
         /\ a # 0 /\ v + a - 1 < Modulus => SizeT(v + a - 1) = v + a - 1
         /\ v + a - 1 >= Modulus => SizeT(v + a - 1) = v + a - 1 - Modulus
         /\ \/ v + SizeT(a - 1) = SizeT(v + a - 1)
            \/ v + SizeT(a - 1) = Modulus * 1 + SizeT(v + a - 1)
<1>1. Modulus \in Nat \ {0} /\ v \in 0 .. Modulus - 1 /\ a \in 0 .. Modulus - 1
  BY WordFacts DEF Word
<1>2. SizeT(v + a - 1) \in Word /\ SizeT(a - 1) \in Word
  <2>1. v + a - 1 \in Int /\ a - 1 \in Int
    BY <1>1
  <2>2. QED
    BY <2>1, WordFacts
<1> DEFINE M == Modulus
<1>3. \A x \in Int : /\ x \in 0 .. M - 1 => x % M = x
                     /\ x \in M .. 2 * M - 1 => x % M = x - M
                     /\ x = -1 => x % M = M - 1
  <2> HIDE DEF M
  <2>1. M \in Nat \ {0}
    BY <1>1 DEF M
  <2>2. ASSUME NEW x \in Int, x \in M .. 2 * M - 1
        PROVE  x % M = x - M
    <3>1. x - M \in 0 .. M - 1 /\ x = M * 1 + (x - M)
      BY <2>1, <2>2
    <3>2. QED
      BY <2>1, <3>1, DivModUnique
  <2>3. (-1) % M = M - 1
    BY <2>1
  <2>4. QED
    BY <2>1, <2>2, <2>3
<1>4. a # 0 => SizeT(a - 1) = a - 1
  BY <1>1, <1>3 DEF SizeT
<1>5. a = 0 => SizeT(a - 1) = M - 1
  BY <1>1, <1>3 DEF SizeT
<1>6. v + a - 1 \in 0 .. M - 1 => SizeT(v + a - 1) = v + a - 1
  BY <1>1, <1>3 DEF SizeT
<1>7. v + a - 1 \in M .. 2 * M - 1 => SizeT(v + a - 1) = v + a - 1 - M
  BY <1>1, <1>3 DEF SizeT
<1>8. v + a - 1 = -1 => SizeT(v + a - 1) = M - 1
  BY <1>1, <1>3 DEF SizeT
<1> HIDE DEF M
<1>9. M \in Nat \ {0} /\ v \in 0 .. M - 1 /\ a \in 0 .. M - 1
  BY <1>1 DEF M
<1> DEFINE s == SizeT(v + a - 1)
           m == SizeT(a - 1)
<1> HIDE DEF s, m
<1>10. \/ v + m = s
       \/ v + m = M * 1 + s
  BY <1>4, <1>5, <1>6, <1>7, <1>8, <1>9 DEF s, m
<1>11. a # 0 /\ v + a - 1 < M => v + a - 1 \in 0 .. M - 1
  BY <1>9
<1>12. v + a - 1 >= M => v + a - 1 \in M .. 2 * M - 1
  BY <1>9
<1>13. QED
  BY <1>2, <1>4, <1>6, <1>7, <1>10, <1>11, <1>12 DEF M, s, m

(* A power of two that divides the value or the alignment divides the      *)
(* result: below it, either the mask clears every bit, or the bits of the  *)
(* sum are those that the mask clears.                                     *)
LEMMA ResultMultiple ==
  ASSUME NEW v \in Word, NEW a \in Word, NEW n \in 0 .. WordBits,
         v % 2 ^ n = 0 \/ (a # 0 /\ a % 2 ^ n = 0)
  PROVE  CMLIB_DETAILS_ALIGN(v, a) % 2 ^ n = 0
<1> DEFINE s == SizeT(v + a - 1)
           m == SizeT(a - 1)
           p == 2 ^ n
<1>1. s \in Word /\ m \in Word
  BY Operands
<1>2. n \in Nat /\ WordBits \in Nat /\ p \in Nat \ {0}
  <2>1. WordBits \in Nat
    BY WordFacts
  <2>2. QED
    BY <2>1, PowerPositive
<1>3. v \in Nat /\ a \in Nat /\ s \in Nat /\ m \in Nat
  BY <1>1, WordFacts
<1>4. ASSUME NEW k \in 0 .. n - 1
      PROVE  Bit(s, k) = 0 \/ Bit(m, k) = 1
  <2>0. k \in Nat /\ k \in 0 .. WordBits - 1
    BY <1>2
  <2>1. CASE v % p = 0
    <3> DEFINE c == v \div p
    <3>1. c \in Nat /\ v = p * c + (v % p)
      BY <1>2, <1>3, DivMod
    <3> HIDE DEF c
    <3>2. v + m = p * c + m
      <4> HIDE DEF p, m
      <4>1. QED
        BY <1>2, <1>3, <2>1, <3>1
    <3>3. \A d, y \in Nat : Bit(2 ^ n * d + y, k) = Bit(y, k)
      BY <1>2, BitOfSum
    <3>4. Bit(2 ^ n * c + m, k) = Bit(m, k)
      BY ONLY <3>1, <1>3, <3>3
    <3>5. \A y \in Nat : Bit(2 ^ WordBits * 1 + y, k) = Bit(y, k)
      BY <1>2, <2>0, BitOfSum
    <3>6. Bit(2 ^ WordBits * 1 + s, k) = Bit(s, k)
      BY ONLY <1>3, <3>5
    <3>7. v + m = s \/ v + m = 2 ^ WordBits * 1 + s
      BY Operands DEF Modulus
    <3>8. Bit(s, k) = Bit(m, k)
      BY <3>2, <3>4, <3>6, <3>7
    <3>9. Bit(m, k) \in {0, 1}
      BY <1>3, <2>0, LowBits
    <3>10. QED
      BY <3>8, <3>9
  <2>2. CASE a # 0 /\ a % p = 0
    <3> DEFINE q == a \div p
    <3>1. q \in Nat /\ a = p * q + (a % p)
      BY <1>2, <1>3, DivMod
    <3> HIDE DEF q
    <3>2. m = a - 1
      BY <2>2, Operands
    <3> DEFINE d == q - 1
               y == p - 1
    <3>3. q # 0
      <4> HIDE DEF p
      <4>1. QED
        BY <1>2, <1>3, <2>2, <3>1
    <3>4. d \in Nat /\ y \in Nat
      BY <1>2, <3>1, <3>3
    <3>5. m = p * d + y
      <4>1. d = q - 1 /\ y = p - 1
        OBVIOUS
      <4> HIDE DEF p, m, d, y
      <4>2. p * d = p * q - p
        BY <1>2, <3>1, <4>1
      <4>3. QED
        BY <1>2, <1>3, <2>2, <3>1, <3>2, <4>1, <4>2
    <3> HIDE DEF d, y
    <3>6. \A b, z \in Nat : Bit(2 ^ n * b + z, k) = Bit(z, k)
      BY <1>2, BitOfSum
    <3>7. Bit(2 ^ n * d + y, k) = Bit(y, k)
      BY ONLY <3>4, <3>6
    <3>8. Bit(2 ^ n - 1, k) = 1
      BY <1>2, BitOfOnes
    <3>9. QED
      BY <3>5, <3>7, <3>8 DEF y
  <2>3. QED
    BY <2>1, <2>2
<1>5. And(s, Complement(m)) % 2 ^ n = 0
  <2> HIDE DEF s, m
  <2>1. QED
    BY <1>1, <1>4, MaskedMultiple
<1>6. QED
  BY <1>5 DEF CMLIB_DETAILS_ALIGN

(* The result lies between the sum without the mask and the sum.           *)
LEMMA ResultBounds ==
  ASSUME NEW v \in Word, NEW a \in Word
  PROVE  /\ CMLIB_DETAILS_ALIGN(v, a) \in Word
         /\ CMLIB_DETAILS_ALIGN(v, a) <= SizeT(v + a - 1)
         /\ SizeT(v + a - 1) - SizeT(a - 1) <= CMLIB_DETAILS_ALIGN(v, a)
<1> DEFINE s == SizeT(v + a - 1)
           m == SizeT(a - 1)
<1>1. s \in Word /\ m \in Word
  BY Operands
<1>2. CMLIB_DETAILS_ALIGN(v, a) = And(s, Complement(m))
  BY DEF CMLIB_DETAILS_ALIGN
<1> HIDE DEF s, m
<1>3. And(s, Complement(m)) \in Word
  BY <1>1, BitOfMasked
<1>4. And(s, Complement(m)) <= s /\ s - m <= And(s, Complement(m))
  BY <1>1, MaskedBounds
<1>5. QED
  BY <1>2, <1>3, <1>4 DEF s, m

-----------------------------------------------------------------------------
(* For a power of two the macro's result and AlignUp's are multiples of it *)
(* and less than it apart; or the sum wraps and both are 0.                *)
LEMMA MacroIsAlignUp ==
  ASSUME NEW v \in Word, NEW a \in PowersOfTwo
  PROVE  CMLIB_DETAILS_ALIGN(v, a) = SizeT(AlignUp(v, a))
<1>1. PICK n \in 0 .. WordBits - 1 : a = 2 ^ n
  BY DEF PowersOfTwo
<1>2. n \in Nat /\ n \in 0 .. WordBits /\ WordBits \in Nat /\ n < WordBits
  <2>1. WordBits \in Nat
    BY WordFacts
  <2>2. QED
    BY <2>1
<1>3. PICK e \in Nat : Modulus = a * (2 * e)
  BY <1>1, <1>2, PowerSplit DEF Modulus
<1>4. a \in Nat \ {0} /\ Modulus \in Nat \ {0}
  BY <1>1, <1>2, PowerPositive, WordFacts
<1>5. Modulus % a = 0 /\ a < Modulus
  <2> DEFINE M == Modulus
             f == 2 * e
  <2>1. M = a * f /\ M \in Nat \ {0} /\ f \in Nat /\ f = 2 * e
    BY <1>3, <1>4
  <2> HIDE DEF M, f
  <2>2. M % a = 0
    BY <1>4, <2>1, MultipleMod
  <2>3. f >= 2
    <3>1. SUFFICES ASSUME f = 0 PROVE FALSE
      BY <1>3, <2>1
    <3>2. QED
      BY <1>4, <2>1, <3>1
  <2>4. a * f >= a * 2
    BY <1>4, <2>1, <2>3
  <2>5. a < M
    BY <1>4, <2>1, <2>4
  <2>6. QED
    BY <2>2, <2>5 DEF M
<1>6. a \in Word /\ v \in 0 .. Modulus - 1
  BY <1>4, <1>5 DEF Word
<1> DEFINE M == Modulus
           s == SizeT(v + a - 1)
           z == CMLIB_DETAILS_ALIGN(v, a)
           u == AlignUp(v, a)
<1>7. /\ z <= s
      /\ s - SizeT(a - 1) <= z
      /\ SizeT(a - 1) = a - 1
      /\ v + a - 1 < M => s = v + a - 1
      /\ v + a - 1 >= M => s = v + a - 1 - M
  <2>1. z <= s /\ s - SizeT(a - 1) <= z
    BY <1>6, ResultBounds
  <2>2. QED
    BY <1>4, <1>6, <2>1, Operands
<1>8. z \in Nat
  BY <1>6, ResultBounds, WordFacts
<1>9. z % a = 0
  <2>1. a % 2 ^ n = 0
    <3> HIDE DEF u
    <3>1. a % a = 0
      BY <1>4
    <3>2. QED
      BY <1>1, <3>1
  <2>2. z % 2 ^ n = 0
    BY <1>2, <1>4, <1>6, <2>1, ResultMultiple
  <2>3. QED
    BY <1>1, <2>2
<1>10. u \in v .. v + a - 1 /\ u % a = 0
  BY <1>4, <1>6, AlignUpBounds, AlignUpAligned
<1>11. \A w \in Nat : v <= w /\ w % a = 0 => u <= w
  BY <1>4, <1>6, AlignUpLeast
<1>12. M \in Nat \ {0} /\ M % a = 0 /\ a < M /\ v \in 0 .. M - 1
  BY <1>4, <1>5, <1>6
<1>13. SizeT(u) = u % M
  BY DEF SizeT
<1> HIDE DEF M, s, z, u
<1>14. CASE v + a - 1 < M
  <2>1. v <= z /\ z <= v + a - 1
    BY <1>4, <1>7, <1>8, <1>12, <1>14
  <2>2. u <= z
    BY <1>8, <1>9, <1>11, <2>1
  <2>3. z < u + a
    BY <1>4, <1>8, <1>10, <1>12, <2>1
  <2>4. z = u
    <3>1. u \in Nat /\ u % a = 0
      BY <1>4, <1>10, <1>12
    <3>2. QED
      BY ONLY <1>4, <1>8, <1>9, <2>2, <2>3, <3>1, NextMultiple
  <2>5. u \in 0 .. M - 1
    BY <1>4, <1>10, <1>12, <1>14
  <2>6. u % M = u
    BY <1>12, <2>5
  <2>7. QED
    BY <1>13, <2>4, <2>6 DEF z, u
<1>15. CASE v + a - 1 >= M
  <2>1. z < a
    BY <1>4, <1>7, <1>8, <1>12, <1>15
  <2>2. z = 0
    <3>1. z % a = z
      BY <1>4, <1>8, <2>1
    <3>2. QED
      BY <1>9, <3>1
  <2>3. u <= M
    BY <1>11, <1>12
  <2>4. M < u + a
    BY <1>4, <1>10, <1>12, <1>15
  <2>5. u = M
    <3>1. u \in Nat /\ u % a = 0 /\ M \in Nat /\ M % a = 0
      BY <1>4, <1>10, <1>12
    <3>2. QED
      BY ONLY <1>4, <2>3, <2>4, <3>1, NextMultiple
  <2>6. u % M = 0
    BY <1>12, <2>5
  <2>7. QED
    BY <1>13, <2>2, <2>6 DEF z, u
<1>16. QED
  BY <1>4, <1>12, <1>14, <1>15

(* The value and the alignment are words.                                  *)
WordInv == value \in Word /\ alignment \in Word

LEMMA WordInvariance == Spec => []WordInv
<1>1. Init => WordInv
  BY DEF Init, WordInv
<1>2. WordInv /\ [Next]_vars => WordInv'
  BY DEF WordInv, Next, vars
<1>3. QED
  BY <1>1, <1>2, PTL DEF Spec

(* At every word size, 64 bits included, the macro of Allocator.h is the   *)
(* AlignUp that the allocators are specified with, for every alignment     *)
(* that is a power of two.                                                 *)
THEOREM MacroAgrees == Spec => []AgreesWithAlignUp
<1>1. WordInv => AgreesWithAlignUp
  BY MacroIsAlignUp DEF WordInv, AgreesWithAlignUp, Result
<1>2. QED
  BY <1>1, WordInvariance, PTL

(* With any alignment the macro never cuts a size short, adds less than    *)
(* the alignment, and keeps every power of two that divides one of its     *)
(* operands.                                                               *)
THEOREM MacroSafe == Spec => []SafeForAnyAlignment
<1>1. ASSUME WordInv, alignment # 0, ~Wraps
      PROVE  Result \in value .. value + alignment - 1
  <2> DEFINE s == SizeT(value + alignment - 1)
             m == SizeT(alignment - 1)
  <2>1. /\ value \in Word /\ value \in Nat
        /\ alignment \in Word /\ alignment \in Nat
    BY <1>1, WordFacts DEF WordInv
  <2>2. value + alignment - 1 < Modulus
    BY <1>1, <2>1, WordFacts DEF Wraps
  <2>3. m = alignment - 1 /\ s = value + alignment - 1
    BY <1>1, <2>1, <2>2, Operands
  <2>4. Result \in Word /\ Result <= s /\ s - m <= Result
    BY <2>1, ResultBounds DEF Result
  <2>5. Result \in Nat
    BY <2>4, WordFacts
  <2> HIDE DEF s, m
  <2>6. QED
    BY <2>1, <2>3, <2>4, <2>5
<1>2. ASSUME WordInv, NEW d \in PowersOfTwo,
             value % d = 0 \/ (alignment # 0 /\ alignment % d = 0)
      PROVE  Result % d = 0
  <2>1. PICK n \in 0 .. WordBits - 1 : d = 2 ^ n
    BY DEF PowersOfTwo
  <2>2. n \in 0 .. WordBits
    <3>1. WordBits \in Nat
      BY WordFacts
    <3>2. QED
      BY <3>1
  <2>3. value \in Word /\ alignment \in Word
    BY <1>2 DEF WordInv
  <2>4. Result % 2 ^ n = 0
    BY <1>2, <2>1, <2>2, <2>3, ResultMultiple DEF Result
  <2>5. QED
    BY <2>1, <2>4
<1>3. WordInv => SafeForAnyAlignment
  BY <1>1, <1>2 DEF SafeForAnyAlignment
<1>4. QED
  BY <1>3, WordInvariance, PTL
====
