-------------------------- MODULE ReplaceAllProofs --------------------------
(***************************************************************************)
(* Theorems about ReplaceAll, for texts of any length.                     *)
(*                                                                         *)
(* What the two loops are compared with is one function, Rest: Rest[i] is  *)
(* the text from position i on with its occurrences replaced, of which     *)
(* Replaced is the value at 1.  The first loop jumps from occurrence to    *)
(* occurrence and its count accounts for the difference in length between  *)
(* Rest[1] and Rest behind the place it is at; the second loop goes from   *)
(* character to character, and what it wrote with Rest from its place on   *)
(* makes Rest[1].                                                          *)
(***************************************************************************)
EXTENDS ReplaceAll, SequenceTheorems, WellFoundedInduction, TLAPS

Str == Seq(Chars)

Rest(x, f, t) ==
  LET rest[i \in 1 .. Len(x) + 1] ==
        IF i > Len(x) THEN <<>>
        ELSE IF OccursAt(x, f, i) THEN t \o rest[i + Len(f)]
        ELSE <<x[i]>> \o rest[i + 1]
  IN  rest

(* The value of Rest at i, if its values are those of g. *)
Value(x, f, t, g, i) ==
  IF i > Len(x) THEN <<>>
  ELSE IF OccursAt(x, f, i) THEN t \o g[i + Len(f)]
  ELSE <<x[i]>> \o g[i + 1]

-----------------------------------------------------------------------------
(* Rest exists: there is no smallest suffix on which it does not.          *)

LEMMA LeastNat ==
  ASSUME NEW T \in SUBSET Nat, T # {}
  PROVE  \E m \in T : \A k \in T : m <= k
<1>1. PICK m \in T : \A k \in T : ~(<<k, m>> \in OpToRel(<, Nat))
  BY NatLessThanWellFounded, WFMin
<1>2. \A k \in T : ~(k < m)
  BY <1>1 DEF OpToRel
<1>3. QED
  BY <1>2

(* An occurrence lies within the text. *)
LEMMA OccurrenceWithin ==
  ASSUME NEW x \in Str, NEW f \in Str, f # <<>>,
         NEW i \in 1 .. Len(x) + 1, OccursAt(x, f, i)
  PROVE  i <= Len(x) /\ i + Len(f) \in i + 1 .. Len(x) + 1
<1>1. Len(x) \in Nat /\ Len(f) \in Nat /\ Len(f) # 0
  BY DEF Str
<1>2. Len(f) <= Len(SubSeq(x, i, Len(x)))
  BY DEF OccursAt, IsPrefix
<1>3. Len(SubSeq(x, i, Len(x))) = Len(x) - i + 1
  BY <1>1 DEF Str
<1>4. QED
  BY <1>1, <1>2, <1>3

(* Each value depends on later ones only, ... *)
LEMMA ValueOfLater ==
  ASSUME NEW x \in Str, NEW f \in Str, f # <<>>, NEW t,
         NEW g, NEW h, NEW i \in 1 .. Len(x) + 1,
         \A j \in i + 1 .. Len(x) + 1 : g[j] = h[j]
  PROVE  Value(x, f, t, g, i) = Value(x, f, t, h, i)
<1>1. Len(x) \in Nat /\ i \in Nat
  BY DEF Str
<1>2. CASE i > Len(x)
  BY <1>2 DEF Value
<1>3. CASE i <= Len(x)
  <2>1. i + 1 \in i + 1 .. Len(x) + 1
    BY <1>1, <1>3
  <2>2. OccursAt(x, f, i) => i + Len(f) \in i + 1 .. Len(x) + 1
    BY OccurrenceWithin
  <2>3. g[i + 1] = h[i + 1] /\ (OccursAt(x, f, i) => g[i + Len(f)] = h[i + Len(f)])
    BY <2>1, <2>2
  <2>4. QED
    BY <2>3 DEF Value
<1>4. QED
  BY <1>1, <1>2, <1>3

(* ... and is a text if they are. *)
LEMMA ValueIsText ==
  ASSUME NEW x \in Str, NEW f \in Str, f # <<>>, NEW t \in Str,
         NEW g, NEW i \in 1 .. Len(x) + 1,
         \A j \in i + 1 .. Len(x) + 1 : g[j] \in Str
  PROVE  Value(x, f, t, g, i) \in Str
<1>1. Len(x) \in Nat /\ i \in Nat /\ <<>> \in Str
  BY DEF Str
<1>2. CASE i > Len(x)
  BY <1>1, <1>2 DEF Value
<1>3. CASE i <= Len(x) /\ OccursAt(x, f, i)
  <2>1. g[i + Len(f)] \in Str
    BY OccurrenceWithin, <1>3
  <2>2. t \o g[i + Len(f)] \in Str
    BY <2>1 DEF Str
  <2>3. QED
    BY <1>1, <1>3, <2>2 DEF Value
<1>4. CASE i <= Len(x) /\ ~OccursAt(x, f, i)
  <2>1. i + 1 \in i + 1 .. Len(x) + 1 /\ i \in 1 .. Len(x)
    BY <1>1, <1>4
  <2>2. g[i + 1] \in Str /\ <<x[i]>> \in Str
    BY <2>1 DEF Str
  <2>3. <<x[i]>> \o g[i + 1] \in Str
    BY <2>2 DEF Str
  <2>4. QED
    BY <1>1, <1>4, <2>3 DEF Value
<1>5. QED
  BY <1>1, <1>2, <1>3, <1>4

(* A function on the positions from a on whose values are those of Rest. *)
From(x, f, t, g, a) == g = [i \in a .. Len(x) + 1 |-> Value(x, f, t, g, i)]

LEMMA FromEnd ==
  ASSUME NEW x \in Str, NEW f, NEW t
  PROVE  \E g : From(x, f, t, g, Len(x) + 1)
<1> DEFINE e == Len(x) + 1
           g == [i \in e .. e |-> <<>>]
<1>1. Len(x) \in Nat
  BY DEF Str
<1>2. ASSUME NEW i \in e .. e
      PROVE  Value(x, f, t, g, i) = <<>>
  BY <1>1 DEF Value
<1>3. g = [i \in e .. e |-> Value(x, f, t, g, i)]
  BY <1>2
<1>4. From(x, f, t, g, e)
  BY <1>3 DEF From
<1>5. QED
  BY <1>4

LEMMA FromBefore ==
  ASSUME NEW x \in Str, NEW f \in Str, f # <<>>, NEW t,
         NEW a \in 1 .. Len(x), NEW g, From(x, f, t, g, a + 1)
  PROVE  \E h : From(x, f, t, h, a)
<1> DEFINE L == Len(x)
           h == [i \in a .. L + 1 |-> IF i = a THEN Value(x, f, t, g, a) ELSE g[i]]
<1>1. L \in Nat /\ a \in Nat
  BY DEF Str
<1>2. \A j \in a + 1 .. L + 1 : h[j] = g[j]
  BY <1>1
<1>3. ASSUME NEW i \in a .. L + 1
      PROVE  h[i] = Value(x, f, t, h, i)
  <2>1. i \in 1 .. L + 1 /\ \A j \in i + 1 .. L + 1 : j \in a + 1 .. L + 1
    BY <1>1
  <2>2. \A j \in i + 1 .. L + 1 : g[j] = h[j]
    BY <1>2, <2>1
  <2> HIDE DEF h
  <2>3. Value(x, f, t, g, i) = Value(x, f, t, h, i)
    BY <2>1, <2>2, ValueOfLater
  <2>4. CASE i = a
    BY <2>3, <2>4 DEF h
  <2>5. CASE i # a
    <3>1. i \in a + 1 .. L + 1
      BY <1>1, <2>5
    <3>2. g[i] = Value(x, f, t, g, i)
      BY <3>1 DEF From
    <3>3. QED
      BY <1>2, <2>3, <3>1, <3>2
  <2>6. QED
    BY <2>4, <2>5
<1>4. h = [i \in a .. L + 1 |-> h[i]]
  OBVIOUS
<1> HIDE DEF h
<1>5. h = [i \in a .. L + 1 |-> Value(x, f, t, h, i)]
  BY <1>3, <1>4
<1>6. QED
  BY <1>5 DEF From

LEMMA FromStart ==
  ASSUME NEW x \in Str, NEW f \in Str, f # <<>>, NEW t
  PROVE  \E g : From(x, f, t, g, 1)
<1> DEFINE L == Len(x)
           Exists(a) == \E g : From(x, f, t, g, a)
           T == {n \in 0 .. L : ~Exists(L + 1 - n)}
<1>1. L \in Nat
  BY DEF Str
<1>2. ~Exists(1) => L \in T
  BY <1>1
<1>3. T \in SUBSET Nat
  BY <1>1
<1>4. T # {} => FALSE
  <2> SUFFICES ASSUME T # {} PROVE FALSE
    OBVIOUS
  <2>1. PICK n \in T : \A k \in T : n <= k
    <3> HIDE DEF T
    <3>1. QED
      BY <1>3, LeastNat
  <2>2. n \in 0 .. L /\ ~Exists(L + 1 - n)
    BY <2>1
  <2>3. CASE n = 0
    <3>1. L + 1 - n = L + 1
      BY <1>1, <2>3
    <3>2. Exists(L + 1)
      BY FromEnd
    <3>3. QED
      BY <2>2, <3>1, <3>2
  <2>4. CASE n # 0
    <3> DEFINE a == L + 1 - n
    <3>1. a \in 1 .. L /\ n - 1 \in 0 .. L /\ L + 1 - (n - 1) = a + 1 /\ ~(n <= n - 1)
      BY <1>1, <2>2, <2>4
    <3>2. n - 1 \notin T
      BY <2>1, <3>1
    <3>3. Exists(a + 1)
      BY <3>1, <3>2
    <3> HIDE DEF a
    <3>4. Exists(a)
      BY <3>1, <3>3, FromBefore
    <3>5. QED
      BY <2>2, <3>4 DEF a
  <2>5. QED
    BY <2>3, <2>4
<1>5. QED
  BY <1>2, <1>4

(* The values of Rest. *)
LEMMA RestValues ==
  ASSUME NEW x \in Str, NEW f \in Str, f # <<>>, NEW t
  PROVE  /\ Replaced(x, f, t) = Rest(x, f, t)[1]
         /\ \A i \in 1 .. Len(x) + 1 :
              Rest(x, f, t)[i] = Value(x, f, t, Rest(x, f, t), i)
<1> DEFINE r == Rest(x, f, t)
<1>1. Replaced(x, f, t) = r[1]
  BY DEF Replaced, Rest
<1>2. r = CHOOSE g : From(x, f, t, g, 1)
  BY DEF Rest, From, Value
<1>3. From(x, f, t, r, 1)
  BY <1>2, FromStart
<1> HIDE DEF r
<1>4. \A i \in 1 .. Len(x) + 1 : r[i] = Value(x, f, t, r, i)
  BY <1>3 DEF From
<1>5. QED
  BY <1>1, <1>4 DEF r


LEMMA RestIsText ==
  ASSUME NEW x \in Str, NEW f \in Str, f # <<>>, NEW t \in Str
  PROVE  \A i \in 1 .. Len(x) + 1 : Rest(x, f, t)[i] \in Str
<1> DEFINE L == Len(x)
           r == Rest(x, f, t)
           T == {n \in 0 .. L : r[L + 1 - n] \notin Str}
<1>1. L \in Nat
  BY DEF Str
<1>2. \A i \in 1 .. L + 1 : r[i] = Value(x, f, t, r, i)
  BY RestValues
<1> HIDE DEF r
<1>3. T \in SUBSET Nat
  BY <1>1
<1>4. T # {} => FALSE
  <2> SUFFICES ASSUME T # {} PROVE FALSE
    OBVIOUS
  <2>1. PICK n \in T : \A k \in T : n <= k
    <3> HIDE DEF T
    <3>1. QED
      BY <1>3, LeastNat
  <2> DEFINE i == L + 1 - n
  <2>2. n \in 0 .. L /\ r[i] \notin Str /\ i \in 1 .. L + 1
    BY <1>1, <2>1
  <2>3. ASSUME NEW j \in i + 1 .. L + 1
        PROVE  r[j] \in Str
    <3>1. L + 1 - j \in 0 .. L /\ L + 1 - (L + 1 - j) = j /\ ~(n <= L + 1 - j)
      BY <1>1, <2>2
    <3>2. L + 1 - j \notin T
      BY <2>1, <3>1
    <3>3. QED
      BY <3>1, <3>2
  <2> HIDE DEF i
  <2>4. Value(x, f, t, r, i) \in Str
    BY <2>2, <2>3, ValueIsText
  <2>5. QED
    BY <1>2, <2>2, <2>4
<1>5. ASSUME NEW i \in 1 .. L + 1
      PROVE  r[i] \in Str
  <2>1. L + 1 - i \in 0 .. L /\ L + 1 - (L + 1 - i) = i
    BY <1>1
  <2>2. QED
    BY <1>4, <2>1
<1>6. QED
  BY <1>5 DEF r

(* Rest behind n characters, as the loops find it: nothing at the end, the *)
(* replacement where an occurrence begins, the next character elsewhere.   *)
RestAt(x, f, t, n) == Rest(x, f, t)[n + 1]

LEMMA RestSteps ==
  ASSUME NEW x \in Str, NEW f \in Str, f # <<>>, NEW t \in Str,
         NEW n \in 0 .. Len(x)
  PROVE  /\ RestAt(x, f, t, n) \in Str
         /\ n = Len(x) => RestAt(x, f, t, n) = <<>> /\ ~OccursAt(x, f, n + 1)
         /\ OccursAt(x, f, n + 1) =>
              /\ n + Len(f) \in n + 1 .. Len(x)
              /\ RestAt(x, f, t, n) = t \o RestAt(x, f, t, n + Len(f))
         /\ (n < Len(x) /\ ~OccursAt(x, f, n + 1)) =>
              RestAt(x, f, t, n) = <<x[n + 1]>> \o RestAt(x, f, t, n + 1)
<1> DEFINE r == Rest(x, f, t)
           i == n + 1
<1>1. Len(x) \in Nat /\ Len(f) \in Nat /\ i \in 1 .. Len(x) + 1
  BY DEF Str
<1>2. r[i] = Value(x, f, t, r, i) /\ r[i] \in Str
  BY <1>1, RestValues, RestIsText
<1>3. OccursAt(x, f, i) => i <= Len(x) /\ i + Len(f) \in i + 1 .. Len(x) + 1
  BY <1>1, OccurrenceWithin
<1> HIDE DEF r
<1>4. n = Len(x) => r[i] = <<>> /\ ~OccursAt(x, f, i)
  BY <1>1, <1>2, <1>3 DEF Value
<1>5. OccursAt(x, f, i) => n + Len(f) \in n + 1 .. Len(x) /\ n + Len(f) + 1 = i + Len(f)
  BY <1>1, <1>3
<1>6. OccursAt(x, f, i) => r[i] = t \o r[n + Len(f) + 1]
  BY <1>1, <1>2, <1>3, <1>5 DEF Value
<1>7. (n < Len(x) /\ ~OccursAt(x, f, i)) => r[i] = <<x[i]>> \o r[i + 1]
  BY <1>1, <1>2 DEF Value
<1>8. QED
  BY <1>2, <1>4, <1>5, <1>6, <1>7 DEF RestAt, r

LEMMA JoinAssociates ==
  ASSUME NEW x \in Str, NEW y \in Str, NEW z \in Str
  PROVE  (x \o y) \o z = x \o (y \o z)
BY ConcatAssociative DEF Str

LEMMA JoinLength ==
  ASSUME NEW x \in Str, NEW y \in Str
  PROVE  x \o y \in Str /\ Len(x \o y) = Len(x) + Len(y) /\ Len(x) \in Nat /\ Len(y) \in Nat
BY ConcatProperties DEF Str

(* No occurrence begins behind n characters or later, but before m. *)
NoneBetween(x, f, n, m) == \A k \in n .. m - 1 : ~OccursAt(x, f, k + 1)

(* Where no occurrence begins, the text stays as it is. *)
LEMMA RestSkips ==
  ASSUME NEW x \in Str, NEW f \in Str, f # <<>>, NEW t \in Str,
         NEW m \in 0 .. Len(x), NEW n \in 0 .. m, NoneBetween(x, f, n, m)
  PROVE  RestAt(x, f, t, n) = SubSeq(x, n + 1, m) \o RestAt(x, f, t, m)
<1> DEFINE R(k) == RestAt(x, f, t, k)
           Skips(k) == R(k) = SubSeq(x, k + 1, m) \o R(m)
           T == {d \in 0 .. m - n : ~Skips(m - d)}
<1>1. Len(x) \in Nat /\ m \in Nat /\ n \in Nat /\ n <= m /\ m <= Len(x)
  BY DEF Str
<1>2. \A k \in 0 .. Len(x) : R(k) \in Str
  BY RestSteps
<1>3. T \in SUBSET Nat
  BY <1>1
<1>4. T # {} => FALSE
  <2> SUFFICES ASSUME T # {} PROVE FALSE
    OBVIOUS
  <2>1. PICK d \in T : \A e \in T : d <= e
    <3> HIDE DEF T
    <3>1. QED
      BY <1>3, LeastNat
  <2>2. d \in 0 .. m - n /\ ~Skips(m - d)
    BY <2>1
  <2>3. CASE d = 0
    <3>1. m - d = m /\ m + 1 \in Int /\ m < m + 1 /\ m \in 0 .. Len(x)
      BY <1>1, <2>3
    <3>2. SubSeq(x, m + 1, m) = <<>>
      BY <3>1, <1>1, SubSeqEmpty
    <3>3. <<>> \o R(m) = R(m)
      BY <1>2, <3>1, ConcatEmptySeq DEF Str
    <3>4. QED
      BY <2>2, <3>1, <3>2, <3>3
  <2>4. CASE d # 0
    <3> DEFINE k == m - d
               c == <<x[k + 1]>>
               y == SubSeq(x, k + 2, m)
    <3>1. /\ k \in 0 .. Len(x) /\ k < Len(x) /\ k \in n .. m - 1 /\ k + 1 \in 0 .. Len(x)
          /\ k + 1 \in 1 .. Len(x) /\ m \in k + 1 .. Len(x) /\ k + 1 + 1 = k + 2
          /\ d - 1 \in 0 .. m - n /\ m - (d - 1) = k + 1 /\ ~(d <= d - 1)
      <4>1. d \in Nat /\ d # 0 /\ d <= m - n
        BY <1>1, <2>2, <2>4
      <4>2. k \in n .. m - 1 /\ d - 1 \in 0 .. m - n /\ m - (d - 1) = k + 1 /\ ~(d <= d - 1)
        BY <1>1, <4>1
      <4> HIDE DEF k
      <4>3. QED
        BY <1>1, <4>2
    <3>2. d - 1 \notin T
      BY <2>1, <3>1
    <3>3. Skips(k + 1)
      BY <3>1, <3>2
    <3>4. ~OccursAt(x, f, k + 1)
      BY <3>1 DEF NoneBetween
    <3> HIDE DEF k
    <3>5. R(k) = c \o R(k + 1)
      BY <3>1, <3>4, RestSteps
    <3>6. SubSeq(x, k + 1, m) = c \o y
      BY <3>1, SubSeqRecursiveFirst DEF Str
    <3>7. c \in Str /\ y \in Str /\ R(m) \in Str
      <4>1. x[k + 1] \in Chars
        BY <3>1 DEF Str
      <4>2. \A j \in k + 2 .. m : x[j] \in Chars
        BY <1>1, <3>1 DEF Str
      <4>3. k + 2 \in Int /\ m \in Int
        BY <1>1, <3>1
      <4>4. y \in Str
        BY <4>2, <4>3, SubSeqProperties DEF Str
      <4>5. c \in Str
        BY <4>1 DEF Str
      <4>6. R(m) \in Str
        BY RestSteps
      <4>7. QED
        BY <4>4, <4>5, <4>6
    <3> DEFINE z == R(m)
    <3> HIDE DEF c, y, z, T
    <3>8. (c \o y) \o z = c \o (y \o z)
      BY <3>7, JoinAssociates DEF z
    <3>9. R(k + 1) = y \o R(m)
      BY <3>1, <3>3 DEF y
    <3>10. Skips(k)
      BY <3>5, <3>6, <3>8, <3>9 DEF z
    <3>11. QED
      BY <2>2, <3>10 DEF k
  <2>5. QED
    BY <2>3, <2>4
<1>5. m - n \in 0 .. m - n /\ m - (m - n) = n
  BY <1>1
<1>6. Skips(n)
  BY <1>4, <1>5
<1>7. QED
  BY <1>6

LEMMA SkippedLength ==
  ASSUME NEW x \in Str, NEW f \in Str, f # <<>>, NEW t \in Str,
         NEW m \in 0 .. Len(x), NEW n \in 0 .. m, NoneBetween(x, f, n, m)
  PROVE  Len(RestAt(x, f, t, n)) = m - n + Len(RestAt(x, f, t, m))
<1> DEFINE y == SubSeq(x, n + 1, m)
           z == RestAt(x, f, t, m)
<1>1. Len(x) \in Nat /\ m \in Nat /\ n \in Nat /\ n <= m /\ m <= Len(x)
  BY DEF Str
<1>2. RestAt(x, f, t, n) = y \o z
  BY RestSkips
<1>3. y \in Str /\ Len(y) = m - n
  <2>1. \A j \in n + 1 .. m : x[j] \in Chars
    BY <1>1 DEF Str
  <2>2. n + 1 \in Int /\ m \in Int
    BY <1>1
  <2>3. y \in Str /\ Len(y) = IF n + 1 <= m THEN m - (n + 1) + 1 ELSE 0
    BY <2>1, <2>2, SubSeqProperties DEF Str
  <2>4. QED
    BY <1>1, <2>3
<1>4. z \in Str
  BY RestSteps
<1> HIDE DEF y, z
<1>5. Len(y \o z) = Len(y) + Len(z)
  BY <1>3, <1>4, ConcatProperties DEF Str
<1>6. QED
  BY <1>2, <1>3, <1>5 DEF z


-----------------------------------------------------------------------------
(* The invariant.                                                          *)

Source == from.data

\* What is to stand behind the result of the first n characters.
Left(n) == RestAt(text, Source, to, n)

Result == Replaced(text, Source, to)

Looking == from.size # 0 /\ text # <<>>

(* c occurrences in the first n characters account for the difference      *)
(* between the lengths of the text and of the result.                      *)
Accounts(c, n) ==
  Len(Result) + c * from.size = n + c * Len(to) + Len(Left(n))

Counting ==
  /\ Looking /\ this = text /\ capacity = NULL /\ out = <<>>
  /\ at \in 0 .. Len(text) /\ count \in 0 .. at
  /\ count = 0 => at = 0
  /\ Accounts(count, at)

AllCounted ==
  /\ Looking
  /\ count \in 1 .. Len(text)
  /\ Accounts(count, Len(text))

Made == capacity = IF NewSize(count) = 0 THEN 1 ELSE NewSize(count)

Replacing ==
  /\ AllCounted /\ Made /\ this = text
  /\ at \in 0 .. Len(text)
  /\ out \in Str /\ out \o Left(at) = Result

Correct == this = IF Source = <<>> THEN text ELSE Result

IInv ==
  /\ text \in Texts /\ from \in Froms /\ to \in Tos
  /\ pc \in {"start", "count", "make", "replace", "done", "failed"}
  /\ pc = "start" => /\ this = text /\ capacity = NULL /\ out = <<>>
                     /\ count = 0 /\ at = 0
  /\ pc = "count" => Counting
  /\ pc = "make" => AllCounted /\ this = text /\ capacity = NULL /\ out = <<>>
  /\ pc = "replace" => Replacing
  /\ pc = "done" => /\ Correct
                    /\ capacity # NULL => AllCounted /\ Made /\ out = Result
  /\ pc = "failed" => this = text /\ capacity = NULL


(* Every `from' ends where its zero is, as that of a whole string does.    *)
(* Without it ReplacesAll and Fits are false.                              *)
WholeFroms == \A f \in Froms : f.size = Len(f.data)

(* No result is too long for a size_t, if every character were replaced.   *)
ResultsFit == \A x \in Texts, t \in Tos : Len(x) + Len(x) * Len(t) <= SIZE_MAX

-----------------------------------------------------------------------------
LEMMA Arguments ==
  ASSUME IInv, WholeFroms
  PROVE  /\ text \in Str /\ to \in Str /\ Source \in Str
         /\ from.size = Len(Source) /\ from.size \in Nat
         /\ Source = <<>> <=> from.size = 0
         /\ Meant = Source
         /\ Len(text) \in 0 .. SIZE_MAX /\ SIZE_MAX \in Nat
         /\ text = <<>> <=> Len(text) = 0
<1>1. /\ text \in Texts /\ text \in Str /\ to \in Str /\ Source \in Str
      /\ from.size = Len(Source)
  BY ReplaceAllAssumption DEF IInv, WholeFroms, Source, Str
<1>2. Len(text) <= SIZE_MAX /\ SIZE_MAX \in Nat
  BY <1>1, ReplaceAllAssumption
<1>3. /\ Len(Source) \in Nat /\ Len(text) \in Nat
      /\ Source = <<>> <=> Len(Source) = 0
      /\ text = <<>> <=> Len(text) = 0
  BY <1>1 DEF Str
<1>4. Meant = Source
  <2>1. SubSeq(Source, 1, Len(Source)) = Source
    BY <1>1, SubSeqFull DEF Str
  <2>2. QED
    BY <2>1, <1>1 DEF Meant, Source
<1>5. QED
  BY <1>1, <1>2, <1>3, <1>4

(* What the loops know of the result. *)
LEMMA LeftSteps ==
  ASSUME IInv, WholeFroms, Looking, NEW n \in 0 .. Len(text)
  PROVE  /\ Left(n) \in Str
         /\ n = Len(text) => Left(n) = <<>> /\ ~OccursAt(text, Source, n + 1)
         /\ OccursAt(text, Source, n + 1) =>
              /\ n + from.size \in n + 1 .. Len(text)
              /\ Left(n) = to \o Left(n + from.size)
         /\ (n < Len(text) /\ ~OccursAt(text, Source, n + 1)) =>
              Left(n) = <<text[n + 1]>> \o Left(n + 1)
<1>1. text \in Str /\ to \in Str /\ Source \in Str /\ Source # <<>> /\ from.size = Len(Source)
  BY Arguments DEF Looking
<1>2. QED
  BY <1>1, RestSteps DEF Left

LEMMA LeftAtStart ==
  ASSUME IInv, WholeFroms, Looking
  PROVE  Left(0) = Result /\ Result \in Str
<1>1. text \in Str /\ to \in Str /\ Source \in Str /\ Source # <<>>
      /\ 0 \in 0 .. Len(text)
  BY Arguments DEF Looking
<1>2. Replaced(text, Source, to) = Rest(text, Source, to)[1]
  BY <1>1, RestValues
<1>3. Left(0) \in Str
  BY <1>1, LeftSteps
<1>4. QED
  BY <1>2, <1>3 DEF Left, RestAt, Result

LEMMA LeftSkipped ==
  ASSUME IInv, WholeFroms, Looking, NEW m \in 0 .. Len(text), NEW n \in 0 .. m,
         NoneBetween(text, Source, n, m)
  PROVE  /\ Left(n) = SubSeq(text, n + 1, m) \o Left(m)
         /\ Len(Left(n)) = m - n + Len(Left(m))
<1>1. text \in Str /\ to \in Str /\ Source \in Str /\ Source # <<>>
  BY Arguments DEF Looking
<1>2. QED
  BY <1>1, RestSkips, SkippedLength DEF Left

\* The arguments are not assigned to.
LEMMA SameArguments ==
  ASSUME UNCHANGED args
  PROVE  /\ Looking' = Looking
         /\ Result' = Result
         /\ Source' = Source
         /\ \A n : Left(n)' = RestAt(text, Source, to, n)
         /\ text' = text /\ from' = from /\ to' = to
BY DEF args, Looking, Result, Source, Left

(* The arithmetic of one occurrence, s characters long and replaced by l:  *)
(* behind n characters, with a to come, it is found behind i, with b to    *)
(* come behind it.                                                         *)
OneMore(r, c, s, n, l, i, a, b) ==
  /\ r \in Nat /\ c \in Nat /\ s \in Nat /\ n \in Nat
  /\ l \in Nat /\ i \in Nat /\ a \in Nat /\ b \in Nat
  /\ r + c * s = n + c * l + a
  /\ a = i - n + (l + b)

LEMMA CountOne ==
  ASSUME NEW r, NEW c, NEW s, NEW n, NEW l, NEW i, NEW a, NEW b,
         OneMore(r, c, s, n, l, i, a, b)
  PROVE  r + (c + 1) * s = (i + s) + (c + 1) * l + b
<1> DEFINE cs == c * s
           cl == c * l
           cs1 == (c + 1) * s
           cl1 == (c + 1) * l
<1>1. /\ r \in Nat /\ c \in Nat /\ s \in Nat /\ n \in Nat
      /\ l \in Nat /\ i \in Nat /\ a \in Nat /\ b \in Nat
      /\ r + cs = n + cl + a /\ a = i - n + (l + b)
  BY DEF OneMore
<1>2. cs1 = cs + s /\ cl1 = cl + l /\ cs \in Nat /\ cl \in Nat
  BY <1>1
<1> HIDE DEF cs, cl, cs1, cl1
<1>3. r + cs1 = (i + s) + cl1 + b
  BY <1>1, <1>2
<1>4. QED
  BY <1>3 DEF cs1, cl1

(* strstr finds the first occurrence, or there is none any more. *)
LEMMA FoundFirst ==
  ASSUME IInv, WholeFroms, Looking, at \in 0 .. Len(text), Found(at) # {}
  PROVE  /\ Min(Found(at)) \in at .. Len(text)
         /\ OccursAt(text, Source, Min(Found(at)) + 1)
         /\ NoneBetween(text, Source, at, Min(Found(at)))
<1> DEFINE T == Found(at)
           i == Min(T)
<1>1. at \in Nat /\ Len(text) \in Nat
  BY Arguments
<1>2. T = {k \in at .. Len(text) : OccursAt(text, Source, k + 1)}
  BY DEF Found, Source
<1>3. T \in SUBSET Nat /\ T # {}
  BY <1>1, <1>2
<1>4. \E m \in T : \A k \in T : m <= k
  <2> HIDE DEF T
  <2>1. QED
    BY <1>3, LeastNat
<1>5. i \in T /\ \A k \in T : i <= k
  BY <1>4 DEF Min
<1> HIDE DEF i
<1>6. i \in at .. Len(text) /\ OccursAt(text, Source, i + 1)
  BY <1>2, <1>5
<1>7. ASSUME NEW k \in at .. i - 1
      PROVE  ~OccursAt(text, Source, k + 1)
  <2>1. k \in at .. Len(text) /\ ~(i <= k)
    BY <1>1, <1>6
  <2>2. k \notin T
    BY <1>5, <2>1
  <2>3. QED
    BY <1>2, <2>1, <2>2
<1>8. QED
  BY <1>6, <1>7 DEF NoneBetween, i

LEMMA NoneFound ==
  ASSUME IInv, WholeFroms, Looking, at \in 0 .. Len(text), Found(at) = {}
  PROVE  NoneBetween(text, Source, at, Len(text))
<1>1. at \in Nat /\ Len(text) \in Nat
  BY Arguments
<1>2. \A k \in at .. Len(text) : ~OccursAt(text, Source, k + 1)
  BY DEF Found, Source
<1>3. \A k \in at .. Len(text) - 1 : k \in at .. Len(text)
  BY <1>1
<1>4. QED
  BY <1>2, <1>3 DEF NoneBetween

LEMMA CountKeeps ==
  ASSUME IInv, WholeFroms, Count
  PROVE  IInv'
<1> DEFINE i == Min(Found(at))
           n == i + from.size
<1>1. /\ pc = "count" /\ Found(at) # {} /\ count' = SizeT(count + 1) /\ at' = n
      /\ UNCHANGED <<args, this, pc, capacity, out>>
  BY DEF Count
<1>2. Counting
  BY <1>1 DEF IInv
<1>3. Looking /\ at \in 0 .. Len(text) /\ count \in 0 .. at /\ Accounts(count, at)
  BY <1>2 DEF Counting
<1>4. /\ from.size \in Nat /\ Len(text) \in 0 .. SIZE_MAX /\ SIZE_MAX \in Nat
      /\ to \in Str /\ Len(to) \in Nat
  BY Arguments DEF Str
<1>5. /\ i \in at .. Len(text) /\ OccursAt(text, Source, i + 1)
      /\ NoneBetween(text, Source, at, i)
  BY <1>1, <1>3, FoundFirst
<1>6. i \in 0 .. Len(text) /\ at \in 0 .. i /\ i \in Nat /\ at \in Nat /\ count \in Nat
  BY <1>3, <1>4, <1>5
<1> HIDE DEF i
<1>7. n \in i + 1 .. Len(text) /\ Left(i) = to \o Left(n) /\ Left(i) \in Str
  BY <1>3, <1>5, <1>6, LeftSteps
<1>8. n \in 0 .. Len(text) /\ count + 1 \in 1 .. n /\ count + 1 \in 0 .. SIZE_MAX
  BY <1>3, <1>4, <1>5, <1>6, <1>7
<1>9. Left(n) \in Str /\ Left(at) \in Str
  BY <1>3, <1>8, LeftSteps
<1>10. /\ Len(Left(i)) = Len(to) + Len(Left(n))
       /\ Len(Left(n)) \in Nat /\ Len(Left(at)) \in Nat
  BY <1>4, <1>7, <1>9, JoinLength
<1>11. Len(Left(at)) = i - at + Len(Left(i))
  BY <1>3, <1>5, <1>6, LeftSkipped
<1>12. Len(Result) \in Nat
  BY <1>3, LeftAtStart DEF Str
<1>13. /\ Len(Result) + count * from.size = at + count * Len(to) + Len(Left(at))
       /\ Len(Left(at)) = i - at + (Len(to) + Len(Left(n)))
  BY <1>3, <1>10, <1>11 DEF Accounts
<1>14. Accounts(count + 1, n)
  <2>1. OneMore(Len(Result), count, from.size, at, Len(to), i, Len(Left(at)), Len(Left(n)))
    BY <1>4, <1>6, <1>10, <1>12, <1>13 DEF OneMore
  <2>2. QED
    BY <2>1, CountOne DEF Accounts
<1>15. count' = count + 1
  BY <1>1, <1>4, <1>8 DEF SizeT
<1>16. Counting'
  <2>1. Accounts(count, at)'
    BY <1>1, <1>14, <1>15, SameArguments DEF Accounts, Left
  <2>2. at' \in 0 .. Len(text') /\ count' \in 0 .. at' /\ count' # 0
    <3>1. count + 1 \in 0 .. n /\ count + 1 # 0
      BY <1>6, <1>8
    <3>2. QED
      BY <1>1, <1>8, <1>15, <3>1, SameArguments
  <2>3. Looking' /\ this' = text' /\ capacity' = NULL /\ out' = <<>>
    BY <1>1, <1>2, <1>3, SameArguments DEF Counting
  <2>4. QED
    BY <2>1, <2>2, <2>3 DEF Counting
<1>17. QED
  BY <1>1, <1>16, SameArguments DEF IInv

LEMMA CountedKeeps ==
  ASSUME IInv, WholeFroms, Counted
  PROVE  IInv'
<1>1. /\ pc = "count" /\ Found(at) = {}
      /\ pc' = IF count = 0 THEN "done" ELSE "make"
      /\ UNCHANGED <<args, this, count, at, capacity, out>>
  BY DEF Counted
<1>2. Counting
  BY <1>1 DEF IInv
<1>3. /\ Looking /\ at \in 0 .. Len(text) /\ count \in 0 .. at
      /\ Accounts(count, at) /\ (count = 0 => at = 0)
      /\ this = text /\ capacity = NULL /\ out = <<>>
  BY <1>2 DEF Counting
<1>4. Len(text) \in Nat /\ Len(text) \in 0 .. Len(text) /\ at \in Nat /\ count \in Nat
  BY <1>3, Arguments
<1>5. NoneBetween(text, Source, at, Len(text))
  BY <1>1, <1>3, NoneFound
<1>6. /\ Left(at) = SubSeq(text, at + 1, Len(text)) \o Left(Len(text))
      /\ Len(Left(at)) = Len(text) - at + Len(Left(Len(text)))
      /\ Left(Len(text)) = <<>>
  BY <1>3, <1>4, <1>5, LeftSkipped, LeftSteps
<1>7. CASE count = 0
  <2>1. SubSeq(text, 1, Len(text)) = text /\ text \o <<>> = text
    BY Arguments, SubSeqFull, ConcatEmptySeq DEF Str
  <2>2. Result = text
    BY <1>3, <1>6, <1>7, <2>1, LeftAtStart
  <2>3. Correct' /\ capacity' = NULL
    BY <1>1, <1>3, <2>2, SameArguments DEF Correct
  <2>4. QED
    BY <1>1, <1>7, <2>3, SameArguments DEF IInv
<1>8. CASE count # 0
  <2>1. count \in 1 .. Len(text)
    BY <1>3, <1>4, <1>8
  <2>2. Len(Left(Len(text))) = 0 /\ Len(Left(at)) = Len(text) - at
    BY <1>4, <1>6
  <2>3. Accounts(count, Len(text))
    <3> DEFINE cl == count * Len(to)
               cs == count * from.size
    <3>1. cl \in Nat /\ cs \in Nat
      BY <1>4, Arguments DEF Str
    <3>2. Len(Result) + cs = at + cl + Len(Left(at))
      BY <1>3 DEF Accounts
    <3> HIDE DEF cl, cs
    <3>3. Len(Result) + cs = Len(text) + cl + Len(Left(Len(text)))
      BY <1>4, <2>2, <3>1, <3>2
    <3>4. QED
      BY <3>3 DEF Accounts, cl, cs
  <2>4. AllCounted'
    <3>1. Accounts(count, Len(text))'
      BY <1>1, <2>3, SameArguments DEF Accounts, Left
    <3>2. QED
      BY <1>1, <1>3, <2>1, <3>1, SameArguments DEF AllCounted
  <2>5. QED
    BY <1>1, <1>3, <1>8, <2>4, SameArguments DEF IInv
<1>9. QED
  BY <1>7, <1>8


LEMMA StartKeeps ==
  ASSUME IInv, WholeFroms, Start
  PROVE  IInv'
<1>1. /\ pc = "start" /\ pc' = IF from.size = 0 \/ text = <<>> THEN "done" ELSE "count"
      /\ UNCHANGED <<args, this, count, at, capacity, out>>
  BY DEF Start
<1>2. this = text /\ capacity = NULL /\ out = <<>> /\ count = 0 /\ at = 0
  BY <1>1 DEF IInv
<1>3. CASE ~Looking
  <2>1. Correct
    <3>1. CASE Source = <<>>
      BY <1>2, <3>1 DEF Correct
    <3>2. CASE Source # <<>>
      <4>1. /\ text \in Str /\ Source \in Str /\ to \in Str
            /\ text = <<>> /\ Len(text) = 0 /\ 1 \in 1 .. Len(text) + 1
        BY <1>3, <3>2, Arguments DEF Looking
      <4>2. Result = Value(text, Source, to, Rest(text, Source, to), 1)
        BY <3>2, <4>1, RestValues DEF Result
      <4>3. Result = <<>>
        BY <4>1, <4>2 DEF Value
      <4>4. QED
        BY <1>2, <3>2, <4>1, <4>3 DEF Correct
    <3>3. QED
      BY <3>1, <3>2
  <2>2. Correct'
    BY <1>1, <2>1, SameArguments DEF Correct
  <2>3. QED
    BY <1>1, <1>2, <1>3, <2>2, SameArguments DEF IInv, Looking
<1>4. CASE Looking
  <2>1. Accounts(0, 0)
    <3>1. Len(Result) \in Nat /\ Len(to) \in Nat /\ from.size \in Nat /\ Left(0) = Result
      BY <1>4, LeftAtStart, Arguments DEF Str
    <3>2. 0 * from.size = 0 /\ 0 * Len(to) = 0
      BY <3>1
    <3>3. QED
      BY <3>1, <3>2 DEF Accounts
  <2>2. Accounts(count, at)'
    BY <1>1, <1>2, <2>1, SameArguments DEF Accounts, Left
  <2>3. at' \in 0 .. Len(text') /\ count' \in 0 .. at'
    BY <1>1, <1>2, Arguments, SameArguments
  <2>4. Counting'
    BY <1>1, <1>2, <1>4, <2>2, <2>3, SameArguments DEF Counting
  <2>5. QED
    BY <1>1, <1>4, <2>4, SameArguments DEF IInv, Looking
<1>5. QED
  BY <1>3, <1>4

LEMMA SameCount ==
  ASSUME UNCHANGED args, UNCHANGED count, AllCounted
  PROVE  AllCounted'
<1>1. Accounts(count, Len(text))'
  BY SameArguments DEF AllCounted, Accounts, Left
<1>2. QED
  BY <1>1, SameArguments DEF AllCounted

LEMMA MakeKeeps ==
  ASSUME IInv, WholeFroms, Make
  PROVE  IInv'
<1>1. /\ pc = "make" /\ pc' = "replace" /\ at' = 0
      /\ capacity' = IF NewSize(count) = 0 THEN 1 ELSE NewSize(count)
      /\ UNCHANGED <<args, this, count, out>>
  BY DEF Make
<1>2. AllCounted /\ this = text /\ out = <<>>
  BY <1>1 DEF IInv
<1>3. AllCounted'
  BY <1>1, <1>2, SameCount
<1>4. Made'
  BY <1>1 DEF Made, NewSize, args
<1>5. out' \in Str /\ out' \o Left(at)' = Result'
  <2>1. Left(0) = Result /\ Result \in Str /\ <<>> \in Str
    BY <1>2, LeftAtStart DEF AllCounted, Str
  <2>2. <<>> \o Result = Result
    BY <2>1, ConcatEmptySeq DEF Str
  <2>3. Left(at)' = Left(0)
    BY <1>1 DEF Left, Source, args
  <2>4. QED
    BY <1>1, <1>2, <2>1, <2>2, <2>3, SameArguments DEF Str
<1>6. at' \in 0 .. Len(text')
  BY <1>1, Arguments, SameArguments
<1>7. Replacing'
  BY <1>1, <1>2, <1>3, <1>4, <1>5, <1>6, SameArguments DEF Replacing, Str
<1>8. QED
  BY <1>1, <1>7, SameArguments DEF IInv

LEMMA MakeFailsKeeps ==
  ASSUME IInv, WholeFroms, MakeFails
  PROVE  IInv'
BY SameArguments DEF IInv, MakeFails

(* A turn of the second loop, which moves to n and writes y. *)
LEMMA TurnKeeps ==
  ASSUME IInv, WholeFroms, pc = "replace", NEW n \in 0 .. Len(text), NEW y \in Str,
         Left(at) = y \o Left(n), out' = out \o y, at' = n,
         UNCHANGED <<args, this, pc, count, capacity>>
  PROVE  IInv'
<1>1. Replacing
  BY DEF IInv
<1>2. /\ AllCounted /\ Looking /\ Made /\ this = text
      /\ out \in Str /\ out \o Left(at) = Result
  BY <1>1 DEF Replacing, AllCounted
<1>3. Left(n) \in Str
  BY <1>2, LeftSteps
<1>4. (out \o y) \o Left(n) = out \o (y \o Left(n))
  <2> DEFINE z == Left(n)
  <2>1. z \in Str
    BY <1>3
  <2> HIDE DEF z
  <2>2. (out \o y) \o z = out \o (y \o z)
    BY <1>2, <2>1, JoinAssociates
  <2>3. QED
    BY <2>2 DEF z
<1>5. out' \in Str /\ out' \o Left(n) = Result
  BY <1>2, <1>4, JoinLength
<1>6. Left(at)' = Left(n)
  BY DEF Left, Source, args
<1>7. AllCounted' /\ Made'
  BY <1>2, SameCount DEF Made, NewSize, args
<1>8. Replacing'
  BY <1>2, <1>5, <1>6, <1>7, SameArguments DEF Replacing, Str
<1>9. QED
  BY <1>8, SameArguments DEF IInv

LEMMA ReplaceKeeps ==
  ASSUME IInv, WholeFroms, Replace
  PROVE  IInv'
<1>1. /\ pc = "replace" /\ OccursAt(text, Source, at + 1)
      /\ out' = out \o to /\ at' = at + from.size
      /\ UNCHANGED <<args, this, pc, count, capacity>>
  BY Arguments DEF Replace
<1>2. Looking /\ at \in 0 .. Len(text)
  BY <1>1 DEF IInv, Replacing, AllCounted
<1>3. at + from.size \in at + 1 .. Len(text) /\ Left(at) = to \o Left(at + from.size)
  BY <1>1, <1>2, LeftSteps
<1>4. at + from.size \in 0 .. Len(text) /\ to \in Str
  BY <1>2, <1>3, Arguments
<1>5. QED
  BY <1>1, <1>3, <1>4, TurnKeeps

LEMMA KeepKeeps ==
  ASSUME IInv, WholeFroms, Keep
  PROVE  IInv'
<1> DEFINE y == <<text[at + 1]>>
<1>1. /\ pc = "replace" /\ at < Len(text) /\ ~OccursAt(text, Source, at + 1)
      /\ out' = Append(out, text[at + 1]) /\ at' = at + 1
      /\ UNCHANGED <<args, this, pc, count, capacity>>
  BY Arguments DEF Keep
<1>2. Looking /\ at \in 0 .. Len(text) /\ out \in Str
  BY <1>1 DEF IInv, Replacing, AllCounted
<1>3. Left(at) = y \o Left(at + 1)
  BY <1>1, <1>2, LeftSteps
<1>4. at + 1 \in 0 .. Len(text) /\ at + 1 \in 1 .. Len(text) /\ text \in Str
  BY <1>1, <1>2, Arguments
<1>5. text[at + 1] \in Chars
  BY <1>4 DEF Str
<1>6. y \in Str
  BY <1>5 DEF Str
<1>7. out' = out \o y
  BY <1>1, <1>2, <1>5, AppendIsConcat DEF Str
<1> HIDE DEF y
<1>8. QED
  BY <1>1, <1>3, <1>4, <1>6, <1>7, TurnKeeps

LEMMA FinishKeeps ==
  ASSUME IInv, WholeFroms, Finish
  PROVE  IInv'
<1>1. /\ pc = "replace" /\ at = Len(text) /\ this' = out /\ pc' = "done"
      /\ UNCHANGED <<args, count, at, capacity, out>>
  BY DEF Finish
<1>2. /\ AllCounted /\ Looking /\ Made /\ at \in 0 .. Len(text)
      /\ out \in Str /\ out \o Left(at) = Result
  BY <1>1 DEF IInv, Replacing, AllCounted
<1>3. Left(at) = <<>>
  BY <1>1, <1>2, LeftSteps
<1>4. out = Result
  BY <1>2, <1>3, ConcatEmptySeq DEF Str
<1>5. Correct'
  <2>1. Source # <<>>
    BY <1>2, Arguments DEF Looking
  <2>2. QED
    BY <1>1, <1>4, <2>1, SameArguments DEF Correct
<1>6. AllCounted' /\ Made' /\ out' = Result'
  BY <1>1, <1>2, <1>4, SameCount, SameArguments DEF Made, NewSize, args
<1>7. QED
  BY <1>1, <1>5, <1>6, SameArguments DEF IInv

LEMMA StutterKeeps ==
  ASSUME IInv, UNCHANGED vars
  PROVE  IInv'
BY DEF IInv, vars, args, Counting, AllCounted, Made, Replacing, Correct, Looking,
       Accounts, Left, Result, Source, NewSize

LEMMA InitInv ==
  ASSUME Init
  PROVE  IInv
BY DEF Init, IInv

-----------------------------------------------------------------------------
(* Both loops of string_replace_all are always at the same result: the     *)
(* first has counted what is in front of the place it is at, the second    *)
(* has written it.                                                         *)
THEOREM Invariance ==
  ASSUME WholeFroms
  PROVE  Spec => []IInv
<1>1. Init => IInv
  BY InitInv
<1>2. IInv /\ [Next]_vars => IInv'
  BY StartKeeps, CountKeeps, CountedKeeps, MakeKeeps, MakeFailsKeeps, ReplaceKeeps,
     KeepKeeps, FinishKeeps, StutterKeeps DEF Next
<1>3. QED
  BY <1>1, <1>2, PTL DEF Spec

(* string_replace_all leaves the text with every occurrence replaced, and  *)
(* no other change, or, when there is no memory, as it was.                *)
THEOREM ReplacesAllAlways ==
  ASSUME WholeFroms
  PROVE  Spec => []ReplacesAll
<1>1. IInv => ReplacesAll
  BY Arguments DEF IInv, Correct, Result, ReplacesAll
<1>2. QED
  BY <1>1, Invariance, PTL

LEMMA ProductBound ==
  ASSUME NEW c \in Nat, NEW n \in Nat, NEW l \in Nat, c <= n
  PROVE  c * l <= n * l /\ c * l \in Nat /\ n * l \in Nat
OBVIOUS

LEMMA MadeFits ==
  ASSUME IInv, WholeFroms, ResultsFit, AllCounted, Made
  PROVE  capacity \in Nat /\ Len(Result) <= capacity
<1> DEFINE cl == count * Len(to)
           cs == count * from.size
           nl == Len(text) * Len(to)
<1>1. /\ Looking /\ count \in 1 .. Len(text) /\ Accounts(count, Len(text))
  BY DEF AllCounted
<1>2. /\ Len(text) \in Nat /\ Len(to) \in Nat /\ from.size \in Nat /\ SIZE_MAX \in Nat
      /\ Len(text) \in 0 .. Len(text) /\ count \in Nat /\ count <= Len(text)
  BY <1>1, Arguments DEF Str
<1>3. Len(Result) \in Nat
  BY <1>1, LeftAtStart DEF Str
<1>4. Left(Len(text)) = <<>>
  BY <1>1, <1>2, LeftSteps
<1>5. Len(Result) + cs = Len(text) + cl
  <2>1. Len(Result) + cs = Len(text) + cl + Len(Left(Len(text)))
    BY <1>1 DEF Accounts
  <2>2. cl \in Nat /\ cs \in Nat
    BY <1>2
  <2> HIDE DEF cl, cs
  <2>3. QED
    BY <1>2, <1>4, <2>1, <2>2
<1>6. cl <= nl /\ cl \in Nat /\ nl \in Nat /\ cs \in Nat
  BY <1>2, ProductBound
<1>7. Len(text) + nl <= SIZE_MAX
  BY DEF ResultsFit, IInv
<1>8. NewSize(count) = (Len(text) + cl - cs) % (SIZE_MAX + 1)
  BY DEF NewSize, SizeT
<1> HIDE DEF cl, cs, nl
<1>9. Len(text) + cl - cs = Len(Result) /\ Len(Result) \in 0 .. SIZE_MAX
  BY <1>2, <1>3, <1>5, <1>6, <1>7
<1>10. NewSize(count) = Len(Result)
  BY <1>2, <1>8, <1>9
<1>11. QED
  BY <1>3, <1>10 DEF Made

(* The second loop of string_replace_all never writes more than the first  *)
(* one made room for.                                                      *)
THEOREM FitsAlways ==
  ASSUME WholeFroms, ResultsFit
  PROVE  Spec => []Fits
<1>1. IInv => Fits
  <2> SUFFICES ASSUME IInv, capacity # NULL
               PROVE  Len(out) <= capacity
    BY DEF Fits
  <2>1. CASE pc = "replace"
    <3>1. /\ AllCounted /\ Made /\ Looking /\ at \in 0 .. Len(text)
          /\ out \in Str /\ out \o Left(at) = Result
      BY <2>1 DEF IInv, Replacing, AllCounted
    <3>2. capacity \in Nat /\ Len(Result) <= capacity
      BY <3>1, MadeFits
    <3>3. Left(at) \in Str
      BY <3>1, LeftSteps
    <3>4. Len(Result) = Len(out) + Len(Left(at)) /\ Len(out) \in Nat /\ Len(Left(at)) \in Nat
      BY <3>1, <3>3, JoinLength
    <3>5. QED
      BY <3>2, <3>4
  <2>2. CASE pc = "done"
    <3>1. AllCounted /\ Made /\ out = Result
      BY <2>2 DEF IInv
    <3>2. QED
      BY <3>1, MadeFits
  <2>3. QED
    BY <2>1, <2>2 DEF IInv, Counting
<1>2. QED
  BY <1>1, Invariance, PTL

-----------------------------------------------------------------------------
(* That the loops move on takes less than IInv, and nothing of what `from' *)
(* is: the place lies in the text, and a loop is only entered to look for  *)
(* something.                                                              *)
PlaceInv ==
  /\ text \in Texts /\ from \in Froms
  /\ pc \in {"start", "count", "make", "replace", "done", "failed"}
  /\ at \in 0 .. Len(text)
  /\ pc \in {"count", "make", "replace"} => from.size # 0

LEMMA FromFacts ==
  ASSUME PlaceInv
  PROVE  /\ text \in Str /\ Len(text) \in Nat
         /\ from.data \in Str /\ from.size \in 0 .. Len(from.data)
         /\ Meant \in Str /\ Len(Meant) = from.size
<1>1. text \in Str /\ from.data \in Str /\ from.size \in 0 .. Len(from.data)
  BY ReplaceAllAssumption DEF PlaceInv, Str
<1>2. Len(text) \in Nat /\ Len(from.data) \in Nat
  BY <1>1 DEF Str
<1>3. Meant \in Str /\ Len(Meant) = from.size
  BY <1>1, <1>2 DEF Meant, Str
<1>4. QED
  BY <1>1, <1>2, <1>3

(* An occurrence that strstr finds lies in the text, with all characters   *)
(* that are meant.                                                         *)
LEMMA CountAdvances ==
  ASSUME PlaceInv, Count
  PROVE  at < at' /\ at' <= Len(text) /\ at' \in Nat
<1> DEFINE i == Min(Found(at))
<1>1. from.size # 0 /\ Found(at) # {} /\ at' = i + from.size
  BY DEF Count, PlaceInv
<1>2. Found(at) \in SUBSET Nat
  BY FromFacts DEF Found, PlaceInv
<1>3. i \in Found(at)
  <2>1. PICK m \in Found(at) : \A k \in Found(at) : m <= k
    BY <1>1, <1>2, LeastNat
  <2>2. QED
    BY <2>1 DEF Min
<1> HIDE DEF i
<1>4. i \in at .. Len(text) /\ OccursAt(text, from.data, i + 1)
  BY <1>3 DEF Found
<1>5. /\ from.data \in Str /\ text \in Str /\ Len(text) \in Nat
      /\ from.size \in 0 .. Len(from.data)
  BY FromFacts
<1>6. from.data # <<>> /\ Len(from.data) \in Nat
  BY <1>1, <1>5 DEF Str
<1>7. i \in Nat /\ at \in Nat /\ at <= i /\ i + 1 \in 1 .. Len(text) + 1
  BY <1>4, <1>5 DEF PlaceInv
<1>8. i + 1 + Len(from.data) <= Len(text) + 1
  <2> DEFINE f == from.data
  <2> HIDE DEF f
  <2>1. f \in Str /\ f # <<>> /\ OccursAt(text, f, i + 1)
    BY <1>4, <1>5, <1>6 DEF f
  <2>2. (i + 1) + Len(f) \in (i + 1) + 1 .. Len(text) + 1
    BY <1>5, <1>7, <2>1, OccurrenceWithin
  <2>3. (i + 1) + Len(f) <= Len(text) + 1
    BY <2>2, <1>5
  <2>4. QED
    BY <2>3 DEF f
<1> DEFINE n == from.size
           d == Len(from.data)
           l == Len(text)
<1>9. n \in Nat /\ n # 0 /\ n <= d /\ d \in Nat /\ l \in Nat
  BY <1>1, <1>5, <1>6
<1>10. at' = i + n /\ i + 1 + d <= l + 1
  BY <1>1, <1>8
<1> HIDE DEF n, d, l
<1>11. at < i + n /\ i + n <= l /\ i + n \in Nat
  BY <1>7, <1>9, <1>10
<1>12. QED
  BY <1>10, <1>11 DEF l

LEMMA ReplaceAdvances ==
  ASSUME PlaceInv, Replace
  PROVE  at < at' /\ at' <= Len(text) /\ at' \in Nat
<1>1. /\ from.size # 0 /\ at' = at + from.size
      /\ at \in Nat /\ at + 1 \in 1 .. Len(text) + 1
      /\ OccursAt(text, Meant, at + 1)
  BY FromFacts DEF Replace, PlaceInv
<1>2. /\ Meant \in Str /\ text \in Str /\ Len(text) \in Nat
      /\ Len(Meant) = from.size /\ Len(Meant) \in Nat /\ Meant # <<>>
  BY <1>1, FromFacts DEF Str
<1>3. (at + 1) + Len(Meant) \in (at + 1) + 1 .. Len(text) + 1
  BY <1>1, <1>2, OccurrenceWithin
<1>4. QED
  BY <1>1, <1>2, <1>3

LEMMA KeepAdvances ==
  ASSUME PlaceInv, Keep
  PROVE  at < at' /\ at' <= Len(text) /\ at' \in Nat
  BY FromFacts DEF Keep, PlaceInv

LEMMA PlaceInvariance == Spec => []PlaceInv
<1>1. Init => PlaceInv
  <2>1. ASSUME Init PROVE text \in Str
    BY <2>1, ReplaceAllAssumption DEF Init, Str
  <2>2. QED
    BY <2>1 DEF Init, PlaceInv, Str
<1>2. PlaceInv /\ [Next]_vars => PlaceInv'
  <2> SUFFICES ASSUME PlaceInv, [Next]_vars
               PROVE  PlaceInv'
    OBVIOUS
  <2>1. CASE Start
    BY <2>1 DEF PlaceInv, Start, args
  <2>2. CASE Count
    BY <2>2, CountAdvances DEF PlaceInv, Count, args
  <2>3. CASE Counted
    BY <2>3 DEF PlaceInv, Counted, args
  <2>4. CASE Make
    BY <2>4, FromFacts DEF PlaceInv, Make, args
  <2>5. CASE MakeFails
    BY <2>5 DEF PlaceInv, MakeFails, args
  <2>6. CASE Replace
    BY <2>6, ReplaceAdvances DEF PlaceInv, Replace, args
  <2>7. CASE Keep
    BY <2>7, KeepAdvances DEF PlaceInv, Keep, args
  <2>8. CASE Finish
    BY <2>8 DEF PlaceInv, Finish, args
  <2>9. CASE UNCHANGED vars
    BY <2>9 DEF PlaceInv, vars, args
  <2>10. QED
    BY <2>1, <2>2, <2>3, <2>4, <2>5, <2>6, <2>7, <2>8, <2>9 DEF Next
<1>3. QED
  BY <1>1, <1>2, PTL DEF Spec

(* Every step leads to a later part of the function, or further on in the  *)
(* text but not behind its end: whatever is looked for, at most            *)
(* 2 * Len(text) + 4 steps are left to take.                               *)
THEOREM AdvancesAlways == Spec => Advances
<1> DEFINE A == \/ Part[pc] < Part[pc']
                \/ pc' = pc /\ at < at' /\ at' <= Len(text)
<1>1. ASSUME PlaceInv, Next
      PROVE  A
  <2>1. CASE Start
    BY <2>1 DEF Start, Part
  <2>2. CASE Count
    BY <1>1, <2>2, CountAdvances DEF Count
  <2>3. CASE Counted
    BY <2>3 DEF Counted, Part
  <2>4. CASE Make
    BY <2>4 DEF Make, Part
  <2>5. CASE MakeFails
    BY <2>5 DEF MakeFails, Part
  <2>6. CASE Replace
    BY <1>1, <2>6, ReplaceAdvances DEF Replace
  <2>7. CASE Keep
    BY <1>1, <2>7, KeepAdvances DEF Keep
  <2>8. CASE Finish
    BY <2>8 DEF Finish, Part
  <2>9. QED
    BY <1>1, <2>1, <2>2, <2>3, <2>4, <2>5, <2>6, <2>7, <2>8 DEF Next
<1>2. PlaceInv /\ [Next]_vars => [A]_vars
  BY <1>1
<1>3. QED
  BY <1>2, PlaceInvariance, PTL DEF Spec, Advances
=============================================================================
