---------------------------- MODULE StringProofs ----------------------------
(***************************************************************************)
(* Theorems about StringUsers, for any strings, blocks, resources, texts   *)
(* and files.                                                              *)
(*                                                                         *)
(* Good(m, x) judges the string x in the memory m.  Follows(m, x, o) says  *)
(* that an operation on x alone may lead to the outcome o: the string is   *)
(* good again, has its old buffer or one that was free, has given the old  *)
(* one back if it has another, and the rest of the memory is as it was.    *)
(* A lemma for each function of the code shows that its outcomes follow,   *)
(* one that following is transitive, as functions call others, and one     *)
(* that a step to an outcome that follows keeps the invariant.             *)
(***************************************************************************)
EXTENDS StringUsers, SequenceTheorems, WellFoundedInduction, TLAPS

Text_ == Seq(Chars \cup {ZERO})

Memory == [Blocks -> Block \cup {NULL}]

Good(m, x) ==
  /\ x \in Structure
  /\ x.size <= x.capacity
  /\ x.data = NULL => x.capacity = 0
  /\ x.data # NULL =>
       /\ m[x.data] \in Block
       /\ m[x.data].resource = x.memory_resource
       /\ Len(m[x.data].cells) = x.capacity + 1
       /\ \A i \in 1 .. x.size : m[x.data].cells[i] \in Chars \cup {ZERO}

Follows(m, x, o) ==
  /\ o.mem \in Memory
  /\ Good(o.mem, o.string)
  /\ o.string.data # NULL => o.string.data = x.data \/ m[o.string.data] = NULL
  /\ (x.data # NULL /\ x.data # o.string.data) => o.mem[x.data] = NULL
  /\ \A b \in Blocks : (b # x.data /\ b # o.string.data) => o.mem[b] = m[b]

IInv ==
  /\ mem \in Memory
  /\ str \in [Strings -> Structure]
  /\ \A s \in Strings : Good(mem, str[s])
  /\ \A b \in Blocks : mem[b] # NULL => \E s \in Strings : str[s].data = b
  /\ \A s, t \in Strings : (s # t /\ str[s].data # NULL) => str[s].data # str[t].data

\* A step on s leaves the other strings' texts alone.
OthersKept(s) ==
  \A t \in Strings : t # s => Text(mem', str'[t]) = Text(mem, str[t])

-----------------------------------------------------------------------------
(* Outcomes and steps.                                                     *)

LEMMA GoodData ==
  ASSUME NEW m, NEW x, Good(m, x)
  PROVE  /\ x.data \in Blocks \cup {NULL}
         /\ x.data # NULL => x.data \in Blocks /\ m[x.data] # NULL
BY BlockAssumption DEF Good, Structure

LEMMA EmptyGood ==
  ASSUME NEW m
  PROVE  Good(m, Empty) /\ Empty.data = NULL
BY DEF Good, Empty, Structure

LEMMA FollowsTrans ==
  ASSUME NEW m, NEW x, Good(m, x), NEW o, NEW p,
         Follows(m, x, o), Follows(o.mem, o.string, p)
  PROVE  Follows(m, x, p)
<1> DEFINE d == o.string.data
           e == p.string.data
<1>1. Good(o.mem, o.string) /\ Good(p.mem, p.string) /\ p.mem \in Memory
  BY DEF Follows
<1>2. /\ x.data # NULL => x.data \in Blocks
      /\ d # NULL => d \in Blocks /\ o.mem[d] # NULL
      /\ e # NULL => e \in Blocks /\ p.mem[e] # NULL
  BY <1>1, GoodData
<1>3. /\ d # NULL => d = x.data \/ m[d] = NULL
      /\ (x.data # NULL /\ x.data # d) => o.mem[x.data] = NULL
      /\ \A b \in Blocks : (b # x.data /\ b # d) => o.mem[b] = m[b]
  BY DEF Follows
<1>4. /\ e # NULL => e = d \/ o.mem[e] = NULL
      /\ (d # NULL /\ d # e) => p.mem[d] = NULL
      /\ \A b \in Blocks : (b # d /\ b # e) => p.mem[b] = o.mem[b]
  BY DEF Follows
<1> HIDE DEF d, e
<1>5. e # NULL => e = x.data \/ m[e] = NULL
  BY <1>2, <1>3, <1>4
<1>6. (x.data # NULL /\ x.data # e) => p.mem[x.data] = NULL
  BY <1>2, <1>3, <1>4
<1>7. \A b \in Blocks : (b # x.data /\ b # e) => p.mem[b] = m[b]
  <2>1. SUFFICES ASSUME NEW b \in Blocks, b # x.data, b # e
                 PROVE  p.mem[b] = m[b]
    OBVIOUS
  <2>2. CASE b = d
    BY <2>1, <2>2, <1>2, <1>3, <1>4, StringAssumption
  <2>3. CASE b # d
    BY <2>1, <2>3, <1>3, <1>4
  <2>4. QED
    BY <2>2, <2>3
<1>8. QED
  BY <1>1, <1>5, <1>6, <1>7 DEF Follows, d, e

LEMMA FollowsSelf ==
  ASSUME NEW m \in Memory, NEW x, Good(m, x)
  PROVE  Follows(m, x, Outcome(m, x))
BY DEF Follows, Outcome

(* A step of one string to an outcome that follows. *)
LEMMA StepInv ==
  ASSUME IInv, NEW s \in Strings, NEW outcomes, Becomes(s, outcomes),
         \A o \in outcomes : Follows(mem, str[s], o)
  PROVE  IInv' /\ OthersKept(s)
<1>1. PICK o \in outcomes : mem' = o.mem /\ str' = [str EXCEPT ![s] = o.string]
  BY DEF Becomes
<1>2. Follows(mem, str[s], o)
  BY <1>1
<1> DEFINE d == str[s].data
           e == o.string.data
<1>3. /\ mem' \in Memory /\ Good(mem', o.string)
      /\ e # NULL => e = d \/ mem[e] = NULL
      /\ (d # NULL /\ d # e) => mem'[d] = NULL
      /\ \A b \in Blocks : (b # d /\ b # e) => mem'[b] = mem[b]
  BY <1>1, <1>2 DEF Follows
<1>4. /\ o.string \in Structure
      /\ str' \in [Strings -> Structure]
      /\ str'[s] = o.string
      /\ \A t \in Strings : t # s => str'[t] = str[t]
  <2>1. o.string \in Structure
    BY <1>3 DEF Good
  <2>2. str \in [Strings -> Structure]
    BY DEF IInv
  <2>3. QED
    BY <1>1, <2>1, <2>2
<1>5. \A t \in Strings : t # s /\ str[t].data # NULL =>
         /\ str[t].data \in Blocks /\ mem[str[t].data] # NULL
         /\ str[t].data # d /\ str[t].data # e
         /\ mem'[str[t].data] = mem[str[t].data]
  <2>1. SUFFICES ASSUME NEW t \in Strings, t # s, str[t].data # NULL
                 PROVE  /\ str[t].data \in Blocks /\ mem[str[t].data] # NULL
                        /\ str[t].data # d /\ str[t].data # e
                        /\ mem'[str[t].data] = mem[str[t].data]
    OBVIOUS
  <2>2. str[t].data \in Blocks /\ mem[str[t].data] # NULL
    BY <2>1, GoodData DEF IInv
  <2>3. str[t].data # d
    BY <2>1 DEF IInv
  <2>4. str[t].data # e
    BY <1>3, <2>1, <2>2, <2>3
  <2>5. QED
    BY <1>3, <2>2, <2>3, <2>4
<1>6. \A t \in Strings : Good(mem', str'[t])
  <2>1. SUFFICES ASSUME NEW t \in Strings, t # s
                 PROVE  Good(mem', str'[t])
    BY <1>3, <1>4
  <2>2. Good(mem, str[t])
    BY DEF IInv
  <2>3. str'[t] = str[t]
    BY <1>4, <2>1
  <2>4. QED
    BY <1>5, <2>1, <2>2, <2>3 DEF Good
<1>7. \A b \in Blocks : mem'[b] # NULL => \E t \in Strings : str'[t].data = b
  <2>1. SUFFICES ASSUME NEW b \in Blocks, mem'[b] # NULL
                 PROVE  \E t \in Strings : str'[t].data = b
    OBVIOUS
  <2>2. CASE b = e
    BY <1>4, <2>2
  <2>3. CASE b # e
    <3>1. b # d
      BY <1>3, <2>1, <2>3, StringAssumption
    <3>2. mem[b] # NULL
      BY <1>3, <2>1, <2>3, <3>1
    <3>3. PICK t \in Strings : str[t].data = b
      BY <3>2 DEF IInv
    <3>4. t # s
      BY <3>1, <3>3
    <3>5. QED
      BY <1>4, <3>3, <3>4
  <2>4. QED
    BY <2>2, <2>3
<1>8. \A t, u \in Strings : (t # u /\ str'[t].data # NULL) => str'[t].data # str'[u].data
  <2>1. SUFFICES ASSUME NEW t \in Strings, NEW u \in Strings, t # u, str'[t].data # NULL
                 PROVE  str'[t].data # str'[u].data
    OBVIOUS
  <2>2. CASE t = s
    BY <1>4, <1>5, <2>1, <2>2
  <2>3. CASE u = s
    BY <1>4, <1>5, <2>1, <2>3
  <2>4. CASE t # s /\ u # s
    BY <1>4, <2>1, <2>4 DEF IInv
  <2>5. QED
    BY <2>2, <2>3, <2>4
<1>9. OthersKept(s)
  <2>1. SUFFICES ASSUME NEW t \in Strings, t # s
                 PROVE  Text(mem', str'[t]) = Text(mem, str[t])
    BY DEF OthersKept
  <2>2. str'[t] = str[t] /\ Good(mem, str[t])
    BY <1>4, <2>1 DEF IInv
  <2>3. CASE str[t].data # NULL
    BY <1>5, <2>1, <2>2, <2>3 DEF Text
  <2>4. CASE str[t].data = NULL
    <3>1. str[t].size = 0
      BY <2>2, <2>4 DEF Good, Structure
    <3>2. QED
      BY <2>2, <3>1 DEF Text
  <2>5. QED
    BY <2>3, <2>4
<1>10. QED
  BY <1>3, <1>4, <1>6, <1>7, <1>8, <1>9 DEF IInv

-----------------------------------------------------------------------------
(* Blocks.                                                                 *)

(* Writing a text changes the cells it is written to, and nothing else. *)
LEMMA WrittenBlock ==
  ASSUME NEW r \in Block, NEW n \in Nat, NEW text \in Text_
  PROVE  /\ Written(r, n, text) \in Block
         /\ Written(r, n, text).resource = r.resource
         /\ Len(Written(r, n, text).cells) = Len(r.cells)
         /\ \A i \in 1 .. Len(r.cells) :
              Written(r, n, text).cells[i] =
                IF n + 1 <= i /\ i <= n + Len(text) THEN text[i - n] ELSE r.cells[i]
<1> DEFINE cells == [i \in DOMAIN r.cells |->
                       IF i \in n + 1 .. n + Len(text) THEN text[i - n] ELSE r.cells[i]]
           w == Written(r, n, text)
<1>1. r.cells \in Seq(Chars \cup {ZERO, NULL}) /\ r.resource \in Resources
  BY DEF Block
<1>2. DOMAIN r.cells = 1 .. Len(r.cells) /\ Len(r.cells) \in Nat /\ Len(text) \in Nat
  BY <1>1 DEF Text_
<1>3. \A i \in 1 .. Len(r.cells) :
        /\ cells[i] \in Chars \cup {ZERO, NULL}
        /\ cells[i] = IF n + 1 <= i /\ i <= n + Len(text) THEN text[i - n] ELSE r.cells[i]
  <2>1. SUFFICES ASSUME NEW i \in 1 .. Len(r.cells)
                 PROVE  /\ cells[i] \in Chars \cup {ZERO, NULL}
                        /\ cells[i] = IF n + 1 <= i /\ i <= n + Len(text) THEN text[i - n]
                                      ELSE r.cells[i]
    OBVIOUS
  <2>2. cells[i] = IF n + 1 <= i /\ i <= n + Len(text) THEN text[i - n] ELSE r.cells[i]
    BY <1>2, <2>1
  <2>3. CASE n + 1 <= i /\ i <= n + Len(text)
    <3>1. i - n \in 1 .. Len(text)
      BY <1>2, <2>3
    <3>2. text[i - n] \in Chars \cup {ZERO}
      BY <3>1 DEF Text_
    <3>3. QED
      BY <2>2, <2>3, <3>2
  <2>4. CASE ~(n + 1 <= i /\ i <= n + Len(text))
    BY <1>1, <2>1, <2>2, <2>4
  <2>5. QED
    BY <2>2, <2>3, <2>4
<1>4. cells \in Seq(Chars \cup {ZERO, NULL}) /\ Len(cells) = Len(r.cells)
  <2>1. cells \in [1 .. Len(r.cells) -> Chars \cup {ZERO, NULL}]
    BY <1>2, <1>3
  <2> HIDE DEF cells
  <2>2. QED
    BY <1>2, <2>1
<1>5. w = [r EXCEPT !.cells = cells]
  BY DEF Written
<1> HIDE DEF cells
<1>6. w \in Block /\ w.resource = r.resource /\ w.cells = cells
  BY <1>1, <1>4, <1>5 DEF Block
<1>7. QED
  BY <1>3, <1>4, <1>6

(* Fresh memory; the first `length' cells are all it has. *)
LEMMA FreshBlock ==
  ASSUME NEW resource \in Resources, NEW length \in Nat
  PROVE  /\ Fresh(resource, length) \in Block
         /\ Fresh(resource, length).resource = resource
         /\ Len(Fresh(resource, length).cells) = length
         /\ \A i \in 1 .. length : Fresh(resource, length).cells[i] =
              IF resource \in Zeroing THEN ZERO ELSE NULL
<1> DEFINE cells == [i \in 1 .. length |-> IF resource \in Zeroing THEN ZERO ELSE NULL]
<1>1. cells \in Seq(Chars \cup {ZERO, NULL}) /\ Len(cells) = length
  OBVIOUS
<1>2. \A i \in 1 .. length : cells[i] = IF resource \in Zeroing THEN ZERO ELSE NULL
  OBVIOUS
<1>3. Fresh(resource, length) = [resource |-> resource, cells |-> cells]
  BY DEF Fresh
<1> HIDE DEF cells
<1>4. QED
  BY <1>1, <1>2, <1>3 DEF Block

LEMMA FreedMemory ==
  ASSUME NEW m \in Memory, NEW d
  PROVE  /\ Freed(m, d) \in Memory
         /\ \A b \in Blocks : Freed(m, d)[b] = IF b = d THEN NULL ELSE m[b]
BY DEF Freed, Memory

(* The text of a string is a text. *)
LEMMA TextOf ==
  ASSUME NEW m, NEW x, Good(m, x)
  PROVE  /\ Text(m, x) \in Text_
         /\ Len(Text(m, x)) = x.size
         /\ \A i \in 1 .. x.size : Text(m, x)[i] = m[x.data].cells[i]
<1>1. x.size \in Nat /\ x.capacity \in Nat /\ (x.size # 0 => x.data # NULL)
  BY DEF Good, Structure
<1>2. \A i \in 1 .. x.size : m[x.data].cells[i] \in Chars \cup {ZERO}
  BY <1>1 DEF Good
<1>3. QED
  BY <1>1, <1>2 DEF Text, Text_

(* A block written into: the string is good when its new text is in it.    *)
LEMMA WriteFollows ==
  ASSUME NEW m \in Memory, NEW x, Good(m, x), x.data # NULL,
         NEW n \in Nat, NEW text \in Text_, NEW size \in 0 .. x.capacity,
         \A i \in 1 .. size : i <= n + Len(text) \/ i <= x.size,
         n <= x.size
  PROVE  /\ Follows(m, x, Outcome([m EXCEPT ![x.data] = Written(@, n, text)],
                                  [x EXCEPT !.size = size]))
         /\ [m EXCEPT ![x.data] = Written(@, n, text)][x.data] = Written(m[x.data], n, text)
<1> DEFINE r == Written(m[x.data], n, text)
           mm == [m EXCEPT ![x.data] = Written(@, n, text)]
           y == [x EXCEPT !.size = size]
<1>1. /\ x \in Structure /\ x.capacity \in Nat /\ x.size \in Nat /\ Len(text) \in Nat
      /\ x.size <= x.capacity
      /\ x.data \in Blocks /\ m[x.data] \in Block
      /\ m[x.data].resource = x.memory_resource
      /\ Len(m[x.data].cells) = x.capacity + 1
      /\ \A i \in 1 .. x.size : m[x.data].cells[i] \in Chars \cup {ZERO}
  BY GoodData DEF Good, Structure, Text_
<1>2. /\ r \in Block /\ r.resource = x.memory_resource
      /\ Len(r.cells) = x.capacity + 1
      /\ \A i \in 1 .. x.capacity + 1 :
           r.cells[i] = IF n + 1 <= i /\ i <= n + Len(text) THEN text[i - n]
                        ELSE m[x.data].cells[i]
  <2> DEFINE old == m[x.data]
  <2>1. old \in Block /\ old.resource = x.memory_resource /\ Len(old.cells) = x.capacity + 1
    BY <1>1
  <2> HIDE DEF old
  <2>2. /\ Written(old, n, text) \in Block
        /\ Written(old, n, text).resource = old.resource
        /\ Len(Written(old, n, text).cells) = Len(old.cells)
        /\ \A i \in 1 .. Len(old.cells) :
             Written(old, n, text).cells[i] =
               IF n + 1 <= i /\ i <= n + Len(text) THEN text[i - n] ELSE old.cells[i]
    BY <2>1, WrittenBlock
  <2>3. r = Written(old, n, text)
    BY DEF old
  <2> HIDE DEF r
  <2>4. QED
    BY <2>1, <2>2, <2>3 DEF old
<1>3. /\ mm \in Memory
      /\ mm[x.data] = r
      /\ \A b \in Blocks : b # x.data => mm[b] = m[b]
  BY <1>1, <1>2 DEF Memory
<1>4. /\ y \in Structure /\ y.size = size /\ y.data = x.data /\ y.capacity = x.capacity
      /\ y.memory_resource = x.memory_resource
  BY <1>1 DEF Structure
<1>5. \A i \in 1 .. size : r.cells[i] \in Chars \cup {ZERO}
  <2>1. SUFFICES ASSUME NEW i \in 1 .. size
                 PROVE  r.cells[i] \in Chars \cup {ZERO}
    OBVIOUS
  <2>2. i \in 1 .. x.capacity + 1
    BY <1>1
  <2>3. CASE n + 1 <= i /\ i <= n + Len(text)
    <3>1. i - n \in 1 .. Len(text)
      BY <1>1, <2>3
    <3>2. text[i - n] \in Chars \cup {ZERO}
      BY <3>1 DEF Text_
    <3>3. QED
      BY <1>2, <2>2, <2>3, <3>2
  <2>4. CASE ~(n + 1 <= i /\ i <= n + Len(text))
    <3>1. i \in 1 .. x.size
      BY <1>1, <2>4
    <3>2. QED
      BY <1>1, <1>2, <2>2, <2>4, <3>1
  <2>5. QED
    BY <2>3, <2>4
<1> HIDE DEF r, mm, y
<1>6. Good(mm, y)
  BY <1>1, <1>2, <1>3, <1>4, <1>5 DEF Good
<1>7. Follows(m, x, Outcome(mm, y))
  BY <1>3, <1>4, <1>6 DEF Follows, Outcome
<1>8. QED
  BY <1>3, <1>7 DEF mm, y, r

(* A new block in place of the old one. *)
LEMMA PlaceFollows ==
  ASSUME NEW m \in Memory, NEW x, Good(m, x), NEW b \in Blocks, m[b] = NULL,
         NEW mm \in Memory, NEW y \in Structure, y.data = b,
         y.size <= y.capacity,
         mm[b] \in Block, mm[b].resource = y.memory_resource,
         Len(mm[b].cells) = y.capacity + 1,
         \A i \in 1 .. y.size : mm[b].cells[i] \in Chars \cup {ZERO},
         \A a \in Blocks : a # b => mm[a] = IF a = x.data THEN NULL ELSE m[a]
  PROVE  Follows(m, x, Outcome(mm, y))
<1>1. b # NULL
  BY StringAssumption
<1>2. Good(mm, y)
  BY <1>1 DEF Good
<1>3. x.data # NULL => x.data \in Blocks
  BY GoodData
<1>4. QED
  BY <1>1, <1>2, <1>3 DEF Follows, Outcome

-----------------------------------------------------------------------------
(* The functions of String.c.                                              *)

(* string_ctor_capacity: the buffer has its zero at the end, and in front  *)
(* the contents of fresh memory.                                           *)
LEMMA ConstructedFollows ==
  ASSUME NEW m \in Memory, NEW resource \in Resources, NEW capacity \in Nat,
         NEW o \in Constructed(m, resource, capacity)
  PROVE  /\ Follows(m, Empty, o)
         /\ o.string.memory_resource = resource
         /\ o.string.size = 0
         /\ o.string.capacity = capacity
         /\ capacity # 0 =>
              /\ o.string.data # NULL
              /\ Len(o.mem[o.string.data].cells) = capacity + 1
              /\ o.mem[o.string.data].cells[capacity + 1] = ZERO
              /\ \A i \in 1 .. capacity :
                   o.mem[o.string.data].cells[i] = IF resource \in Zeroing THEN ZERO ELSE NULL
<1>1. CASE capacity = 0
  <2> DEFINE y == [Empty EXCEPT !.memory_resource = resource]
  <2>1. o = Outcome(m, y)
    BY <1>1 DEF Constructed
  <2>2. /\ y \in Structure /\ y.data = NULL /\ y.size = 0 /\ y.capacity = 0
        /\ y.memory_resource = resource
    BY DEF Empty, Structure
  <2> HIDE DEF y
  <2>3. Good(m, y)
    BY <2>2 DEF Good
  <2>4. Follows(m, Empty, o)
    BY <2>1, <2>2, <2>3, EmptyGood DEF Follows, Outcome
  <2>5. QED
    BY <1>1, <2>1, <2>2, <2>4 DEF Outcome
<1>2. CASE capacity # 0
  <2> DEFINE f == Fresh(resource, capacity + 1)
             r == Written(f, capacity, <<ZERO>>)
             Y(b) == [memory_resource |-> resource, data |-> b, size |-> 0,
                      capacity |-> capacity]
  <2>1. PICK b \in Granted(m, resource, capacity + 1) :
          o = Outcome([m EXCEPT ![b] = r], Y(b))
    BY <1>2 DEF Constructed
  <2>2. b \in Blocks /\ m[b] = NULL /\ b # NULL
    BY <2>1, StringAssumption DEF Granted
  <2>3. /\ f \in Block /\ f.resource = resource /\ Len(f.cells) = capacity + 1
        /\ \A i \in 1 .. capacity + 1 : f.cells[i] = IF resource \in Zeroing THEN ZERO ELSE NULL
    BY FreshBlock
  <2> HIDE DEF f
  <2>4. <<ZERO>> \in Text_ /\ Len(<<ZERO>>) = 1 /\ <<ZERO>>[1] = ZERO
    BY DEF Text_
  <2>5. /\ r \in Block /\ r.resource = resource /\ Len(r.cells) = capacity + 1
        /\ \A i \in 1 .. capacity + 1 :
             r.cells[i] = IF capacity + 1 <= i /\ i <= capacity + Len(<<ZERO>>)
                          THEN <<ZERO>>[i - capacity] ELSE f.cells[i]
    <3>1. /\ Written(f, capacity, <<ZERO>>) \in Block
          /\ Written(f, capacity, <<ZERO>>).resource = f.resource
          /\ Len(Written(f, capacity, <<ZERO>>).cells) = Len(f.cells)
          /\ \A i \in 1 .. Len(f.cells) :
               Written(f, capacity, <<ZERO>>).cells[i] =
                 IF capacity + 1 <= i /\ i <= capacity + Len(<<ZERO>>)
                 THEN <<ZERO>>[i - capacity] ELSE f.cells[i]
      BY <2>3, <2>4, WrittenBlock
    <3>2. r = Written(f, capacity, <<ZERO>>)
      OBVIOUS
    <3> HIDE DEF r
    <3>3. QED
      BY <2>3, <3>1, <3>2
  <2> HIDE DEF r
  <2>6. r.cells[capacity + 1] = ZERO
    <3>1. capacity + 1 - capacity = 1 /\ capacity + 1 <= capacity + Len(<<ZERO>>)
          /\ capacity + 1 \in 1 .. capacity + 1
      BY <2>4
    <3>2. r.cells[capacity + 1] = <<ZERO>>[capacity + 1 - capacity]
      BY <2>5, <3>1
    <3>3. QED
      BY <2>4, <3>1, <3>2
  <2>7. \A i \in 1 .. capacity : r.cells[i] = IF resource \in Zeroing THEN ZERO ELSE NULL
    <3>1. SUFFICES ASSUME NEW i \in 1 .. capacity
                   PROVE  r.cells[i] = IF resource \in Zeroing THEN ZERO ELSE NULL
      OBVIOUS
    <3>2. r.cells[i] = f.cells[i]
      BY <2>5, <3>1
    <3>3. QED
      BY <2>3, <3>1, <3>2
  <2> DEFINE mm == [m EXCEPT ![b] = r]
  <2>8. mm \in Memory /\ mm[b] = r /\ \A a \in Blocks : a # b => mm[a] = m[a]
    BY <2>2, <2>5 DEF Memory
  <2>9. /\ Y(b) \in Structure /\ Y(b).data = b /\ Y(b).size = 0 /\ Y(b).capacity = capacity
        /\ Y(b).memory_resource = resource
    BY <2>2 DEF Structure
  <2>10. o.mem = mm /\ o.string = Y(b) /\ o = Outcome(mm, Y(b))
    BY <2>1 DEF Outcome
  <2> HIDE DEF mm, Y
  <2>11. Good(m, Empty) /\ Empty.data = NULL
    BY EmptyGood
  <2>12. \A a \in Blocks : a # b => mm[a] = IF a = Empty.data THEN NULL ELSE m[a]
    BY <2>8, <2>11, StringAssumption
  <2>13. Follows(m, Empty, Outcome(mm, Y(b)))
    <3>1. /\ mm[b] \in Block /\ mm[b].resource = Y(b).memory_resource
          /\ Len(mm[b].cells) = Y(b).capacity + 1
          /\ Y(b).size <= Y(b).capacity
          /\ \A i \in 1 .. Y(b).size : mm[b].cells[i] \in Chars \cup {ZERO}
      BY <2>5, <2>8, <2>9
    <3>2. QED
      BY <2>2, <2>8, <2>9, <2>11, <2>12, <3>1, PlaceFollows
  <2>14. QED
    BY <2>2, <2>5, <2>6, <2>7, <2>8, <2>9, <2>10, <2>13
<1>3. QED
  BY <1>1, <1>2

(* string_realloc keeps the text. *)
LEMMA ReallocatedFollows ==
  ASSUME NEW m \in Memory, NEW x, Good(m, x), x.memory_resource # NULL,
         NEW capacity \in Nat, NEW o \in Reallocated(m, x, capacity)
  PROVE  /\ Follows(m, x, o)
         /\ o.string.memory_resource = x.memory_resource
         /\ o.string.size = x.size
         /\ o.string.capacity >= capacity
         /\ o.string.capacity \in Nat
         /\ capacity # 0 => o.string.data # NULL
         /\ \A i \in 1 .. x.size : o.mem[o.string.data].cells[i] = m[x.data].cells[i]
<1>1. /\ x \in Structure /\ x.capacity \in Nat /\ x.size \in Nat /\ x.size <= x.capacity
      /\ x.memory_resource \in Resources /\ (x.data = NULL => x.capacity = 0)
      /\ (x.data # NULL => x.data \in Blocks)
  BY GoodData DEF Good, Structure
<1>2. CASE x.capacity >= capacity
  <2>1. o = Outcome(m, x)
    BY <1>2 DEF Reallocated
  <2>2. Follows(m, x, o)
    BY <2>1, FollowsSelf
  <2>3. QED
    BY <1>1, <1>2, <2>1, <2>2 DEF Outcome
<1>3. CASE ~(x.capacity >= capacity)
  <2> DEFINE f == Fresh(x.memory_resource, capacity + 1)
             text == Append(Text(m, x), ZERO)
             r == Written(f, 0, text)
             Y(b) == [x EXCEPT !.data = b, !.capacity = capacity]
  <2>1. PICK b \in Granted(m, x.memory_resource, capacity + 1) :
          o = Outcome([Freed(m, x.data) EXCEPT ![b] = r], Y(b))
    BY <1>3 DEF Reallocated
  <2>2. b \in Blocks /\ m[b] = NULL /\ b # NULL
    BY <2>1, StringAssumption DEF Granted
  <2>3. f \in Block /\ f.resource = x.memory_resource /\ Len(f.cells) = capacity + 1
    BY <1>1, FreshBlock
  <2> HIDE DEF f
  <2>4. /\ text \in Text_ /\ Len(text) = x.size + 1
        /\ \A i \in 1 .. x.size : text[i] = m[x.data].cells[i]
    <3>1. /\ Text(m, x) \in Text_ /\ Len(Text(m, x)) = x.size
          /\ \A i \in 1 .. x.size : Text(m, x)[i] = m[x.data].cells[i]
      BY TextOf
    <3> DEFINE t == Text(m, x)
    <3> HIDE DEF t
    <3>2. t \in Text_ /\ Len(t) = x.size /\ \A i \in 1 .. x.size : t[i] = m[x.data].cells[i]
      BY <3>1 DEF t
    <3>3. /\ Append(t, ZERO) \in Text_ /\ Len(Append(t, ZERO)) = x.size + 1
          /\ \A i \in 1 .. x.size : Append(t, ZERO)[i] = t[i]
      BY <1>1, <3>2 DEF Text_
    <3>4. QED
      BY <3>2, <3>3 DEF t
  <2> HIDE DEF text
  <2>5. /\ r \in Block /\ r.resource = x.memory_resource /\ Len(r.cells) = capacity + 1
        /\ \A i \in 1 .. capacity + 1 :
             r.cells[i] = IF 0 + 1 <= i /\ i <= 0 + Len(text) THEN text[i - 0] ELSE f.cells[i]
    <3>0. f \in Block /\ 0 \in Nat /\ text \in Text_
      BY <2>3, <2>4
    <3>1. /\ Written(f, 0, text) \in Block
          /\ Written(f, 0, text).resource = f.resource
          /\ Len(Written(f, 0, text).cells) = Len(f.cells)
          /\ \A i \in 1 .. Len(f.cells) :
               Written(f, 0, text).cells[i] =
                 IF 0 + 1 <= i /\ i <= 0 + Len(text) THEN text[i - 0] ELSE f.cells[i]
      BY <3>0, WrittenBlock, Zenon
    <3>2. r = Written(f, 0, text)
      OBVIOUS
    <3> HIDE DEF r
    <3>3. QED
      BY <2>3, <3>1, <3>2
  <2> HIDE DEF r
  <2>6. \A i \in 1 .. x.size : r.cells[i] = m[x.data].cells[i]
    <3>1. SUFFICES ASSUME NEW i \in 1 .. x.size
                   PROVE  r.cells[i] = m[x.data].cells[i]
      OBVIOUS
    <3>2. i \in 1 .. capacity + 1 /\ 0 + 1 <= i /\ i <= 0 + Len(text) /\ i - 0 = i
      BY <1>1, <1>3, <2>4
    <3>3. r.cells[i] = text[i - 0]
      BY <2>5, <3>2
    <3>4. QED
      BY <2>4, <3>2, <3>3
  <2>7. \A i \in 1 .. x.size : r.cells[i] \in Chars \cup {ZERO}
    <3>1. SUFFICES ASSUME NEW i \in 1 .. x.size
                   PROVE  m[x.data].cells[i] \in Chars \cup {ZERO}
      BY <2>6
    <3>2. x.data # NULL
      BY <1>1
    <3>3. QED
      BY <3>2 DEF Good
  <2> DEFINE fm == Freed(m, x.data)
             mm == [fm EXCEPT ![b] = r]
  <2>8. fm \in Memory /\ \A a \in Blocks : fm[a] = IF a = x.data THEN NULL ELSE m[a]
    BY FreedMemory
  <2> HIDE DEF fm
  <2>9. mm \in Memory /\ mm[b] = r
        /\ \A a \in Blocks : a # b => mm[a] = IF a = x.data THEN NULL ELSE m[a]
    BY <2>2, <2>5, <2>8 DEF Memory
  <2>10. /\ Y(b) \in Structure /\ Y(b).data = b /\ Y(b).size = x.size
         /\ Y(b).capacity = capacity /\ Y(b).memory_resource = x.memory_resource
    BY <1>1, <2>2 DEF Structure
  <2>11. o.mem = mm /\ o.string = Y(b) /\ o = Outcome(mm, Y(b))
    BY <2>1 DEF Outcome, fm
  <2> HIDE DEF mm, Y
  <2>12. Y(b).size <= Y(b).capacity
    BY <1>1, <1>3, <2>10
  <2>13. \A i \in 1 .. Y(b).size : mm[b].cells[i] \in Chars \cup {ZERO}
    BY <2>7, <2>9, <2>10
  <2>14. Follows(m, x, Outcome(mm, Y(b)))
    BY <2>2, <2>5, <2>9, <2>10, <2>12, <2>13, PlaceFollows
  <2>15. QED
    BY <2>2, <2>6, <2>9, <2>10, <2>11, <2>14
<1>4. QED
  BY <1>2, <1>3

(* The zero stands behind the text of the outcome o, ...                   *)
Ends(o) ==
  LET cells == o.mem[o.string.data].cells
  IN  cells[o.string.size + 1] = ZERO

(* ... or the string x kept its size, or has an untouched buffer.          *)
EndsAfter(x, o) ==
  (o.string.size # x.size /\ o.string.data # NULL) =>
    \/ Ends(o)
    \/ /\ o.string.size = 0
       /\ \A i \in 1 .. Len(o.mem[o.string.data].cells) - 1 :
            o.mem[o.string.data].cells[i] = NULL

(* A text and its zero written into a buffer that has room for them.       *)
LEMMA FilledFollows ==
  ASSUME NEW o, o.mem \in Memory, Good(o.mem, o.string), o.string.data # NULL,
         NEW n \in Nat, n <= o.string.size, NEW text \in Text_,
         n + Len(text) <= o.string.capacity
  PROVE  /\ Follows(o.mem, o.string, Filled(o, n, text))
         /\ Filled(o, n, text).string.size = n + Len(text)
         /\ Filled(o, n, text).string.data = o.string.data
         /\ Ends(Filled(o, n, text))
<1> DEFINE m == o.mem
           x == o.string
           z == Append(text, ZERO)
           r == Written(m[x.data], n, z)
           mm == [m EXCEPT ![x.data] = Written(@, n, z)]
           y == [x EXCEPT !.size = n + Len(text)]
<1>1. /\ m \in Memory /\ Good(m, x) /\ x.data # NULL /\ n <= x.size
      /\ n + Len(text) <= x.capacity
  OBVIOUS
<1>2. Filled(o, n, text) = Outcome(mm, y)
  BY DEF Filled
<1> HIDE DEF m, x
<1>3. /\ x \in Structure /\ x.size \in Nat /\ x.capacity \in Nat /\ x.size <= x.capacity
      /\ x.data \in Blocks /\ m[x.data] \in Block
      /\ Len(m[x.data].cells) = x.capacity + 1
  BY <1>1, GoodData DEF Good, Structure
<1>4. /\ z \in Text_ /\ Len(z) = Len(text) + 1 /\ z[Len(text) + 1] = ZERO
      /\ Len(text) \in Nat
  BY DEF Text_
<1> HIDE DEF z
<1>5. /\ n + Len(text) \in 0 .. x.capacity
      /\ \A i \in 1 .. n + Len(text) : i <= n + Len(z) \/ i <= x.size
  BY <1>1, <1>3, <1>4
<1>6. Follows(m, x, Outcome(mm, y)) /\ mm[x.data] = r
  BY <1>1, <1>4, <1>5, WriteFollows
<1>7. r.cells[n + Len(text) + 1] = ZERO
  <2> DEFINE old == m[x.data]
             k == n + Len(text) + 1
  <2>1. old \in Block /\ Len(old.cells) = x.capacity + 1
    BY <1>3
  <2> HIDE DEF old
  <2>2. \A i \in 1 .. Len(old.cells) : Written(old, n, z).cells[i] =
          IF n + 1 <= i /\ i <= n + Len(z) THEN z[i - n] ELSE old.cells[i]
    BY <1>4, <2>1, WrittenBlock
  <2>3. /\ k \in 1 .. Len(old.cells) /\ n + 1 <= k /\ k <= n + Len(z)
        /\ k - n = Len(text) + 1
    BY <1>1, <1>3, <1>4, <2>1
  <2> HIDE DEF k
  <2>4. Written(old, n, z).cells[k] = z[Len(text) + 1]
    BY <2>2, <2>3
  <2>5. QED
    BY <1>4, <2>4 DEF old, k
<1>8. y.size = n + Len(text) /\ y.data = x.data
  BY <1>3 DEF Structure
<1> HIDE DEF mm, y, r
<1>9. Filled(o, n, text).mem = mm /\ Filled(o, n, text).string = y
  BY <1>2 DEF Outcome
<1>10. QED
  BY <1>2, <1>6, <1>7, <1>8, <1>9 DEF Ends, m, x

(* string_append_str, string_vprintf *)
LEMMA AppendedFollows ==
  ASSUME NEW m \in Memory, NEW x, Good(m, x), x.memory_resource # NULL,
         NEW text \in Text_, NEW p \in Appended(m, x, text)
  PROVE  Follows(m, x, p) /\ (p.string.size # x.size => Ends(p))
<1>1. x.size \in Nat /\ Len(text) \in Nat
  BY DEF Good, Structure, Text_
<1>2. CASE text = <<>>
  <2>1. p = Outcome(m, x)
    BY <1>2 DEF Appended
  <2>2. QED
    BY <2>1, FollowsSelf DEF Outcome
<1>3. CASE text # <<>>
  <2> DEFINE c == x.size + Len(text)
  <2>1. PICK o \in Reallocated(m, x, c) : p = Filled(o, x.size, text)
    BY <1>3 DEF Appended
  <2>2. c \in Nat /\ c # 0
    BY <1>1, <1>3 DEF Text_
  <2>3. /\ Follows(m, x, o) /\ o.string.size = x.size /\ o.string.capacity >= c
        /\ o.string.capacity \in Nat /\ o.string.data # NULL
    BY <2>1, <2>2, ReallocatedFollows
  <2>4. o.mem \in Memory /\ Good(o.mem, o.string)
    BY <2>3 DEF Follows
  <2>5. Follows(o.mem, o.string, p) /\ Ends(p)
    BY <1>1, <2>1, <2>3, <2>4, FilledFollows
  <2>6. QED
    BY <2>3, <2>5, FollowsTrans
<1>4. QED
  BY <1>2, <1>3

(* string_ctor_str *)
LEMMA ConstructedFromFollows ==
  ASSUME NEW m \in Memory, NEW resource \in Resources, NEW text \in Text_,
         NEW p \in ConstructedFrom(m, resource, text)
  PROVE  Follows(m, Empty, p) /\ (p.string.size # 0 => Ends(p))
<1> DEFINE c == Len(text)
<1>1. PICK o \in Constructed(m, resource, c) :
        p = IF text = <<>> THEN o
            ELSE Outcome([o.mem EXCEPT ![o.string.data] = Written(@, 0, text)],
                         [o.string EXCEPT !.size = Len(text)])
  BY DEF ConstructedFrom
<1>2. c \in Nat /\ (text # <<>> => c # 0)
  BY DEF Text_
<1>3. /\ Follows(m, Empty, o) /\ o.string.size = 0 /\ o.string.capacity = c
      /\ c # 0 => /\ o.string.data # NULL
                  /\ Len(o.mem[o.string.data].cells) = c + 1
                  /\ o.mem[o.string.data].cells[c + 1] = ZERO
  BY <1>1, <1>2, ConstructedFollows
<1>4. CASE text = <<>>
  BY <1>1, <1>3, <1>4
<1>5. CASE text # <<>>
  <2> DEFINE om == o.mem
             x == o.string
             mm == [om EXCEPT ![x.data] = Written(@, 0, text)]
             y == [x EXCEPT !.size = c]
  <2>1. p = Outcome(mm, y)
    BY <1>1, <1>5
  <2>2. om \in Memory /\ Good(om, x) /\ x.data # NULL /\ x.capacity = c /\ x.size = 0
    BY <1>2, <1>3, <1>5 DEF Follows
  <2>3. Len(om[x.data].cells) = c + 1 /\ om[x.data].cells[c + 1] = ZERO
    BY <1>2, <1>3, <1>5
  <2>4. Follows(m, Empty, o) /\ o.mem = om /\ o.string = x
    BY <1>3
  <2> HIDE DEF om, x
  <2>5. /\ om[x.data] \in Block /\ x \in Structure
    BY <2>2 DEF Good
  <2>6. c \in 0 .. x.capacity /\ \A i \in 1 .. c : i <= 0 + Len(text) \/ i <= x.size
    BY <1>2, <2>2
  <2>7. Follows(om, x, Outcome(mm, y)) /\ mm[x.data] = Written(om[x.data], 0, text)
    BY <2>2, <2>6, WriteFollows
  <2>8. Written(om[x.data], 0, text).cells[c + 1] = ZERO
    <3> DEFINE old == om[x.data]
    <3>1. old \in Block /\ Len(old.cells) = c + 1 /\ old.cells[c + 1] = ZERO
      BY <2>3, <2>5
    <3> HIDE DEF old
    <3>2. old \in Block /\ 0 \in Nat /\ text \in Text_
      BY <3>1
    <3>3. \A i \in 1 .. Len(old.cells) : Written(old, 0, text).cells[i] =
            IF 0 + 1 <= i /\ i <= 0 + Len(text) THEN text[i - 0] ELSE old.cells[i]
      BY <3>2, WrittenBlock, Zenon
    <3>4. c + 1 \in 1 .. Len(old.cells) /\ ~(c + 1 <= 0 + Len(text))
      BY <1>2, <3>1
    <3>5. Written(old, 0, text).cells[c + 1] = ZERO
      BY <3>1, <3>3, <3>4
    <3>6. QED
      BY <3>5 DEF old
  <2>9. y.size = c /\ y.data = x.data
    BY <2>5 DEF Structure
  <2> HIDE DEF mm, y
  <2>10. p.mem = mm /\ p.string = y
    BY <2>1 DEF Outcome
  <2>11. Ends(p)
    BY <2>7, <2>8, <2>9, <2>10 DEF Ends
  <2>12. Follows(m, Empty, p)
    BY <2>1, <2>4, <2>7, EmptyGood, FollowsTrans
  <2>13. QED
    BY <2>11, <2>12
<1>6. QED
  BY <1>4, <1>5

(* A text written over the first characters of a buffer. *)
LEMMA OverwriteFollows ==
  ASSUME NEW m \in Memory, NEW x, Good(m, x), x.data # NULL,
         NEW n \in Nat, n <= x.size, NEW text \in Text_
  PROVE  /\ Follows(m, x, Outcome([m EXCEPT ![x.data] = Written(@, n, text)], x))
         /\ Follows(m, x, Outcome([m EXCEPT ![x.data] = Written(@, n, text)],
                                  [x EXCEPT !.size = n]))
         /\ [m EXCEPT ![x.data] = Written(@, n, text)][x.data] = Written(m[x.data], n, text)
<1>1. x.size \in 0 .. x.capacity /\ n \in 0 .. x.capacity /\ x \in Structure
  BY DEF Good, Structure
<1>2. x = [x EXCEPT !.size = x.size]
  BY <1>1 DEF Structure
<1>3. /\ \A i \in 1 .. x.size : i <= n + Len(text) \/ i <= x.size
      /\ \A i \in 1 .. n : i <= n + Len(text) \/ i <= x.size
  BY <1>1
<1>4. Follows(m, x, Outcome([m EXCEPT ![x.data] = Written(@, n, text)],
                            [x EXCEPT !.size = x.size]))
  BY <1>1, <1>3, WriteFollows
<1>5. /\ Follows(m, x, Outcome([m EXCEPT ![x.data] = Written(@, n, text)],
                               [x EXCEPT !.size = n]))
      /\ [m EXCEPT ![x.data] = Written(@, n, text)][x.data] = Written(m[x.data], n, text)
  BY <1>1, <1>3, WriteFollows
<1>6. QED
  BY <1>2, <1>4, <1>5

(* A zero at the place where the text ends from now on. *)
LEMMA CutFollows ==
  ASSUME NEW m \in Memory, NEW x, Good(m, x), x.data # NULL,
         NEW n \in Nat, n <= x.size, NEW text \in Text_, Len(text) > 0, text[1] = ZERO,
         NEW o, o = Outcome([m EXCEPT ![x.data] = Written(@, n, text)], [x EXCEPT !.size = n])
  PROVE  Follows(m, x, o) /\ Ends(o)
<1> DEFINE mm == [m EXCEPT ![x.data] = Written(@, n, text)]
           y == [x EXCEPT !.size = n]
<1>1. o = Outcome(mm, y)
  OBVIOUS
<1>2. Follows(m, x, Outcome(mm, y)) /\ mm[x.data] = Written(m[x.data], n, text)
  BY OverwriteFollows
<1>3. /\ x \in Structure /\ x.size \in Nat /\ x.capacity \in Nat /\ x.size <= x.capacity
      /\ m[x.data] \in Block /\ Len(m[x.data].cells) = x.capacity + 1
  BY DEF Good, Structure
<1>4. Written(m[x.data], n, text).cells[n + 1] = ZERO
  <2> DEFINE old == m[x.data]
  <2>1. old \in Block /\ Len(old.cells) = x.capacity + 1
    BY <1>3
  <2> HIDE DEF old
  <2>2. \A i \in 1 .. Len(old.cells) : Written(old, n, text).cells[i] =
          IF n + 1 <= i /\ i <= n + Len(text) THEN text[i - n] ELSE old.cells[i]
    BY <2>1, WrittenBlock
  <2>3. /\ n + 1 \in 1 .. Len(old.cells) /\ n + 1 <= n + Len(text) /\ (n + 1) - n = 1
    BY <1>3, <2>1 DEF Text_
  <2>4. Written(old, n, text).cells[n + 1] = text[1]
    BY <2>2, <2>3
  <2>5. QED
    BY <2>4 DEF old
<1>5. y.size = n /\ y.data = x.data
  BY <1>3 DEF Structure
<1> HIDE DEF mm, y
<1>6. o.mem = mm /\ o.string = y
  BY <1>1 DEF Outcome
<1>7. QED
  BY <1>1, <1>2, <1>4, <1>5, <1>6 DEF Ends

LEMMA NoText ==
  ASSUME NEW m, NEW x, Good(m, x), x.data = NULL
  PROVE  x.size = 0 /\ [x EXCEPT !.size = 0] = x
<1>1. x.size = 0 /\ x \in Structure
  BY DEF Good, Structure
<1>2. QED
  BY <1>1 DEF Structure

(* string_clear *)
LEMMA ClearedFollows ==
  ASSUME NEW m \in Memory, NEW x, Good(m, x)
  PROVE  Follows(m, x, Cleared(m, x)) /\ EndsAfter(x, Cleared(m, x))
<1>1. CASE x.data = NULL
  <2>1. Cleared(m, x) = Outcome(m, x)
    BY <1>1, NoText DEF Cleared
  <2>2. QED
    BY <2>1, FollowsSelf DEF EndsAfter, Outcome
<1>2. CASE x.data # NULL
  <2> DEFINE o == Outcome([m EXCEPT ![x.data] = Written(@, 0, <<ZERO>>)], [x EXCEPT !.size = 0])
  <2>1. Cleared(m, x) = o
    BY <1>2 DEF Cleared
  <2>2. <<ZERO>> \in Text_ /\ Len(<<ZERO>>) > 0 /\ <<ZERO>>[1] = ZERO /\ 0 <= x.size
    BY DEF Text_, Good, Structure
  <2>3. Follows(m, x, o) /\ Ends(o)
    BY <1>2, <2>2, CutFollows
  <2>4. QED
    BY <2>1, <2>3 DEF EndsAfter
<1>3. QED
  BY <1>1, <1>2

(* scratch_pop *)
LEMMA PoppedFollows ==
  ASSUME NEW m \in Memory, NEW x, Good(m, x), NEW count \in Nat, count <= x.size, count # 0
  PROVE  Follows(m, x, Popped(m, x, count)) /\ Ends(Popped(m, x, count))
<1>1. x \in Structure /\ x.size \in Nat /\ x.data # NULL
  BY NoText DEF Good, Structure
<1> DEFINE zeros == [i \in 1 .. count |-> ZERO]
           n == x.size - count
           o == Outcome([m EXCEPT ![x.data] = Written(@, n, zeros)], [x EXCEPT !.size = n])
<1>2. Popped(m, x, count) = o
  BY <1>1 DEF Popped
<1>3. zeros \in Text_ /\ Len(zeros) > 0 /\ zeros[1] = ZERO
  BY DEF Text_
<1>4. n \in Nat /\ n <= x.size
  BY <1>1
<1> HIDE DEF zeros, n
<1>5. Follows(m, x, o) /\ Ends(o)
  BY <1>1, <1>3, <1>4, CutFollows
<1>6. QED
  BY <1>2, <1>5

(* The buffer given back, as string_dtor does. *)
LEMMA FreedFollows ==
  ASSUME NEW m \in Memory, NEW x, Good(m, x)
  PROVE  Follows(m, x, Outcome(Freed(m, x.data), Empty))
<1>1. /\ Freed(m, x.data) \in Memory
      /\ \A b \in Blocks : Freed(m, x.data)[b] = IF b = x.data THEN NULL ELSE m[b]
  BY FreedMemory
<1>2. x.data # NULL => x.data \in Blocks
  BY GoodData
<1>3. Good(Freed(m, x.data), Empty) /\ Empty.data = NULL
  BY EmptyGood
<1>4. QED
  BY <1>1, <1>2, <1>3 DEF Follows, Outcome

(* The buffer given back after a new one was made, as string_replace_all   *)
(* does.                                                                   *)
LEMMA ReplacedFollows ==
  ASSUME NEW m \in Memory, NEW x, Good(m, x), x.data # NULL,
         NEW p, Follows(m, Empty, p)
  PROVE  Follows(m, x, Outcome(Freed(p.mem, x.data), p.string))
<1> DEFINE e == p.string.data
           mm == Freed(p.mem, x.data)
<1>1. x.data \in Blocks /\ m[x.data] # NULL
  BY GoodData
<1>2. /\ p.mem \in Memory /\ Good(p.mem, p.string)
      /\ e # NULL => e \in Blocks /\ p.mem[e] # NULL /\ m[e] = NULL
      /\ \A b \in Blocks : b # e => p.mem[b] = m[b]
  <2>1. p.mem \in Memory /\ Good(p.mem, p.string)
    BY DEF Follows
  <2>2. e # NULL => e \in Blocks /\ p.mem[e] # NULL
    BY <2>1, GoodData
  <2>3. e # NULL => m[e] = NULL
    BY EmptyGood DEF Follows
  <2>4. \A b \in Blocks : b # e => p.mem[b] = m[b]
    BY EmptyGood, StringAssumption DEF Follows
  <2>5. QED
    BY <2>1, <2>2, <2>3, <2>4
<1>3. mm \in Memory /\ \A b \in Blocks : mm[b] = IF b = x.data THEN NULL ELSE p.mem[b]
  BY <1>2, FreedMemory
<1>4. e # x.data
  BY <1>1, <1>2
<1> HIDE DEF mm
<1>5. Good(mm, p.string)
  BY <1>2, <1>3, <1>4 DEF Good
<1>6. QED
  BY <1>1, <1>2, <1>3, <1>4, <1>5 DEF Follows, Outcome, mm

-----------------------------------------------------------------------------
(* Replacing.  The recursive function in Replaced exists and its values    *)
(* are texts; both by the smallest suffix for which it were not so.        *)

LEMMA Least ==
  ASSUME NEW S \in SUBSET Nat, NEW k \in S
  PROVE  \E n \in S : \A q \in S : n <= q
<1> DEFINE R == OpToRel(<, Nat)
<1>1. IsWellFoundedOn(R, Nat)
  BY NatLessThanWellFounded
<1>2. \A x, y \in Nat : x < y => <<x, y>> \in R
  BY DEF OpToRel
<1> HIDE DEF R
<1>3. S \subseteq Nat /\ S # {}
  OBVIOUS
<1>4. PICK n \in S : \A q \in S : ~(<<q, n>> \in R)
  BY <1>1, <1>3, WFMin
<1>5. \A q \in S : n <= q
  <2>1. SUFFICES ASSUME NEW q \in S
                 PROVE  n <= q
    OBVIOUS
  <2>2. ~(q < n)
    BY <1>2, <1>4
  <2>3. QED
    BY <2>2
<1>6. QED
  BY <1>5

LEMMA OccurrenceEnds ==
  ASSUME NEW text \in Text_, NEW from \in Text_, from # <<>>,
         NEW i \in 1 .. Len(text), OccursAt(text, from, i)
  PROVE  i + Len(from) \in i + 1 .. Len(text) + 1
<1>1. Len(text) \in Nat /\ Len(from) \in Nat /\ Len(from) # 0
  BY DEF Text_
<1>2. Len(from) <= Len(SubSeq(text, i, Len(text)))
  BY DEF OccursAt, IsPrefix
<1>3. Len(SubSeq(text, i, Len(text))) = Len(text) - i + 1
  BY <1>1 DEF Text_
<1>4. QED
  BY <1>1, <1>2, <1>3

LEMMA ReplacedText ==
  ASSUME NEW text \in Text_, NEW from \in Text_, from # <<>>, NEW to \in Text_
  PROVE  Replaced(text, from, to) \in Text_
<1> DEFINE L == Len(text)
           Body(f, i) == IF i > Len(text) THEN <<>>
                         ELSE IF OccursAt(text, from, i) THEN to \o f[i + Len(from)]
                         ELSE <<text[i]>> \o f[i + 1]
           rest == CHOOSE f : f = [i \in 1 .. Len(text) + 1 |-> Body(f, i)]
<1>1. Replaced(text, from, to) = rest[1]
  BY DEF Replaced
<1>2. L \in Nat /\ Len(from) \in Nat /\ \A i \in 1 .. L : text[i] \in Chars \cup {ZERO}
  BY DEF Text_
<1>3. \A i \in 1 .. L : OccursAt(text, from, i) => i + Len(from) \in i + 1 .. L + 1
  BY OccurrenceEnds
(* The value at i depends on later values only. *)
<1>4. ASSUME NEW f, NEW g, NEW i \in 1 .. L + 1, \A j \in i + 1 .. L + 1 : f[j] = g[j]
      PROVE  Body(f, i) = Body(g, i)
  <2>1. CASE i > L
    BY <2>1
  <2>2. CASE i <= L
    <3>1. i + 1 \in i + 1 .. L + 1
      BY <1>2, <2>2
    <3>2. f[i + 1] = g[i + 1]
      BY <1>4, <3>1
    <3>3. OccursAt(text, from, i) => f[i + Len(from)] = g[i + Len(from)]
      BY <1>3, <1>4, <2>2
    <3>4. QED
      BY <3>2, <3>3
  <2>3. QED
    BY <1>2, <2>1, <2>2
<1>5. ASSUME NEW f, NEW i \in 1 .. L + 1, \A j \in i + 1 .. L + 1 : f[j] \in Text_
      PROVE  Body(f, i) \in Text_
  <2>1. CASE i > L
    BY <2>1, <1>2 DEF Text_
  <2>2. CASE i <= L
    <3>1. CASE OccursAt(text, from, i)
      <4>1. f[i + Len(from)] \in Text_
        BY <1>3, <1>5, <2>2, <3>1
      <4>2. to \o f[i + Len(from)] \in Text_
        BY <4>1 DEF Text_
      <4>3. QED
        BY <1>2, <2>2, <3>1, <4>2
    <3>2. CASE ~OccursAt(text, from, i)
      <4>1. f[i + 1] \in Text_
        BY <1>2, <1>5, <2>2
      <4>2. <<text[i]>> \in Text_
        BY <1>2, <2>2 DEF Text_
      <4>3. <<text[i]>> \o f[i + 1] \in Text_
        BY <4>1, <4>2 DEF Text_
      <4>4. QED
        BY <1>2, <2>2, <3>2, <4>3
    <3>3. QED
      BY <3>1, <3>2
  <2>3. QED
    BY <1>2, <2>1, <2>2
<1> HIDE DEF Body
(* The function exists on the last n + 1 positions, for every n. *)
<1> DEFINE Exists(n) == \E f : f = [i \in L + 1 - n .. L + 1 |-> Body(f, i)]
<1>6. \A n \in 0 .. L : Exists(n)
  <2> SUFFICES ASSUME NEW k \in 0 .. L, ~Exists(k)
               PROVE  FALSE
    OBVIOUS
  <2> DEFINE S == {n \in 0 .. L : ~Exists(n)}
  <2> HIDE DEF Exists
  <2>1. S \in SUBSET Nat /\ k \in S
    OBVIOUS
  <2> HIDE DEF S
  <2>2. PICK n \in S : \A q \in S : n <= q
    BY <2>1, Least
  <2>3. n \in 0 .. L /\ ~Exists(n)
    BY DEF S
  <2>4. CASE n = 0
    <3> DEFINE f == [i \in L + 1 .. L + 1 |-> Body(<<>>, i)]
    <3>1. f = [i \in L + 1 - n .. L + 1 |-> Body(f, i)]
      <4>1. L + 1 - n = L + 1
        BY <1>2, <2>4
      <4>2. \A i \in L + 1 .. L + 1 : Body(<<>>, i) = Body(f, i)
        <5>1. SUFFICES ASSUME NEW i \in L + 1 .. L + 1
                       PROVE  Body(<<>>, i) = Body(f, i)
          OBVIOUS
        <5>2. i \in 1 .. L + 1 /\ \A j \in i + 1 .. L + 1 : FALSE
          BY <1>2
        <5>3. QED
          BY <1>4, <5>2
      <4>3. QED
        BY <4>1, <4>2
    <3>2. QED
      BY <2>3, <3>1 DEF Exists
  <2>5. CASE n # 0
    <3> DEFINE a == L + 1 - n
    <3>1. a \in 1 .. L /\ n - 1 \in 0 .. L /\ L + 1 - (n - 1) = a + 1 /\ ~(n <= n - 1)
      BY <1>2, <2>3, <2>5
    <3>2. Exists(n - 1)
      BY <2>2, <3>1 DEF S
    <3>3. PICK f : f = [i \in a + 1 .. L + 1 |-> Body(f, i)]
      BY <3>1, <3>2 DEF Exists
    <3> DEFINE g == [i \in a .. L + 1 |-> IF i = a THEN Body(f, a) ELSE f[i]]
    <3>4. \A j \in a + 1 .. L + 1 : g[j] = f[j]
      BY <1>2, <3>1
    <3>5. \A i \in a .. L + 1 : g[i] = Body(g, i)
      <4>1. SUFFICES ASSUME NEW i \in a .. L + 1
                     PROVE  g[i] = Body(g, i)
        OBVIOUS
      <4>2. g[i] = Body(f, i)
        <5>1. CASE i = a
          BY <5>1
        <5>2. CASE i # a
          <6>1. i \in a + 1 .. L + 1
            BY <1>2, <3>1, <5>2
          <6>2. f[i] = Body(f, i)
            BY <3>3, <6>1
          <6>3. g[i] = f[i]
            BY <3>4, <6>1
          <6>4. QED
            BY <6>2, <6>3
        <5>3. QED
          BY <5>1, <5>2
      <4>3. i \in 1 .. L + 1 /\ \A j \in i + 1 .. L + 1 : j \in a + 1 .. L + 1
        BY <1>2, <3>1
      <4>4. \A j \in i + 1 .. L + 1 : f[j] = g[j]
        BY <3>4, <4>3
      <4> HIDE DEF g
      <4>5. Body(f, i) = Body(g, i)
        BY <1>4, <4>3, <4>4
      <4>6. QED
        BY <4>2, <4>5
    <3>6. g = [i \in a .. L + 1 |-> Body(g, i)]
      BY <3>5
    <3>7. Exists(n)
      BY <3>6 DEF Exists
    <3>8. QED
      BY <2>3, <3>7
  <2>6. QED
    BY <2>4, <2>5
<1>7. rest = [i \in 1 .. L + 1 |-> Body(rest, i)]
  <2>1. L \in 0 .. L /\ L + 1 - L = 1
    BY <1>2
  <2>2. \E f : f = [i \in 1 .. L + 1 |-> Body(f, i)]
    BY <1>6, <2>1
  <2>3. QED
    BY <2>2
<1> HIDE DEF rest
<1>8. \A i \in 1 .. L + 1 : rest[i] \in Text_
  <2> SUFFICES ASSUME NEW k \in 1 .. L + 1, rest[k] \notin Text_
               PROVE  FALSE
    OBVIOUS
  <2> DEFINE S == {n \in 0 .. L : rest[L + 1 - n] \notin Text_}
  <2>1. L + 1 - k \in 0 .. L /\ L + 1 - (L + 1 - k) = k
    BY <1>2
  <2>2. S \in SUBSET Nat /\ L + 1 - k \in S
    BY <2>1
  <2> HIDE DEF S
  <2>3. PICK n \in S : \A q \in S : n <= q
    BY <2>2, Least
  <2>4. n \in 0 .. L /\ rest[L + 1 - n] \notin Text_
    BY DEF S
  <2> DEFINE i == L + 1 - n
  <2>5. i \in 1 .. L + 1
    BY <1>2, <2>4
  <2>6. \A j \in i + 1 .. L + 1 : rest[j] \in Text_
    <3>1. SUFFICES ASSUME NEW j \in i + 1 .. L + 1, rest[j] \notin Text_
                   PROVE  FALSE
      OBVIOUS
    <3>2. L + 1 - j \in 0 .. L /\ L + 1 - (L + 1 - j) = j /\ ~(n <= L + 1 - j)
      BY <1>2, <2>4
    <3>3. L + 1 - j \in S
      BY <3>1, <3>2 DEF S
    <3>4. QED
      BY <2>3, <3>2, <3>3
  <2>7. Body(rest, i) \in Text_
    BY <1>5, <2>5, <2>6
  <2>8. QED
    BY <1>7, <2>4, <2>5, <2>7
<1>9. QED
  BY <1>1, <1>2, <1>8

LEMMA TextUpToZero ==
  ASSUME NEW text \in Text_
  PROVE  UpToZero(text, ZERO) \in Text_ /\ Len(UpToZero(text, ZERO)) \in 0 .. Len(text)
<1> DEFINE I == {i \in 1 .. Len(text) : text[i] = ZERO}
           n == IF I # {} THEN Min(I) ELSE 0
<1>1. UpToZero(text, ZERO) = IF n = 0 THEN text ELSE SubSeq(text, 1, n - 1)
  BY DEF UpToZero, SelectInSeq
<1>2. Len(text) \in Nat
  BY DEF Text_
<1>3. n \in 0 .. Len(text)
  <2>1. CASE I = {}
    BY <1>2, <2>1
  <2>2. CASE I # {}
    <3>1. I \in SUBSET Nat /\ I \subseteq 1 .. Len(text)
      OBVIOUS
    <3> HIDE DEF I
    <3>2. PICK k \in I : \A q \in I : k <= q
      BY <2>2, <3>1, Least
    <3>3. Min(I) \in I
      BY <3>2 DEF Min
    <3>4. I # {} /\ Min(I) \in 1 .. Len(text)
      BY <2>2, <3>1, <3>3
    <3>5. QED
      BY <1>2, <3>4
  <2>3. QED
    BY <2>1, <2>2
<1> HIDE DEF n
<1>4. CASE n = 0
  BY <1>1, <1>2, <1>4
<1>5. CASE n # 0
  <2>1. UpToZero(text, ZERO) = SubSeq(text, 1, n - 1)
    BY <1>1, <1>5
  <2>2. n - 1 \in 0 .. Len(text)
    BY <1>2, <1>3, <1>5
  <2>3. SubSeq(text, 1, n - 1) \in Text_ /\ Len(SubSeq(text, 1, n - 1)) = n - 1
    BY <1>2, <2>2 DEF Text_
  <2>4. QED
    BY <2>1, <2>2, <2>3
<1>6. QED
  BY <1>4, <1>5

-----------------------------------------------------------------------------
(* The steps.  EndsStep is the property EndsInZero of one of them.         *)

EndsStep ==
  \A s \in Strings :
       (str'[s].size # str[s].size /\ str'[s].data # NULL) =>
         LET cells == mem'[str'[s].data].cells
         IN  /\ \A i \in 1 .. str'[s].size : cells[i] # NULL
             /\ \/ cells[str'[s].size + 1] = ZERO
                \/ str'[s].size = 0 /\ Untouched(str[s].data)'

Allowed(s, outcomes) ==
  \A o \in outcomes : Follows(mem, str[s], o) /\ EndsAfter(str[s], o)

LEMMA StepKeeps ==
  ASSUME IInv, NEW s \in Strings, NEW outcomes,
         Becomes(s, outcomes), Allowed(s, outcomes)
  PROVE  IInv' /\ EndsStep /\ OthersKept(s)
<1>1. IInv' /\ OthersKept(s)
  BY StepInv DEF Allowed
<1>2. PICK o \in outcomes : mem' = o.mem /\ str' = [str EXCEPT ![s] = o.string]
  BY DEF Becomes
<1>3. EndsAfter(str[s], o)
  BY DEF Allowed
<1>4. str \in [Strings -> Structure]
  BY DEF IInv
<1>5. str'[s] = o.string /\ \A t \in Strings : t # s => str'[t] = str[t]
  BY <1>2, <1>4
<1>6. EndsStep
  <2>1. SUFFICES ASSUME NEW t \in Strings, str'[t].size # str[t].size, str'[t].data # NULL
                 PROVE  LET cells == mem'[str'[t].data].cells
                        IN  /\ \A i \in 1 .. str'[t].size : cells[i] # NULL
                            /\ \/ cells[str'[t].size + 1] = ZERO
                               \/ str'[t].size = 0 /\ Untouched(str[t].data)'
    BY DEF EndsStep
  <2>2. t = s
    BY <1>5, <2>1
  <2>3. \/ Ends(o)
        \/ /\ o.string.size = 0
           /\ \A i \in 1 .. Len(o.mem[o.string.data].cells) - 1 :
                o.mem[o.string.data].cells[i] = NULL
    BY <1>3, <1>5, <2>1, <2>2 DEF EndsAfter
  <2>4. \/ mem'[str'[t].data].cells[str'[t].size + 1] = ZERO
        \/ str'[t].size = 0 /\ Untouched(str[t].data)'
    BY <1>2, <1>5, <2>2, <2>3 DEF Ends, Untouched
  <2>5. Good(mem, str[t])'
    BY <1>1 DEF IInv
  <2>6. \A i \in 1 .. str'[t].size : mem'[str'[t].data].cells[i] # NULL
    BY <2>1, <2>5, StringAssumption DEF Good
  <2>7. QED
    BY <2>4, <2>6
<1>7. QED
  BY <1>1, <1>6

(* What every lemma about a step starts from. *)
LEMMA Start ==
  ASSUME IInv, NEW s \in Strings
  PROVE  /\ mem \in Memory
         /\ Good(mem, str[s])
         /\ str[s].size \in Nat /\ str[s].capacity \in Nat
         /\ str[s].memory_resource \in Resources \cup {NULL}
BY DEF IInv, Good, Structure

LEMMA LiteralTexts ==
  /\ Literals \subseteq Text_
  /\ Paths \subseteq Text_
  /\ Files \subseteq Text_
  /\ \A ch \in Chars : <<ch>> \in Text_
<1>1. Seq(Chars) \subseteq Text_
  BY DEF Text_
<1>2. \A ch \in Chars : <<ch>> \in Text_
  BY DEF Text_
<1>3. Files \subseteq Text_
  BY IOAssumption DEF Text_
<1>4. QED
  BY <1>1, <1>2, <1>3, StringAssumption, IOAssumption

LEMMA UnusedStart ==
  ASSUME IInv, NEW s \in Strings, Unused(s)
  PROVE  mem \in Memory /\ str[s] = Empty /\ Empty.size = 0 /\ Empty.data = NULL
BY Start DEF Unused, Empty

LEMMA CtorCapacityKeeps ==
  ASSUME IInv, NEW s \in Strings, NEW resource \in Resources, NEW capacity \in Nat,
         CtorCapacity(s, resource, capacity)
  PROVE  IInv' /\ EndsStep /\ OthersKept(s)
<1> DEFINE outcomes == Constructed(mem, resource, capacity)
<1>1. Becomes(s, outcomes) /\ Unused(s)
  BY DEF CtorCapacity
<1>2. Allowed(s, outcomes)
  BY <1>1, UnusedStart, ConstructedFollows DEF Allowed, EndsAfter
<1>3. QED
  BY <1>1, <1>2, StepKeeps

LEMMA ConstructedFromAllowed ==
  ASSUME IInv, NEW s \in Strings, Unused(s),
         NEW resource \in Resources, NEW text \in Text_
  PROVE  Allowed(s, ConstructedFrom(mem, resource, text))
BY UnusedStart, ConstructedFromFollows DEF Allowed, EndsAfter

LEMMA CtorStrKeeps ==
  ASSUME IInv, NEW s \in Strings, NEW resource \in Resources, NEW text \in Text_,
         CtorStr(s, resource, text)
  PROVE  IInv' /\ EndsStep /\ OthersKept(s)
<1>1. Unused(s) /\ Becomes(s, ConstructedFrom(mem, resource, text))
  BY DEF CtorStr
<1>2. QED
  BY <1>1, ConstructedFromAllowed, StepKeeps

LEMMA CopyKeeps ==
  ASSUME IInv, NEW s \in Strings, NEW resource \in Resources, NEW t \in Strings,
         Copy(s, resource, t)
  PROVE  IInv' /\ EndsStep /\ OthersKept(s)
<1>1. Unused(s) /\ Becomes(s, ConstructedFrom(mem, resource, Text(mem, str[t])))
  BY DEF Copy
<1>2. Text(mem, str[t]) \in Text_
  BY Start, TextOf
<1>3. QED
  BY <1>1, <1>2, ConstructedFromAllowed, StepKeeps

LEMMA CtorPrintfKeeps ==
  ASSUME IInv, NEW s \in Strings, NEW resource \in Resources, NEW text \in Text_,
         CtorPrintf(s, resource, text)
  PROVE  IInv' /\ EndsStep /\ OthersKept(s)
<1> DEFINE outcomes == UNION {Appended(o.mem, o.string, text) :
                                o \in Constructed(mem, resource, 1)}
<1>1. Becomes(s, outcomes) /\ Unused(s)
  BY DEF CtorPrintf
<1>2. Allowed(s, outcomes)
  <2>1. SUFFICES ASSUME NEW o \in Constructed(mem, resource, 1),
                        NEW p \in Appended(o.mem, o.string, text)
                 PROVE  Follows(mem, Empty, p) /\ EndsAfter(Empty, p)
    BY <1>1, UnusedStart DEF Allowed
  <2>2. Follows(mem, Empty, o) /\ o.string.memory_resource = resource /\ o.string.size = 0
    BY <1>1, UnusedStart, ConstructedFollows
  <2>3. o.mem \in Memory /\ Good(o.mem, o.string) /\ resource # NULL
    BY <2>2, StringAssumption DEF Follows
  <2>4. Follows(o.mem, o.string, p) /\ (p.string.size # 0 => Ends(p))
    BY <2>2, <2>3, AppendedFollows
  <2>5. Follows(mem, Empty, p)
    BY <2>2, <2>4, EmptyGood, FollowsTrans
  <2>6. EndsAfter(Empty, p)
    BY <2>4 DEF EndsAfter, Empty
  <2>7. QED
    BY <2>5, <2>6
<1>3. QED
  BY <1>1, <1>2, StepKeeps

LEMMA UnchangedKeeps ==
  ASSUME IInv, NEW s \in Strings, UNCHANGED vars
  PROVE  IInv' /\ EndsStep /\ OthersKept(s)
BY DEF vars, IInv, EndsStep, OthersKept, Good, Text

LEMMA CtorPrintfFailsKeeps ==
  ASSUME IInv, NEW s \in Strings, NEW resource \in Resources,
         CtorPrintfFails(s, resource)
  PROVE  UNCHANGED vars
<1>1. PICK o \in Constructed(mem, resource, 1) :
        mem' = Freed(o.mem, o.string.data) /\ str' = [str EXCEPT ![s] = Empty]
  <2>1. PICK p \in {Outcome(Freed(o.mem, o.string.data), Empty) :
                      o \in Constructed(mem, resource, 1)} :
          mem' = p.mem /\ str' = [str EXCEPT ![s] = p.string]
    BY DEF CtorPrintfFails, Becomes
  <2>2. PICK o \in Constructed(mem, resource, 1) :
          p = Outcome(Freed(o.mem, o.string.data), Empty)
    BY <2>1
  <2>3. p.mem = Freed(o.mem, o.string.data) /\ p.string = Empty
    BY <2>2 DEF Outcome
  <2>4. QED
    BY <2>1, <2>3
<1>2. str[s] = Empty /\ mem \in Memory
  BY UnusedStart DEF CtorPrintfFails, Unused
<1>3. Follows(mem, Empty, o) /\ o.string.data # NULL
  BY <1>2, ConstructedFollows
<1>4. o.mem \in Memory /\ o.string.data \in Blocks /\ mem[o.string.data] = NULL
  BY <1>3, GoodData, EmptyGood DEF Follows, Empty
<1>5. \A b \in Blocks : b # o.string.data => o.mem[b] = mem[b]
  BY <1>3, StringAssumption DEF Follows, Empty
<1>6. mem' = mem
  BY <1>1, <1>2, <1>4, <1>5 DEF Freed, Memory
<1>7. str' = str
  BY <1>1, <1>2 DEF IInv
<1>8. QED
  BY <1>6, <1>7 DEF vars

LEMMA DtorKeeps ==
  ASSUME IInv, NEW s \in Strings, Dtor(s)
  PROVE  IInv' /\ EndsStep /\ OthersKept(s)
<1> DEFINE outcomes == {Outcome(Freed(mem, str[s].data), Empty)}
<1>1. Becomes(s, outcomes)
  BY DEF Dtor
<1>2. Allowed(s, outcomes)
  BY Start, FreedFollows, EmptyGood DEF Allowed, EndsAfter, Outcome
<1>3. QED
  BY <1>1, <1>2, StepKeeps

LEMMA ClearKeeps ==
  ASSUME IInv, NEW s \in Strings, Clear(s)
  PROVE  IInv' /\ EndsStep /\ OthersKept(s)
<1>1. Becomes(s, {Cleared(mem, str[s])})
  BY DEF Clear
<1>2. Allowed(s, {Cleared(mem, str[s])})
  BY Start, ClearedFollows DEF Allowed
<1>3. QED
  BY <1>1, <1>2, StepKeeps

LEMMA AppendKeeps ==
  ASSUME IInv, NEW s \in Strings, str[s].memory_resource # NULL,
         NEW text \in Text_, Becomes(s, Appended(mem, str[s], text))
  PROVE  IInv' /\ EndsStep /\ OthersKept(s)
<1>1. Allowed(s, Appended(mem, str[s], text))
  BY Start, AppendedFollows DEF Allowed, EndsAfter
<1>2. QED
  BY <1>1, StepKeeps

LEMMA SliceText ==
  ASSUME IInv, NEW t \in Strings, NEW text \in Slices(t)
  PROVE  text \in Text_
<1>1. PICK start \in 0 .. str[t].size - 1, end \in 1 .. str[t].size :
        text = SubSeq(Text(mem, str[t]), start + 1, end)
  BY DEF Slices
<1>2. Text(mem, str[t]) \in Text_ /\ Len(Text(mem, str[t])) = str[t].size /\ str[t].size \in Nat
  BY Start, TextOf
<1>3. QED
  BY <1>1, <1>2 DEF Text_

LEMMA FilledAllowed ==
  ASSUME IInv, NEW s \in Strings, str[s].memory_resource # NULL,
         NEW capacity \in Nat, capacity # 0, NEW n \in Nat, n <= str[s].size,
         NEW text \in Text_, n + Len(text) <= capacity
  PROVE  Allowed(s, {Filled(o, n, text) : o \in Reallocated(mem, str[s], capacity)})
<1>1. SUFFICES ASSUME NEW o \in Reallocated(mem, str[s], capacity)
               PROVE  /\ Follows(mem, str[s], Filled(o, n, text))
                      /\ EndsAfter(str[s], Filled(o, n, text))
  BY DEF Allowed
<1>2. /\ Follows(mem, str[s], o)
      /\ o.string.size = str[s].size
      /\ o.string.capacity >= capacity
      /\ o.string.capacity \in Nat
      /\ o.string.data # NULL
  BY Start, ReallocatedFollows
<1>3. o.mem \in Memory /\ Good(o.mem, o.string)
  BY <1>2 DEF Follows
<1>4. Len(text) \in Nat
  BY DEF Text_
<1>5. Follows(o.mem, o.string, Filled(o, n, text)) /\ Ends(Filled(o, n, text))
  <2>1. n <= o.string.size /\ n + Len(text) <= o.string.capacity
    BY <1>2, <1>4
  <2>2. QED
    BY <1>2, <1>3, <2>1, FilledFollows
<1>6. Follows(mem, str[s], Filled(o, n, text))
  BY <1>2, <1>5, Start, FollowsTrans
<1>7. QED
  BY <1>5, <1>6 DEF EndsAfter

LEMMA AppendCharKeeps ==
  ASSUME IInv, NEW s \in Strings, NEW ch \in Chars, AppendChar(s, ch)
  PROVE  IInv' /\ EndsStep /\ OthersKept(s)
<1> DEFINE x == str[s]
           capacity == IF x.size < x.capacity THEN x.capacity
                       ELSE IF x.capacity = 0 THEN 1 ELSE x.capacity * 2
           outcomes == {Filled(o, x.size, <<ch>>) : o \in Reallocated(mem, x, capacity)}
<1>1. Becomes(s, outcomes) /\ x.memory_resource # NULL
  BY DEF AppendChar
<1>2. x.size \in Nat /\ x.capacity \in Nat /\ x.size <= x.capacity
  BY Start DEF Good
<1>3. capacity \in Nat /\ capacity # 0 /\ x.size + 1 <= capacity
  BY <1>2
<1> DEFINE text == <<ch>>
<1>4. text \in Text_ /\ Len(text) = 1 /\ outcomes = {Filled(o, x.size, text) :
                                                     o \in Reallocated(mem, x, capacity)}
  BY LiteralTexts
<1> HIDE DEF capacity, text, outcomes
<1>5. x.size <= x.size /\ x.size + Len(text) <= capacity
  BY <1>2, <1>3, <1>4
<1>6. Allowed(s, {Filled(o, x.size, text) : o \in Reallocated(mem, x, capacity)})
  BY <1>1, <1>2, <1>3, <1>4, <1>5, FilledAllowed
<1>7. QED
  BY <1>1, <1>4, <1>6, StepKeeps

LEMMA ReallocKeeps ==
  ASSUME IInv, NEW s \in Strings, NEW capacity \in Nat, Realloc(s, capacity)
  PROVE  IInv' /\ EndsStep /\ OthersKept(s)
<1>1. str[s].memory_resource # NULL /\ Becomes(s, Reallocated(mem, str[s], capacity))
  BY DEF Realloc
<1>2. Allowed(s, Reallocated(mem, str[s], capacity))
  BY <1>1, Start, ReallocatedFollows DEF Allowed, EndsAfter
<1>3. QED
  BY <1>1, <1>2, StepKeeps

LEMMA ReplaceAllKeeps ==
  ASSUME IInv, NEW s \in Strings, NEW from \in Text_, NEW to \in Text_,
         ReplaceAllOf(s, from, to)
  PROVE  IInv' /\ EndsStep /\ OthersKept(s)
<1> DEFINE x    == str[s]
           text == UpToZero(Text(mem, x), ZERO)
           new  == Replaced(text, from, to)
           new_size == x.size - Len(text) + Len(new)
           capacity == IF new_size = 0 THEN 1 ELSE new_size
           made     == {Filled(o, 0, new) : o \in Constructed(mem, x.memory_resource, capacity)}
           outcomes == {Outcome(Freed(p.mem, x.data), p.string) : p \in made}
<1>1. /\ x.memory_resource # NULL /\ from # <<>> /\ x.data # NULL
      /\ Becomes(s, outcomes)
  BY DEF ReplaceAllOf
<1>2. /\ mem \in Memory /\ Good(mem, x) /\ x.size \in Nat
      /\ x.memory_resource \in Resources
  BY <1>1, Start
<1>3. text \in Text_ /\ Len(text) \in 0 .. x.size
  BY <1>2, TextOf, TextUpToZero
<1>4. new \in Text_ /\ Len(new) \in Nat
  <2> HIDE DEF text
  <2>1. new \in Text_
    BY <1>1, <1>3, ReplacedText
  <2>2. QED
    BY <2>1 DEF Text_
<1> HIDE DEF text, new
<1>5. capacity \in Nat /\ capacity # 0 /\ Len(new) <= capacity
  BY <1>2, <1>3, <1>4
<1> HIDE DEF capacity
<1>6. ASSUME NEW o \in Constructed(mem, x.memory_resource, capacity)
      PROVE  LET p == Filled(o, 0, new)
                 q == Outcome(Freed(p.mem, x.data), p.string)
             IN  Follows(mem, x, q) /\ EndsAfter(x, q)
  <2> DEFINE p == Filled(o, 0, new)
             q == Outcome(Freed(p.mem, x.data), p.string)
  <2>1. /\ Follows(mem, Empty, o) /\ o.string.size = 0
        /\ o.string.capacity = capacity /\ o.string.data # NULL
    BY <1>2, <1>5, ConstructedFollows
  <2>2. o.mem \in Memory /\ Good(o.mem, o.string)
    BY <2>1 DEF Follows
  <2>3. 0 \in Nat /\ 0 <= o.string.size /\ 0 + Len(new) <= o.string.capacity
    BY <1>4, <1>5, <2>1
  <2>4. Follows(o.mem, o.string, p) /\ Ends(p) /\ p.string.data = o.string.data
    BY <1>4, <2>1, <2>2, <2>3, FilledFollows
  <2> HIDE DEF p
  <2>5. Follows(mem, Empty, p)
    BY <2>1, <2>4, EmptyGood, FollowsTrans
  <2>6. Follows(mem, x, q)
    BY <1>1, <1>2, <2>5, ReplacedFollows
  <2>7. p.mem \in Memory /\ p.string.data \in Blocks /\ p.string.data # x.data
    <3>1. p.mem \in Memory /\ Good(p.mem, p.string)
      BY <2>5 DEF Follows
    <3>2. p.string.data \in Blocks
      BY <2>1, <2>4, <3>1, GoodData
    <3>3. mem[p.string.data] = NULL
      BY <2>1, <2>4, <2>5, EmptyGood DEF Follows
    <3>4. mem[x.data] # NULL
      BY <1>1, <1>2, GoodData
    <3>5. QED
      BY <3>1, <3>2, <3>3, <3>4
  <2>8. q.mem[q.string.data] = p.mem[p.string.data] /\ q.string = p.string
    BY <2>7, FreedMemory DEF Outcome
  <2>9. Ends(q)
    BY <2>4, <2>8 DEF Ends
  <2>10. QED
    BY <2>6, <2>9 DEF EndsAfter, p
<1>7. Allowed(s, outcomes)
  BY <1>6 DEF Allowed
<1>8. QED
  BY <1>1, <1>7, StepKeeps

LEMMA ScratchCtorKeeps ==
  ASSUME IInv, NEW resource \in Resources, NEW capacity \in Nat,
         ScratchCtor(resource, capacity)
  PROVE  IInv' /\ EndsStep /\ OthersKept(SCRATCH)
<1> DEFINE x == str[SCRATCH]
           f == Outcome(Freed(mem, x.data), Empty)
           outcomes == Constructed(Freed(mem, x.data), resource, capacity)
<1>1. SCRATCH \in Strings /\ Becomes(SCRATCH, outcomes)
  BY StringAssumption DEF ScratchCtor
<1>2. mem \in Memory /\ Good(mem, x)
  BY <1>1, Start
<1>3. /\ Follows(mem, x, f)
      /\ f.mem = Freed(mem, x.data) /\ f.mem \in Memory
      /\ f.string = Empty
  BY <1>2, FreedFollows, FreedMemory DEF Outcome
<1> HIDE DEF x, f
<1>4. ASSUME NEW o \in outcomes
      PROVE  Follows(mem, x, o) /\ EndsAfter(x, o)
  <2>1. o \in Constructed(f.mem, resource, capacity)
    BY <1>3
  <2>2. /\ Follows(f.mem, Empty, o)
        /\ o.string.size = 0
        /\ capacity # 0 =>
             /\ Len(o.mem[o.string.data].cells) = capacity + 1
             /\ \A i \in 1 .. capacity :
                  o.mem[o.string.data].cells[i] = IF resource \in Zeroing THEN ZERO ELSE NULL
    BY <1>3, <2>1, ConstructedFollows
  <2>3. Follows(mem, x, o)
    BY <1>2, <1>3, <2>2, FollowsTrans
  <2>4. CASE capacity = 0
    <3>1. o.string.data = NULL
      BY <2>1, <2>4 DEF Constructed, Outcome, Empty
    <3>2. QED
      BY <2>3, <3>1 DEF EndsAfter
  <2>5. CASE capacity # 0 /\ resource \in Zeroing
    <3>1. 1 \in 1 .. capacity /\ o.string.size + 1 = 1
      BY <2>2, <2>5
    <3>2. o.mem[o.string.data].cells[o.string.size + 1] = ZERO
      BY <2>2, <2>5, <3>1
    <3>3. QED
      BY <2>3, <3>2 DEF EndsAfter, Ends
  <2>6. CASE capacity # 0 /\ resource \notin Zeroing
    <3>1. Len(o.mem[o.string.data].cells) - 1 = capacity
      BY <2>2, <2>6
    <3>2. QED
      BY <2>2, <2>3, <2>6, <3>1 DEF EndsAfter
  <2>7. QED
    BY <2>4, <2>5, <2>6
<1>5. Allowed(SCRATCH, outcomes)
  BY <1>4 DEF Allowed, x
<1>6. QED
  BY <1>1, <1>5, StepKeeps

LEMMA ScratchCtorFailsKeeps ==
  ASSUME IInv, ScratchCtorFails
  PROVE  IInv' /\ EndsStep /\ OthersKept(SCRATCH)
BY DtorKeeps, StringAssumption DEF ScratchCtorFails, Dtor

LEMMA ScratchPopKeeps ==
  ASSUME IInv, NEW count \in Nat, count # 0, ScratchPop(count)
  PROVE  IInv' /\ EndsStep /\ OthersKept(SCRATCH)
<1>1. /\ SCRATCH \in Strings
      /\ count <= str[SCRATCH].size
      /\ Becomes(SCRATCH, {Popped(mem, str[SCRATCH], count)})
  BY StringAssumption DEF ScratchPop
<1>2. Allowed(SCRATCH, {Popped(mem, str[SCRATCH], count)})
  BY <1>1, Start, PoppedFollows DEF Allowed, EndsAfter
<1>3. QED
  BY <1>1, <1>2, StepKeeps

LEMMA RealPathKeeps ==
  ASSUME IInv, NEW s \in Strings, NEW path \in Text_, RealPath(s, path)
  PROVE  IInv' /\ EndsStep /\ OthersKept(s)
<1> DEFINE x == str[s]
           o == Cleared(mem, x)
           outcomes == Appended(o.mem, o.string, path)
<1>1. x.memory_resource # NULL /\ Becomes(s, outcomes)
  BY DEF RealPath
<1>2. mem \in Memory /\ Good(mem, x)
  BY Start
<1>3. Follows(mem, x, o) /\ EndsAfter(x, o)
  BY <1>2, ClearedFollows
<1>4. o.string.size = 0 /\ o.string.memory_resource = x.memory_resource
  BY <1>2 DEF Cleared, Outcome, Good, Structure
<1> HIDE DEF x, o
<1>5. o.mem \in Memory /\ Good(o.mem, o.string)
  BY <1>3 DEF Follows
<1>6. ASSUME NEW p \in outcomes
      PROVE  Follows(mem, x, p) /\ EndsAfter(x, p)
  <2>1. Follows(o.mem, o.string, p) /\ (p.string.size # 0 => Ends(p))
    BY <1>1, <1>4, <1>5, AppendedFollows
  <2>2. Follows(mem, x, p)
    BY <1>2, <1>3, <2>1, FollowsTrans
  <2>3. CASE path = <<>>
    <3>1. p.mem = o.mem /\ p.string = o.string
      BY <2>3 DEF Appended, Outcome
    <3>2. EndsAfter(x, p)
      BY <1>3, <3>1 DEF EndsAfter, Ends
    <3>3. QED
      BY <2>2, <3>2
  <2>4. CASE path # <<>>
    <3>1. PICK q \in Reallocated(o.mem, o.string, o.string.size + Len(path)) :
            p = Filled(q, o.string.size, path)
      BY <2>4 DEF Appended
    <3>2. Len(path) \in Nat /\ Len(path) # 0 /\ o.string.size + Len(path) = Len(path)
      BY <1>4, <2>4 DEF Text_
    <3>3. Good(q.mem, q.string)
      BY <1>1, <1>4, <1>5, <3>1, <3>2, ReallocatedFollows DEF Follows
    <3>4. p.string.size = Len(path)
      BY <3>1, <3>2, <3>3 DEF Filled, Outcome, Good, Structure
    <3>5. QED
      BY <2>1, <2>2, <3>2, <3>4 DEF EndsAfter
  <2>5. QED
    BY <2>3, <2>4
<1>7. Allowed(s, outcomes)
  BY <1>6 DEF Allowed, x
<1>8. QED
  BY <1>1, <1>7, StepKeeps

LEMMA RealPathNoMemoryKeeps ==
  ASSUME IInv, NEW s \in Strings, NEW path, RealPathNoMemory(s, path)
  PROVE  IInv' /\ EndsStep /\ OthersKept(s)
BY ClearKeeps DEF RealPathNoMemory, Clear

LEMMA ReadFileKeeps ==
  ASSUME IInv, NEW s \in Strings, NEW file \in Text_, ReadFile(s, file)
  PROVE  IInv' /\ EndsStep /\ OthersKept(s)
<1> DEFINE capacity == Len(file) + 1
           outcomes == {Filled(o, 0, file) : o \in Reallocated(mem, str[s], capacity)}
<1>1. str[s].memory_resource # NULL /\ Becomes(s, outcomes)
  BY DEF ReadFile
<1>2. Len(file) \in Nat /\ str[s].size \in Nat
  BY Start DEF Text_
<1>3. capacity \in Nat /\ capacity # 0 /\ 0 <= str[s].size /\ 0 + Len(file) <= capacity
  BY <1>2
<1>4. 0 \in Nat
  OBVIOUS
<1> HIDE DEF capacity
<1>5. Allowed(s, outcomes)
  BY <1>1, <1>3, <1>4, FilledAllowed
<1>6. QED
  BY <1>1, <1>5, StepKeeps

LEMMA ReadFileFailsKeeps ==
  ASSUME IInv, NEW s \in Strings, NEW file \in Text_, NEW count \in Nat,
         ReadFileFails(s, file, count)
  PROVE  IInv' /\ EndsStep /\ OthersKept(s)
<1> DEFINE x == str[s]
           capacity == Len(file) + 1
           text == SubSeq(file, 1, count)
           outcomes == {Spoiled(o, text) : o \in Reallocated(mem, x, capacity)}
<1>1. x.memory_resource # NULL /\ Becomes(s, outcomes) /\ count < Len(file)
  BY DEF ReadFileFails
<1>2. Len(file) \in Nat /\ capacity \in Nat /\ capacity # 0 /\ text \in Text_
  BY <1>1 DEF Text_
<1>3. mem \in Memory /\ Good(mem, x)
  BY Start
<1> HIDE DEF x, capacity, text
<1>4. ASSUME NEW o \in Reallocated(mem, x, capacity)
      PROVE  Follows(mem, x, Spoiled(o, text)) /\ EndsAfter(x, Spoiled(o, text))
  <2>1. Follows(mem, x, o) /\ o.string.size = x.size /\ o.string.data # NULL
    BY <1>1, <1>2, <1>3, ReallocatedFollows
  <2>2. o.mem \in Memory /\ Good(o.mem, o.string)
    BY <2>1 DEF Follows
  <2>3. 0 \in Nat /\ 0 <= o.string.size
    BY <2>2 DEF Good, Structure
  <2>4. Follows(o.mem, o.string,
                Outcome([o.mem EXCEPT ![o.string.data] = Written(@, 0, text)], o.string))
    BY <1>2, <2>1, <2>2, <2>3, OverwriteFollows
  <2>5. Follows(mem, x, Spoiled(o, text))
    BY <1>3, <2>1, <2>4, FollowsTrans DEF Spoiled
  <2>6. EndsAfter(x, Spoiled(o, text))
    BY <2>1 DEF EndsAfter, Spoiled, Outcome
  <2>7. QED
    BY <2>5, <2>6
<1>5. Allowed(s, outcomes)
  BY <1>4 DEF Allowed, x
<1>6. QED
  BY <1>1, <1>5, StepKeeps

LEMMA StringKeeps ==
  ASSUME IInv, NEW s \in Strings, StringNext(s)
  PROVE  IInv' /\ EndsStep /\ OthersKept(s)
<1>1. CASE \E resource \in Resources, capacity \in Capacities :
             CtorCapacity(s, resource, capacity)
  BY <1>1, CtorCapacityKeeps, StringAssumption
<1>2. CASE \E resource \in Resources, text \in Literals :
             CtorStr(s, resource, text) \/ CtorPrintf(s, resource, text)
  BY <1>2, CtorStrKeeps, CtorPrintfKeeps, LiteralTexts
<1>3. CASE \E resource \in Resources, t \in Strings : Copy(s, resource, t)
  BY <1>3, CopyKeeps
<1>4. CASE Dtor(s) \/ Clear(s)
  BY <1>4, DtorKeeps, ClearKeeps
<1>5. CASE \E text \in Literals : AppendStr(s, text)
  BY <1>5, AppendKeeps, LiteralTexts DEF AppendStr
<1>6. CASE \E t \in Strings : \E text \in Slices(t) : AppendSlice(s, t, text)
  BY <1>6, AppendKeeps, SliceText DEF AppendSlice
<1>7. CASE \E ch \in Chars : AppendChar(s, ch)
  BY <1>7, AppendCharKeeps
<1>8. CASE \E capacity \in Capacities : Realloc(s, capacity)
  BY <1>8, ReallocKeeps, StringAssumption
<1>9. CASE \E from, to \in Literals : ReplaceAllOf(s, from, to)
  BY <1>9, ReplaceAllKeeps, LiteralTexts
<1>10. CASE \E resource \in Resources : CtorPrintfFails(s, resource)
  BY <1>10, CtorPrintfFailsKeeps, UnchangedKeeps
<1>11. QED
  BY <1>1, <1>2, <1>3, <1>4, <1>5, <1>6, <1>7, <1>8, <1>9, <1>10 DEF StringNext

LEMMA IOKeeps ==
  ASSUME IInv, NEW s \in Strings, IONext(s)
  PROVE  IInv' /\ EndsStep /\ OthersKept(s)
<1>1. CASE \E path \in Paths : RealPath(s, path) \/ RealPathNoMemory(s, path)
  BY <1>1, RealPathKeeps, RealPathNoMemoryKeeps, LiteralTexts
<1>2. CASE \E file \in Files : ReadFile(s, file)
  BY <1>2, ReadFileKeeps, LiteralTexts
<1>3. CASE \E file \in Files : \E count \in 0 .. Len(file) : ReadFileFails(s, file, count)
  BY <1>3, ReadFileFailsKeeps, LiteralTexts
<1>4. QED
  BY <1>1, <1>2, <1>3 DEF IONext

LEMMA ScratchKeeps ==
  ASSUME IInv, ScratchNext
  PROVE  IInv' /\ EndsStep /\ OthersKept(SCRATCH)
<1>1. CASE \E resource \in Resources, capacity \in Capacities : ScratchCtor(resource, capacity)
  BY <1>1, ScratchCtorKeeps, StringAssumption
<1>2. CASE ScratchCtorFails
  BY <1>2, ScratchCtorFailsKeeps
<1>3. CASE \E count \in 1 .. str[SCRATCH].size : ScratchPop(count)
  BY <1>3, ScratchPopKeeps
<1>4. QED
  BY <1>1, <1>2, <1>3 DEF ScratchNext

LEMMA InitInv == Init => IInv
<1>1. SUFFICES ASSUME Init
               PROVE  IInv
  OBVIOUS
<1>2. mem \in Memory /\ \A b \in Blocks : mem[b] = NULL
  BY <1>1 DEF Init, Memory
<1>3. str \in [Strings -> Structure] /\ \A s \in Strings : str[s] = Empty
  BY <1>1 DEF Init, Empty, Structure
<1>4. \A s \in Strings : Good(mem, str[s]) /\ str[s].data = NULL
  BY <1>3, EmptyGood
<1>5. QED
  BY <1>2, <1>3, <1>4 DEF IInv

LEMMA NextInv ==
  ASSUME IInv, [Next]_vars
  PROVE  IInv' /\ [EndsStep]_vars
<1>1. CASE Next
  BY <1>1, StringKeeps, IOKeeps, ScratchKeeps DEF Next
<1>2. CASE UNCHANGED vars
  BY <1>2 DEF IInv, Good, vars
<1>3. QED
  BY <1>1, <1>2

(* The last slash in a path, and what is in front of it and behind it.     *)
LEMMA LastSlash ==
  ASSUME NEW path \in Text_
  PROVE  LET slashes == {n \in 1 .. Len(path) - 1 : path[n] = SLASH}
         IN  /\ NameStart(path) \in {0} \cup slashes
             /\ \A n \in slashes : n <= NameStart(path)
<1> DEFINE L == Len(path)
           S == {0} \cup {n \in 1 .. L - 1 : path[n] = SLASH}
           T == {m \in 0 .. L : L - m \in S}
<1>1. L \in Nat
  BY DEF Text_
<1>2. T \in SUBSET Nat /\ L \in T
  BY <1>1
<1> HIDE DEF T
<1>3. PICK k \in T : \A q \in T : k <= q
  BY <1>2, Least
<1>4. k \in 0 .. L /\ L - k \in S
  BY DEF T
<1>5. \A n \in S : n <= L - k
  <2>1. SUFFICES ASSUME NEW n \in S
                 PROVE  n <= L - k
    OBVIOUS
  <2>2. n \in 0 .. L /\ L - n \in 0 .. L /\ L - (L - n) = n
    BY <1>1
  <2>3. L - n \in T
    BY <2>2 DEF T
  <2>4. k <= L - n
    BY <1>3, <2>3
  <2>5. QED
    BY <1>1, <1>4, <2>2, <2>4
<1>6. NameStart(path) = Max(S)
  BY DEF NameStart
<1>7. \A n \in S : n \in Nat
  BY <1>1
<1> HIDE DEF S
<1>8. Max(S) \in S /\ \A n \in S : Max(S) >= n
  BY <1>4, <1>5, <1>7 DEF Max
<1>9. QED
  BY <1>6, <1>7, <1>8 DEF S

LEMMA PathParts ==
  ASSUME NEW path \in Text_, IsFilePath(path)
  PROVE  /\ GetFolder(path) \o GetFilename(path) = path
         /\ GetFilename(path) # <<>>
         /\ \A i \in DOMAIN GetFilename(path) : GetFilename(path)[i] # SLASH
         /\ GetFolder(path) # <<>> => Last(GetFolder(path)) = SLASH
<1> DEFINE L == Len(path)
           k == NameStart(path)
           name   == SubSeq(path, k + 1, L)
           folder == SubSeq(path, 1, k)
<1>1. L \in Nat /\ L # 0 /\ path[L] # SLASH /\ path \in Seq(Chars \cup {ZERO})
  BY DEF Text_, IsFilePath
<1>2. /\ k \in 0 .. L - 1
      /\ k # 0 => path[k] = SLASH
      /\ \A n \in 1 .. L - 1 : path[n] = SLASH => n <= k
  BY <1>1, LastSlash
<1> HIDE DEF k
<1>3. /\ name \in Seq(Chars \cup {ZERO}) /\ Len(name) = L - k
      /\ \A i \in 1 .. L - k : name[i] = path[k + i]
  BY <1>1, <1>2
<1>4. /\ folder \in Seq(Chars \cup {ZERO}) /\ Len(folder) = k
      /\ \A i \in 1 .. k : folder[i] = path[i]
  BY <1>1, <1>2
<1>5. GetFilename(path) = name /\ GetFolder(path) = folder
  <2>1. GetFilename(path) = name
    BY DEF GetFilename, k
  <2>2. L - Len(name) = k
    BY <1>1, <1>2, <1>3
  <2>3. QED
    BY <2>1, <2>2 DEF GetFolder
<1> HIDE DEF name, folder
<1>6. folder \o name = path
  <2>1. folder \o name \in Seq(Chars \cup {ZERO}) /\ Len(folder \o name) = L
    <3>1. folder \o name \in Seq(Chars \cup {ZERO})
      BY <1>3, <1>4
    <3>2. Len(folder \o name) = Len(folder) + Len(name)
      BY <1>3, <1>4, ConcatProperties
    <3>3. k + (L - k) = L
      BY <1>1, <1>2
    <3>4. QED
      BY <1>3, <1>4, <3>1, <3>2, <3>3
  <2>2. \A i \in 1 .. L : (folder \o name)[i] = path[i]
    <3>1. SUFFICES ASSUME NEW i \in 1 .. L
                   PROVE  (folder \o name)[i] = path[i]
      OBVIOUS
    <3>2. CASE i <= k
      BY <1>2, <1>3, <1>4, <3>2
    <3>3. CASE i > k
      <4>1. i - k \in 1 .. L - k /\ k + (i - k) = i
        BY <1>1, <1>2, <3>3
      <4>2. (folder \o name)[i] = name[i - k]
        BY <1>1, <1>2, <1>3, <1>4, <3>3
      <4>3. QED
        BY <1>3, <4>1, <4>2
    <3>4. i \in Nat /\ k \in Nat
      BY <1>1, <1>2
    <3>5. i <= k \/ i > k
      BY <3>4
    <3>6. QED
      BY <3>2, <3>3, <3>5
  <2>3. QED
    BY <1>1, <2>1, <2>2, SeqEqual
<1>7. name # <<>>
  BY <1>1, <1>2, <1>3
<1>8. \A i \in DOMAIN name : name[i] # SLASH
  <2>1. SUFFICES ASSUME NEW i \in 1 .. L - k, name[i] = SLASH
                 PROVE  FALSE
    BY <1>1, <1>2, <1>3
  <2>2. path[k + i] = SLASH /\ k + i \in 1 .. L /\ ~(k + i <= k)
    BY <1>1, <1>2, <1>3, <2>1
  <2>3. k + i # L
    BY <1>1, <2>2
  <2>4. k + i \in 1 .. L - 1
    BY <1>1, <1>2, <2>2, <2>3
  <2>5. QED
    BY <1>2, <2>2, <2>4
<1>9. folder # <<>> => Last(folder) = SLASH
  <2>1. SUFFICES ASSUME folder # <<>>
                 PROVE  Last(folder) = SLASH
    OBVIOUS
  <2>2. k # 0 /\ k \in 1 .. k
    BY <1>2, <1>4, <2>1
  <2>3. QED
    BY <1>2, <1>4, <2>2 DEF Last
<1>10. QED
  BY <1>5, <1>6, <1>7, <1>8, <1>9

LEMMA InvProperties ==
  ASSUME IInv
  PROVE  TypeOK /\ OneBufferEach
<1>1. \A s \in Strings :
        /\ str[s].data # NULL =>
             /\ str[s].data \in Blocks /\ mem[str[s].data] # NULL
             /\ Len(mem[str[s].data].cells) = str[s].capacity + 1
             /\ mem[str[s].data].resource = str[s].memory_resource
        /\ str[s].size <= str[s].capacity
        /\ str[s].data = NULL => str[s].capacity = 0
  BY Start, GoodData DEF Good
<1>2. TypeOK
  BY <1>1 DEF IInv, TypeOK, InUse, Memory
<1>3. {str[s].data : s \in Strings} \ {NULL} = InUse
  <2>1. ASSUME NEW b \in InUse
        PROVE  b # NULL /\ \E s \in Strings : b = str[s].data
    BY <2>1, StringAssumption DEF IInv, InUse
  <2>2. ASSUME NEW s \in Strings, str[s].data # NULL
        PROVE  str[s].data \in InUse
    BY <1>1, <2>2 DEF InUse
  <2>3. QED
    BY <2>1, <2>2
<1>4. OneBufferEach
  BY <1>1, <1>3 DEF IInv, OneBufferEach
<1>5. QED
  BY <1>2, <1>4

-----------------------------------------------------------------------------
(* The texts the operations leave.  Each lemma says of one function of the *)
(* code which text its outcomes hold.                                      *)

\* The cells of x's new text, of the given size, when text was written
\* behind the first n.
Rewritten(o, m, x, n, text, size) ==
  /\ o.string.size = size
  /\ \A i \in 1 .. size :
       o.mem[o.string.data].cells[i] =
         IF n + 1 <= i /\ i <= n + Len(text) THEN text[i - n] ELSE m[x.data].cells[i]

LEMMA WrittenCells ==
  ASSUME NEW m \in Memory, NEW x, Good(m, x), x.data # NULL,
         NEW n \in Nat, NEW text \in Text_, NEW size \in 0 .. x.capacity
  PROVE  Rewritten(Outcome([m EXCEPT ![x.data] = Written(@, n, text)],
                           [x EXCEPT !.size = size]), m, x, n, text, size)
<1> DEFINE old == m[x.data]
           mm == [m EXCEPT ![x.data] = Written(@, n, text)]
           y == [x EXCEPT !.size = size]
<1>1. /\ old \in Block /\ x.data \in Blocks /\ x \in Structure
      /\ Len(old.cells) = x.capacity + 1 /\ x.capacity \in Nat
  BY GoodData DEF Good, Structure
<1>2. mm[x.data] = Written(old, n, text)
  BY <1>1 DEF Memory
<1>3. y.size = size /\ y.data = x.data
  BY <1>1 DEF Structure
<1> HIDE DEF old, mm, y
<1>4. \A i \in 1 .. Len(old.cells) : Written(old, n, text).cells[i] =
        IF n + 1 <= i /\ i <= n + Len(text) THEN text[i - n] ELSE old.cells[i]
  BY <1>1, WrittenBlock
<1>5. \A i \in 1 .. size : i \in 1 .. Len(old.cells)
  BY <1>1
<1>6. Outcome(mm, y).mem = mm /\ Outcome(mm, y).string = y
  BY DEF Outcome
<1>7. Rewritten(Outcome(mm, y), m, x, n, text, size)
  BY <1>2, <1>3, <1>4, <1>5, <1>6 DEF Rewritten, old
<1>8. QED
  BY <1>7 DEF mm, y

\* The text the outcome o holds.
TextAfter(o) == Text(o.mem, o.string)

LEMMA NoTextAfter ==
  ASSUME NEW o, o.string.size = 0
  PROVE  TextAfter(o) = <<>>
BY DEF TextAfter, Text

(* A text that was written behind n characters of another.                 *)
LEMMA FilledText ==
  ASSUME NEW o, o.mem \in Memory, Good(o.mem, o.string), o.string.data # NULL,
         NEW n \in Nat, n <= o.string.size, NEW text \in Text_,
         n + Len(text) <= o.string.capacity
  PROVE  TextAfter(Filled(o, n, text)) = SubSeq(TextAfter(o), 1, n) \o text
<1> DEFINE m == o.mem
           x == o.string
           z == Append(text, ZERO)
           size == n + Len(text)
           p == Filled(o, n, text)
           old == TextAfter(o)
           front == SubSeq(old, 1, n)
<1>1. m \in Memory /\ Good(m, x) /\ x.data # NULL /\ n <= x.size /\ size <= x.capacity
  OBVIOUS
<1>2. p = Outcome([m EXCEPT ![x.data] = Written(@, n, z)], [x EXCEPT !.size = size])
  BY DEF Filled
<1>3. /\ old \in Text_ /\ Len(old) = x.size
      /\ \A i \in 1 .. x.size : old[i] = m[x.data].cells[i]
  BY <1>1, TextOf DEF TextAfter
<1> HIDE DEF m, x, p, old
<1>4. Len(text) \in Nat /\ x.size \in Nat /\ x.capacity \in Nat
  BY <1>1 DEF Text_, Good, Structure
<1>5. /\ z \in Text_ /\ Len(z) = Len(text) + 1
      /\ \A i \in 1 .. Len(text) : z[i] = text[i]
  BY DEF Text_
<1> HIDE DEF z
<1>6. size \in 0 .. x.capacity
  BY <1>1, <1>4
<1>7. Rewritten(p, m, x, n, z, size)
  BY <1>1, <1>2, <1>5, <1>6, WrittenCells
<1>8. /\ front \in Text_ /\ Len(front) = n
      /\ \A i \in 1 .. n : front[i] = m[x.data].cells[i]
  BY <1>1, <1>3, <1>4 DEF Text_
<1> HIDE DEF front, size
<1>9. /\ front \o text \in Text_ /\ Len(front \o text) = size
      /\ \A i \in 1 .. size :
           (front \o text)[i] = IF i <= n THEN front[i] ELSE text[i - n]
  <2>1. /\ front \o text \in Text_
        /\ Len(front \o text) = Len(front) + Len(text)
        /\ \A i \in 1 .. Len(front) + Len(text) :
             (front \o text)[i] =
               IF i <= Len(front) THEN front[i] ELSE text[i - Len(front)]
    BY <1>8, ConcatProperties DEF Text_
  <2>2. QED
    BY <2>1, <1>8 DEF size
<1>10. ASSUME NEW i \in 1 .. size
       PROVE  p.mem[p.string.data].cells[i] = (front \o text)[i]
  <2>1. p.mem[p.string.data].cells[i] =
          IF n + 1 <= i /\ i <= n + Len(z) THEN z[i - n] ELSE m[x.data].cells[i]
    BY <1>7 DEF Rewritten
  <2>2. CASE i <= n
    <3>1. ~(n + 1 <= i) /\ i \in 1 .. n
      BY <2>2, <1>4 DEF size
    <3>2. QED
      BY <2>1, <2>2, <3>1, <1>8, <1>9
  <2>3. CASE ~(i <= n)
    <3>1. n + 1 <= i /\ i <= n + Len(z) /\ i - n \in 1 .. Len(text)
      BY <2>3, <1>4, <1>5 DEF size
    <3>2. QED
      BY <2>1, <2>3, <3>1, <1>5, <1>9
  <2>4. QED
    BY <2>2, <2>3
<1>11. TextAfter(p) = [i \in 1 .. size |-> p.mem[p.string.data].cells[i]]
  BY <1>7 DEF TextAfter, Text, Rewritten
<1> DEFINE joined == front \o text
<1>12. joined \in Text_ /\ Len(joined) = size
  BY <1>9
<1> HIDE DEF joined
<1>13. joined = [i \in 1 .. size |-> joined[i]]
  BY <1>12 DEF Text_
<1>14. TextAfter(p) = front \o text
  BY <1>10, <1>11, <1>13 DEF joined
<1>15. QED
  BY <1>14 DEF p, front, old

LEMMA WholeText ==
  ASSUME NEW text \in Text_
  PROVE  /\ SubSeq(text, 1, Len(text)) = text
         /\ SubSeq(text, 1, 0) = <<>>
         /\ <<>> \o text = text
         /\ text \o <<>> = text
BY DEF Text_

(* string_realloc *)
LEMMA ReallocatedText ==
  ASSUME NEW m \in Memory, NEW x, Good(m, x), x.memory_resource # NULL,
         NEW capacity \in Nat, NEW o \in Reallocated(m, x, capacity)
  PROVE  TextAfter(o) = Text(m, x)
<1>1. /\ o.string.size = x.size
      /\ \A i \in 1 .. x.size : o.mem[o.string.data].cells[i] = m[x.data].cells[i]
  BY ReallocatedFollows
<1>2. QED
  BY <1>1 DEF TextAfter, Text

(* The text put in place of what is behind the first n characters, when a  *)
(* buffer was made that is large enough.                                   *)
LEMMA RefilledText ==
  ASSUME NEW m \in Memory, NEW x, Good(m, x), x.memory_resource # NULL,
         NEW capacity \in Nat, capacity # 0, NEW o \in Reallocated(m, x, capacity),
         NEW n \in Nat, n <= x.size, NEW text \in Text_, n + Len(text) <= capacity
  PROVE  TextAfter(Filled(o, n, text)) = SubSeq(Text(m, x), 1, n) \o text
<1>1. /\ Follows(m, x, o) /\ o.string.size = x.size /\ o.string.capacity >= capacity
      /\ o.string.capacity \in Nat /\ o.string.data # NULL
  BY ReallocatedFollows
<1>2. o.mem \in Memory /\ Good(o.mem, o.string)
  BY <1>1 DEF Follows
<1>3. n <= o.string.size /\ n + Len(text) <= o.string.capacity
  BY <1>1 DEF Text_
<1>4. TextAfter(Filled(o, n, text)) = SubSeq(TextAfter(o), 1, n) \o text
  BY <1>1, <1>2, <1>3, FilledText
<1>5. QED
  BY <1>4, ReallocatedText

(* string_append_str, string_vprintf *)
LEMMA AppendedText ==
  ASSUME NEW m \in Memory, NEW x, Good(m, x), x.memory_resource # NULL,
         NEW text \in Text_, NEW p \in Appended(m, x, text)
  PROVE  TextAfter(p) = Text(m, x) \o text
<1>1. /\ x.size \in Nat /\ Len(text) \in Nat
      /\ Text(m, x) \in Text_ /\ Len(Text(m, x)) = x.size
  BY TextOf DEF Good, Structure, Text_
<1>2. CASE text = <<>>
  <2>1. p = Outcome(m, x)
    BY <1>2 DEF Appended
  <2>2. TextAfter(p) = Text(m, x)
    BY <2>1 DEF TextAfter, Outcome
  <2>3. QED
    BY <1>1, <1>2, <2>2, WholeText
<1>3. CASE text # <<>>
  <2> DEFINE c == x.size + Len(text)
  <2>1. PICK o \in Reallocated(m, x, c) : p = Filled(o, x.size, text)
    BY <1>3 DEF Appended
  <2>2. c \in Nat /\ c # 0 /\ x.size <= x.size /\ x.size + Len(text) <= c
    BY <1>1, <1>3 DEF Text_
  <2> HIDE DEF c
  <2>3. TextAfter(p) = SubSeq(Text(m, x), 1, x.size) \o text
    BY <1>1, <2>1, <2>2, RefilledText
  <2>4. QED
    BY <1>1, <2>3, WholeText
<1>4. QED
  BY <1>2, <1>3

(* string_ctor_str *)
LEMMA ConstructedFromText ==
  ASSUME NEW m \in Memory, NEW resource \in Resources, NEW text \in Text_,
         NEW p \in ConstructedFrom(m, resource, text)
  PROVE  TextAfter(p) = text
<1> DEFINE c == Len(text)
<1>1. PICK o \in Constructed(m, resource, c) :
        p = IF text = <<>> THEN o
            ELSE Outcome([o.mem EXCEPT ![o.string.data] = Written(@, 0, text)],
                         [o.string EXCEPT !.size = Len(text)])
  BY DEF ConstructedFrom
<1>2. c \in Nat /\ (text # <<>> => c # 0)
  BY DEF Text_
<1>3. /\ Follows(m, Empty, o) /\ o.string.size = 0 /\ o.string.capacity = c
      /\ c # 0 => o.string.data # NULL
  BY <1>1, <1>2, ConstructedFollows
<1>4. CASE text = <<>>
  BY <1>1, <1>3, <1>4, NoTextAfter
<1>5. CASE text # <<>>
  <2> DEFINE om == o.mem
             x == o.string
  <2>1. om \in Memory /\ Good(om, x) /\ x.data # NULL /\ c \in 0 .. x.capacity
    BY <1>2, <1>3, <1>5 DEF Follows
  <2>2. p = Outcome([om EXCEPT ![x.data] = Written(@, 0, text)], [x EXCEPT !.size = c])
    BY <1>1, <1>5
  <2> HIDE DEF om, x, c
  <2>3. 0 \in Nat
    OBVIOUS
  <2>4. Rewritten(p, om, x, 0, text, c)
    BY <2>1, <2>2, <2>3, WrittenCells
  <2>5. ASSUME NEW i \in 1 .. c
        PROVE  p.mem[p.string.data].cells[i] = text[i]
    <3>1. 0 + 1 <= i /\ i <= 0 + Len(text) /\ i - 0 = i
      BY <1>2 DEF c
    <3>2. QED
      BY <2>4, <3>1 DEF Rewritten
  <2>6. TextAfter(p) = [i \in 1 .. c |-> p.mem[p.string.data].cells[i]]
    BY <2>4 DEF TextAfter, Text, Rewritten
  <2>7. text = [i \in 1 .. c |-> text[i]]
    BY DEF Text_, c
  <2>8. QED
    BY <2>5, <2>6, <2>7
<1>6. QED
  BY <1>4, <1>5

(* scratch_pop *)
LEMMA PoppedText ==
  ASSUME NEW m \in Memory, NEW x, Good(m, x), NEW count \in Nat, count <= x.size, count # 0
  PROVE  TextAfter(Popped(m, x, count)) = SubSeq(Text(m, x), 1, x.size - count)
<1> DEFINE zeros == [i \in 1 .. count |-> ZERO]
           n == x.size - count
           p == Popped(m, x, count)
           old == Text(m, x)
<1>1. /\ x.size \in Nat /\ x.data # NULL /\ x.capacity \in Nat /\ x.size <= x.capacity
  BY NoText DEF Good, Structure
<1>2. p = Outcome([m EXCEPT ![x.data] = Written(@, n, zeros)], [x EXCEPT !.size = n])
  BY <1>1 DEF Popped
<1>3. zeros \in Text_
  BY DEF Text_
<1>4. n \in Nat /\ n \in 0 .. x.capacity /\ n <= x.size
  BY <1>1
<1>5. /\ old \in Text_ /\ Len(old) = x.size
      /\ \A i \in 1 .. x.size : old[i] = m[x.data].cells[i]
  BY TextOf
<1> HIDE DEF zeros, n, p, old
<1>6. Rewritten(p, m, x, n, zeros, n)
  BY <1>1, <1>2, <1>3, <1>4, WrittenCells
<1>7. ASSUME NEW i \in 1 .. n
      PROVE  p.mem[p.string.data].cells[i] = old[i]
  <2>1. ~(n + 1 <= i) /\ i \in 1 .. x.size
    BY <1>1, <1>4
  <2>2. QED
    BY <2>1, <1>5, <1>6 DEF Rewritten
<1>8. TextAfter(p) = [i \in 1 .. n |-> p.mem[p.string.data].cells[i]]
  BY <1>6 DEF TextAfter, Text, Rewritten
<1>9. SubSeq(old, 1, n) = [i \in 1 .. n |-> old[i]]
  BY <1>4, <1>5 DEF Text_
<1>10. TextAfter(p) = SubSeq(old, 1, n)
  BY <1>7, <1>8, <1>9
<1>11. QED
  BY <1>10 DEF p, n, old

(* read_file, when fread stops before the end. *)
Mixed(old, file, count) ==
  [i \in DOMAIN old |-> IF i <= count THEN file[i] ELSE old[i]]

LEMMA SpoiledText ==
  ASSUME NEW m \in Memory, NEW x, Good(m, x), x.memory_resource # NULL,
         NEW file \in Text_, NEW count \in Nat, count < Len(file),
         NEW o \in Reallocated(m, x, Len(file) + 1)
  PROVE  TextAfter(Spoiled(o, SubSeq(file, 1, count))) = Mixed(Text(m, x), file, count)
<1> DEFINE text == SubSeq(file, 1, count)
           om == o.mem
           y == o.string
           p == Spoiled(o, text)
           old == Text(m, x)
<1>1. /\ Len(file) \in Nat /\ Len(file) + 1 \in Nat /\ Len(file) + 1 # 0
      /\ text \in Text_ /\ Len(text) = count
      /\ \A i \in 1 .. count : text[i] = file[i]
  BY DEF Text_
<1>2. /\ Follows(m, x, o) /\ y.size = x.size /\ y.data # NULL
      /\ \A i \in 1 .. x.size : om[y.data].cells[i] = m[x.data].cells[i]
  BY <1>1, ReallocatedFollows
<1>3. om \in Memory /\ Good(om, y)
  BY <1>2 DEF Follows
<1>4. /\ x.size \in Nat /\ old \in Text_ /\ Len(old) = x.size
      /\ \A i \in 1 .. x.size : old[i] = m[x.data].cells[i]
  BY TextOf DEF Good, Structure
<1>5. p = Outcome([om EXCEPT ![y.data] = Written(@, 0, text)], y)
  BY DEF Spoiled
<1> HIDE DEF text, om, y, old
<1>6. y = [y EXCEPT !.size = y.size] /\ y.size \in 0 .. y.capacity /\ 0 \in Nat
  BY <1>3 DEF Good, Structure
<1>7. p = Outcome([om EXCEPT ![y.data] = Written(@, 0, text)], [y EXCEPT !.size = y.size])
  BY <1>5, <1>6
<1> HIDE DEF p
<1>8. Rewritten(p, om, y, 0, text, y.size)
  BY <1>1, <1>2, <1>3, <1>6, <1>7, WrittenCells
<1>9. ASSUME NEW i \in 1 .. x.size
      PROVE  p.mem[p.string.data].cells[i] = IF i <= count THEN file[i] ELSE old[i]
  <2>1. 0 + 1 <= i /\ i - 0 = i /\ 0 + Len(text) = count /\ (i <= count => i \in 1 .. count)
    BY <1>1, <1>4
  <2>2. p.mem[p.string.data].cells[i] = IF i <= count THEN text[i] ELSE om[y.data].cells[i]
    BY <2>1, <1>2, <1>8 DEF Rewritten
  <2>3. QED
    BY <2>1, <2>2, <1>1, <1>2, <1>4
<1>10. TextAfter(p) = [i \in 1 .. x.size |-> p.mem[p.string.data].cells[i]]
  BY <1>2, <1>8 DEF TextAfter, Text, Rewritten
<1>11. DOMAIN old = 1 .. x.size
  BY <1>4 DEF Text_
<1>12. TextAfter(p) = Mixed(old, file, count)
  BY <1>9, <1>10, <1>11 DEF Mixed
<1>13. QED
  BY <1>12 DEF p, text, old

(* What a step makes of the text of one string.                            *)
Holding(outcomes, text) == \A o \in outcomes : TextAfter(o) = text

LEMMA ShownStep ==
  ASSUME IInv, NEW s \in Strings, NEW outcomes, Becomes(s, outcomes), OthersKept(s),
         NEW text, Holding(outcomes, text)
  PROVE  Sequence!Becomes(s, text)
<1>1. PICK o \in outcomes : mem' = o.mem /\ str' = [str EXCEPT ![s] = o.string]
  BY DEF Becomes
<1>2. Text(o.mem, o.string) = text
  BY DEF Holding, TextAfter
<1>3. str'[s] = o.string
  BY <1>1 DEF IInv
<1>4. \A t \in Strings :
        Text(mem', str'[t]) = IF t = s THEN text ELSE Text(mem, str[t])
  BY <1>1, <1>2, <1>3 DEF OthersKept
<1>5. Shown' = [t \in Strings |-> Text(mem', str'[t])]
  BY DEF Shown, Text
<1>6. Shown' = [Shown EXCEPT ![s] = text]
  BY <1>4, <1>5 DEF Shown
<1>7. QED
  BY <1>6 DEF Sequence!Becomes, Shown

LEMMA ShownText ==
  ASSUME IInv, NEW s \in Strings
  PROVE  /\ Shown[s] = Text(mem, str[s]) /\ Shown[s] \in Text_
         /\ Len(Shown[s]) = str[s].size
BY Start, TextOf DEF Shown

(* The steps of Texts that an operation may be.                            *)
LEMMA ClearShown ==
  ASSUME NEW s \in Strings, Sequence!Becomes(s, <<>>)
  PROVE  Sequence!Clear(s)
BY DEF Sequence!Clear

LEMMA ExtendShown ==
  ASSUME NEW s \in Strings, NEW x, Sequence!Becomes(s, Shown[s] \o x)
  PROVE  Sequence!Extend(s, x)
BY DEF Sequence!Extend, Shown

LEMMA LoadShown ==
  ASSUME NEW s \in Strings, NEW x, Sequence!Becomes(s, x)
  PROVE  Sequence!Load(s, x)
BY DEF Sequence!Load

(* The operations of String.c.                                             *)
LEMMA UnusedShown ==
  ASSUME IInv, NEW s \in Strings, Unused(s)
  PROVE  Shown[s] = <<>> /\ Text(mem, Empty) = <<>> /\ \A x \in Text_ : Shown[s] \o x = x
<1>1. Text(mem, Empty) = <<>>
  BY DEF Text, Empty
<1>2. QED
  BY <1>1, UnusedStart, ShownText, WholeText

LEMMA CtorCapacityShown ==
  ASSUME IInv, NEW s \in Strings, NEW resource \in Resources, NEW capacity \in Nat,
         CtorCapacity(s, resource, capacity)
  PROVE  Sequence!Clear(s)
<1>1. Becomes(s, Constructed(mem, resource, capacity)) /\ OthersKept(s) /\ Unused(s)
  BY CtorCapacityKeeps DEF CtorCapacity
<1>2. mem \in Memory
  BY <1>1, UnusedStart
<1>3. Holding(Constructed(mem, resource, capacity), <<>>)
  BY <1>2, ConstructedFollows, NoTextAfter DEF Holding
<1>4. QED
  BY <1>1, <1>3, ShownStep, ClearShown

LEMMA ConstructedFromHolding ==
  ASSUME NEW m \in Memory, NEW resource \in Resources, NEW text \in Text_
  PROVE  Holding(ConstructedFrom(m, resource, text), text)
BY ConstructedFromText DEF Holding

LEMMA CtorStrShown ==
  ASSUME IInv, NEW s \in Strings, NEW resource \in Resources, NEW text \in Literals,
         CtorStr(s, resource, text)
  PROVE  Sequence!Extend(s, text)
<1>1. text \in Text_
  BY LiteralTexts
<1>2. /\ Becomes(s, ConstructedFrom(mem, resource, text)) /\ OthersKept(s)
      /\ Unused(s) /\ mem \in Memory
  BY <1>1, CtorStrKeeps, Start DEF CtorStr
<1>3. Sequence!Becomes(s, text)
  BY <1>1, <1>2, ConstructedFromHolding, ShownStep
<1>4. Shown[s] \o text = text
  BY <1>1, <1>2, UnusedShown
<1>5. QED
  BY <1>3, <1>4, ExtendShown

LEMMA CopyShown ==
  ASSUME IInv, NEW s \in Strings, NEW resource \in Resources, NEW t \in Strings,
         Copy(s, resource, t)
  PROVE  Sequence!Extend(s, Shown[t])
<1> DEFINE text == Text(mem, str[t])
<1>1. /\ Becomes(s, ConstructedFrom(mem, resource, text)) /\ OthersKept(s)
      /\ Unused(s) /\ mem \in Memory
  BY CopyKeeps, Start DEF Copy
<1>2. text \in Text_ /\ text = Shown[t]
  BY ShownText
<1> HIDE DEF text
<1>3. Sequence!Becomes(s, text)
  BY <1>1, <1>2, ConstructedFromHolding, ShownStep
<1>4. Shown[s] \o text = text
  BY <1>1, <1>2, UnusedShown
<1>5. QED
  BY <1>2, <1>3, <1>4, ExtendShown

LEMMA AppendedHolding ==
  ASSUME NEW m \in Memory, NEW x, Good(m, x), x.memory_resource # NULL,
         NEW text \in Text_
  PROVE  Holding(Appended(m, x, text), Text(m, x) \o text)
BY AppendedText DEF Holding

LEMMA CtorPrintfShown ==
  ASSUME IInv, NEW s \in Strings, NEW resource \in Resources, NEW text \in Literals,
         CtorPrintf(s, resource, text)
  PROVE  Sequence!Extend(s, text)
<1> DEFINE outcomes == UNION {Appended(o.mem, o.string, text) :
                                o \in Constructed(mem, resource, 1)}
<1>1. text \in Text_
  BY LiteralTexts
<1>2. Becomes(s, outcomes) /\ OthersKept(s) /\ Unused(s) /\ mem \in Memory
  BY <1>1, CtorPrintfKeeps, Start DEF CtorPrintf
<1>3. ASSUME NEW o \in Constructed(mem, resource, 1), NEW p \in Appended(o.mem, o.string, text)
      PROVE  TextAfter(p) = text
  <2>1. Follows(mem, Empty, o) /\ o.string.memory_resource = resource /\ o.string.size = 0
    BY <1>2, ConstructedFollows
  <2>2. o.mem \in Memory /\ Good(o.mem, o.string) /\ resource # NULL
    BY <2>1, StringAssumption DEF Follows
  <2>3. Text(o.mem, o.string) = <<>>
    BY <2>1, NoTextAfter DEF TextAfter
  <2>4. TextAfter(p) = Text(o.mem, o.string) \o text
    BY <1>1, <2>1, <2>2, AppendedText
  <2>5. QED
    BY <1>1, <2>3, <2>4, WholeText
<1>4. Holding(outcomes, text)
  BY <1>3 DEF Holding
<1> HIDE DEF outcomes
<1>5. Sequence!Becomes(s, text)
  BY <1>2, <1>4, ShownStep
<1>6. Shown[s] \o text = text
  BY <1>1, <1>2, UnusedShown
<1>7. QED
  BY <1>5, <1>6, ExtendShown

LEMMA CtorPrintfFailsShown ==
  ASSUME IInv, NEW s \in Strings, NEW resource \in Resources,
         CtorPrintfFails(s, resource)
  PROVE  UNCHANGED Shown
BY CtorPrintfFailsKeeps DEF vars, Shown, Text

LEMMA DtorShown ==
  ASSUME IInv, NEW s \in Strings, Dtor(s)
  PROVE  Sequence!Clear(s)
<1> DEFINE outcomes == {Outcome(Freed(mem, str[s].data), Empty)}
<1>1. Becomes(s, outcomes) /\ OthersKept(s)
  BY DtorKeeps DEF Dtor
<1>2. Holding(outcomes, <<>>)
  BY NoTextAfter DEF Holding, Outcome, Empty
<1>3. QED
  BY <1>1, <1>2, ShownStep, ClearShown

LEMMA ClearedSize ==
  ASSUME NEW m, NEW x, Good(m, x)
  PROVE  Cleared(m, x).string.size = 0
BY DEF Cleared, Outcome, Good, Structure

LEMMA ClearStepShown ==
  ASSUME IInv, NEW s \in Strings, Clear(s)
  PROVE  Sequence!Clear(s)
<1>1. Becomes(s, {Cleared(mem, str[s])}) /\ OthersKept(s)
  BY ClearKeeps DEF Clear
<1>2. Holding({Cleared(mem, str[s])}, <<>>)
  BY Start, ClearedSize, NoTextAfter DEF Holding
<1>3. QED
  BY <1>1, <1>2, ShownStep, ClearShown

LEMMA AppendShown ==
  ASSUME IInv, NEW s \in Strings, str[s].memory_resource # NULL,
         NEW text \in Text_, Becomes(s, Appended(mem, str[s], text))
  PROVE  Sequence!Becomes(s, Shown[s] \o text)
<1>1. OthersKept(s)
  BY AppendKeeps
<1>2. Holding(Appended(mem, str[s], text), Text(mem, str[s]) \o text)
  BY Start, AppendedHolding
<1>3. QED
  BY <1>1, <1>2, ShownStep, ShownText

LEMMA AppendStrShown ==
  ASSUME IInv, NEW s \in Strings, NEW text \in Literals, AppendStr(s, text)
  PROVE  Sequence!Extend(s, text)
BY LiteralTexts, AppendShown, ExtendShown DEF AppendStr

LEMMA AppendSliceShown ==
  ASSUME IInv, NEW s \in Strings, NEW t \in Strings, NEW text \in Slices(t),
         AppendSlice(s, t, text)
  PROVE  Sequence!Extend(s, text)
BY SliceText, AppendShown, ExtendShown DEF AppendSlice

LEMMA RefilledHolding ==
  ASSUME NEW m \in Memory, NEW x, Good(m, x), x.memory_resource # NULL,
         NEW capacity \in Nat, capacity # 0,
         NEW n \in Nat, n <= x.size, NEW text \in Text_, n + Len(text) <= capacity
  PROVE  Holding({Filled(o, n, text) : o \in Reallocated(m, x, capacity)},
                 SubSeq(Text(m, x), 1, n) \o text)
BY RefilledText DEF Holding

LEMMA AppendCharShown ==
  ASSUME IInv, NEW s \in Strings, NEW ch \in Chars, AppendChar(s, ch)
  PROVE  Sequence!Extend(s, <<ch>>)
<1> DEFINE x == str[s]
           text == <<ch>>
           capacity == IF x.size < x.capacity THEN x.capacity
                       ELSE IF x.capacity = 0 THEN 1 ELSE x.capacity * 2
           outcomes == {Filled(o, x.size, text) : o \in Reallocated(mem, x, capacity)}
<1>1. Becomes(s, outcomes) /\ x.memory_resource # NULL /\ OthersKept(s)
  BY AppendCharKeeps DEF AppendChar
<1>2. /\ x.size \in Nat /\ x.capacity \in Nat /\ x.size <= x.capacity
      /\ mem \in Memory /\ Good(mem, x)
  BY Start DEF Good
<1>3. capacity \in Nat /\ capacity # 0 /\ x.size + 1 <= capacity
  BY <1>2
<1>4. text \in Text_ /\ Len(text) = 1
  BY LiteralTexts
<1> HIDE DEF capacity, text
<1>5. x.size <= x.size /\ x.size + Len(text) <= capacity
  BY <1>2, <1>3, <1>4
<1>6. Holding(outcomes, SubSeq(Text(mem, x), 1, x.size) \o text)
  BY <1>1, <1>2, <1>3, <1>4, <1>5, RefilledHolding
<1> HIDE DEF outcomes
<1>7. SubSeq(Text(mem, x), 1, x.size) = Shown[s]
  BY ShownText, WholeText
<1>8. Sequence!Becomes(s, Shown[s] \o text)
  BY <1>1, <1>6, <1>7, ShownStep
<1>9. QED
  BY <1>8, ExtendShown DEF text

LEMMA ReallocShown ==
  ASSUME IInv, NEW s \in Strings, NEW capacity \in Nat, Realloc(s, capacity)
  PROVE  UNCHANGED Shown
<1>1. /\ str[s].memory_resource # NULL /\ Becomes(s, Reallocated(mem, str[s], capacity))
      /\ OthersKept(s)
  BY ReallocKeeps DEF Realloc
<1>2. Holding(Reallocated(mem, str[s], capacity), Text(mem, str[s]))
  BY <1>1, Start, ReallocatedText DEF Holding
<1>3. Sequence!Becomes(s, Shown[s])
  BY <1>1, <1>2, ShownStep, ShownText
<1>4. Shown' = [Shown EXCEPT ![s] = Shown[s]]
  BY <1>3 DEF Sequence!Becomes, Shown
<1>5. QED
  BY <1>4 DEF Shown

(* Texts has its own copies of the operators of CStrings. *)
LEMMA SameOperators ==
  ASSUME NEW text, NEW from, NEW to
  PROVE  /\ Sequence!UpToZero(text, ZERO) = UpToZero(text, ZERO)
         /\ Sequence!Occurs(text, from) = Occurs(text, from)
         /\ Sequence!Replaced(text, from, to) = Replaced(text, from, to)
<1>1. \A i : Sequence!OccursAt(text, from, i) = OccursAt(text, from, i)
  BY DEF Sequence!OccursAt, OccursAt, Sequence!IsPrefix, IsPrefix
<1>2. Sequence!UpToZero(text, ZERO) = UpToZero(text, ZERO)
  BY DEF Sequence!UpToZero, UpToZero, Sequence!SelectInSeq, SelectInSeq,
         Sequence!Max, Max, Sequence!Min, Min
<1>3. Sequence!Occurs(text, from) = Occurs(text, from)
  BY <1>1 DEF Sequence!Occurs, Occurs
<1>4. Sequence!Replaced(text, from, to) = Replaced(text, from, to)
  BY <1>1 DEF Sequence!Replaced, Replaced
<1>5. QED
  BY <1>2, <1>3, <1>4

LEMMA ReplaceAllOfShown ==
  ASSUME IInv, NEW s \in Strings, NEW from \in Literals, NEW to \in Literals,
         ReplaceAllOf(s, from, to)
  PROVE  Sequence!Replace(s, from, to)
<1> DEFINE x    == str[s]
           text == UpToZero(Text(mem, x), ZERO)
           new  == Replaced(text, from, to)
           new_size == x.size - Len(text) + Len(new)
           capacity == IF new_size = 0 THEN 1 ELSE new_size
           made     == {Filled(o, 0, new) : o \in Constructed(mem, x.memory_resource, capacity)}
           outcomes == {Outcome(Freed(p.mem, x.data), p.string) : p \in made}
<1>1. /\ x.memory_resource # NULL /\ from # <<>> /\ x.data # NULL
      /\ Becomes(s, outcomes) /\ Occurs(text, from)
  BY DEF ReplaceAllOf
<1>2. from \in Text_ /\ to \in Text_
  BY LiteralTexts
<1>3. OthersKept(s)
  BY <1>2, ReplaceAllKeeps
<1>4. /\ mem \in Memory /\ Good(mem, x) /\ x.size \in Nat
      /\ x.memory_resource \in Resources
  BY <1>1, Start
<1>5. text \in Text_ /\ Len(text) \in 0 .. x.size
  BY <1>4, TextOf, TextUpToZero
<1>6. text = UpToZero(Shown[s], ZERO)
  BY ShownText
<1> HIDE DEF text
<1>7. new \in Text_ /\ Len(new) \in Nat
  <2>1. new \in Text_
    BY <1>1, <1>2, <1>5, ReplacedText
  <2>2. QED
    BY <2>1 DEF Text_
<1>8. Sequence!Replace(s, from, to) <=> Sequence!Becomes(s, new)
  <2>1. Sequence!UpToZero(Shown[s], ZERO) = text
    BY <1>6, SameOperators
  <2>2. Sequence!Occurs(text, from) /\ Sequence!Replaced(text, from, to) = new
    BY <1>1, SameOperators
  <2>3. QED
    BY <2>1, <2>2 DEF Sequence!Replace, Shown
<1> HIDE DEF new
<1>9. capacity \in Nat /\ capacity # 0 /\ Len(new) <= capacity
  BY <1>4, <1>5, <1>7
<1> HIDE DEF capacity
<1>10. ASSUME NEW o \in Constructed(mem, x.memory_resource, capacity)
       PROVE  LET p == Filled(o, 0, new)
              IN  TextAfter(Outcome(Freed(p.mem, x.data), p.string)) = new
  <2> DEFINE p == Filled(o, 0, new)
             q == Outcome(Freed(p.mem, x.data), p.string)
  <2>1. /\ Follows(mem, Empty, o) /\ o.string.size = 0
        /\ o.string.capacity = capacity /\ o.string.data # NULL
    BY <1>4, <1>9, ConstructedFollows
  <2>2. o.mem \in Memory /\ Good(o.mem, o.string)
    BY <2>1 DEF Follows
  <2>3. 0 \in Nat /\ 0 <= o.string.size /\ 0 + Len(new) <= o.string.capacity
    BY <1>7, <1>9, <2>1
  <2>4. Follows(o.mem, o.string, p) /\ p.string.data = o.string.data
    BY <1>7, <2>1, <2>2, <2>3, FilledFollows
  <2>5. TextAfter(p) = SubSeq(TextAfter(o), 1, 0) \o new
    BY <1>7, <2>1, <2>2, <2>3, FilledText
  <2>6. TextAfter(p) = new
    <3>1. TextAfter(o) \in Text_
      BY <2>2, TextOf DEF TextAfter
    <3>2. QED
      BY <3>1, <2>5, <1>7, WholeText
  <2> HIDE DEF p
  <2>7. Follows(mem, Empty, p)
    BY <2>1, <2>4, EmptyGood, FollowsTrans, <1>4
  <2>8. p.mem \in Memory /\ p.string.data \in Blocks /\ p.string.data # x.data
    <3>1. p.mem \in Memory /\ Good(p.mem, p.string)
      BY <2>7 DEF Follows
    <3>2. p.string.data \in Blocks
      BY <2>1, <2>4, <3>1, GoodData
    <3>3. mem[p.string.data] = NULL
      BY <2>1, <2>4, <2>7, EmptyGood DEF Follows
    <3>4. mem[x.data] # NULL
      BY <1>1, <1>4, GoodData
    <3>5. QED
      BY <3>1, <3>2, <3>3, <3>4
  <2>9. q.mem[q.string.data] = p.mem[p.string.data] /\ q.string = p.string
    BY <2>8, FreedMemory DEF Outcome
  <2>10. TextAfter(q) = TextAfter(p)
    BY <2>9 DEF TextAfter, Text
  <2>11. QED
    BY <2>6, <2>10 DEF p
<1>11. Holding(outcomes, new)
  BY <1>10 DEF Holding
<1> HIDE DEF outcomes
<1>12. Sequence!Becomes(s, new)
  BY <1>1, <1>3, <1>11, ShownStep
<1>13. QED
  BY <1>8, <1>12

(* The operations of ScratchBuffer.c.                                      *)
LEMMA ScratchCtorShown ==
  ASSUME IInv, NEW resource \in Resources, NEW capacity \in Nat,
         ScratchCtor(resource, capacity)
  PROVE  Sequence!Clear(SCRATCH)
<1> DEFINE m == Freed(mem, str[SCRATCH].data)
<1>1. /\ SCRATCH \in Strings /\ OthersKept(SCRATCH)
      /\ Becomes(SCRATCH, Constructed(m, resource, capacity))
  BY ScratchCtorKeeps, StringAssumption DEF ScratchCtor
<1>2. m \in Memory
  BY Start, <1>1, FreedMemory
<1> HIDE DEF m
<1>3. Holding(Constructed(m, resource, capacity), <<>>)
  BY <1>2, ConstructedFollows, NoTextAfter DEF Holding
<1>4. QED
  BY <1>1, <1>3, ShownStep, ClearShown

LEMMA ScratchCtorFailsShown ==
  ASSUME IInv, ScratchCtorFails
  PROVE  Sequence!Clear(SCRATCH)
BY DtorShown, StringAssumption DEF ScratchCtorFails, Dtor

LEMMA ScratchPopShown ==
  ASSUME IInv, NEW count \in Nat, count # 0, ScratchPop(count)
  PROVE  Sequence!Pop(count)
<1> DEFINE n == str[SCRATCH].size - count
<1>1. /\ SCRATCH \in Strings /\ count <= str[SCRATCH].size
      /\ Becomes(SCRATCH, {Popped(mem, str[SCRATCH], count)}) /\ OthersKept(SCRATCH)
  BY ScratchPopKeeps, StringAssumption DEF ScratchPop
<1>2. Holding({Popped(mem, str[SCRATCH], count)}, SubSeq(Text(mem, str[SCRATCH]), 1, n))
  BY <1>1, Start, PoppedText DEF Holding
<1>3. n = Len(Shown[SCRATCH]) - count /\ Shown[SCRATCH] = Text(mem, str[SCRATCH])
  BY <1>1, Start, ShownText
<1> HIDE DEF n
<1>4. Sequence!Becomes(SCRATCH, SubSeq(Shown[SCRATCH], 1, n))
  BY <1>1, <1>2, <1>3, ShownStep
<1>5. QED
  BY <1>3, <1>4 DEF Sequence!Pop, Shown

(* The operations of IO.c.                                                 *)
LEMMA RealPathShown ==
  ASSUME IInv, NEW s \in Strings, NEW path \in Paths, RealPath(s, path)
  PROVE  Sequence!Load(s, path)
<1> DEFINE x == str[s]
           o == Cleared(mem, x)
           outcomes == Appended(o.mem, o.string, path)
<1>1. path \in Text_
  BY LiteralTexts
<1>2. x.memory_resource # NULL /\ Becomes(s, outcomes) /\ OthersKept(s)
  BY <1>1, RealPathKeeps DEF RealPath
<1>3. mem \in Memory /\ Good(mem, x)
  BY Start
<1>4. o.string.size = 0 /\ o.string.memory_resource = x.memory_resource
  BY <1>3 DEF Cleared, Outcome, Good, Structure
<1>5. o.mem \in Memory /\ Good(o.mem, o.string)
  BY <1>3, ClearedFollows DEF Follows
<1> HIDE DEF x, o
<1>6. Text(o.mem, o.string) = <<>>
  BY <1>4, NoTextAfter DEF TextAfter
<1>7. Holding(outcomes, Text(o.mem, o.string) \o path)
  BY <1>1, <1>2, <1>4, <1>5, AppendedHolding
<1> HIDE DEF outcomes
<1>8. Text(o.mem, o.string) \o path = path
  BY <1>1, <1>6, WholeText
<1>9. Sequence!Becomes(s, path)
  BY <1>2, <1>7, <1>8, ShownStep
<1>10. QED
  BY <1>9, LoadShown

LEMMA RealPathNoMemoryShown ==
  ASSUME IInv, NEW s \in Strings, NEW path, RealPathNoMemory(s, path)
  PROVE  Sequence!Clear(s)
BY ClearStepShown DEF RealPathNoMemory, Clear

LEMMA ReadFileShown ==
  ASSUME IInv, NEW s \in Strings, NEW file \in Files, ReadFile(s, file)
  PROVE  Sequence!Load(s, file)
<1> DEFINE capacity == Len(file) + 1
           outcomes == {Filled(o, 0, file) : o \in Reallocated(mem, str[s], capacity)}
<1>1. file \in Text_
  BY LiteralTexts
<1>2. str[s].memory_resource # NULL /\ Becomes(s, outcomes) /\ OthersKept(s)
  BY <1>1, ReadFileKeeps DEF ReadFile
<1>3. Len(file) \in Nat /\ str[s].size \in Nat /\ mem \in Memory /\ Good(mem, str[s])
  BY <1>1, Start DEF Text_
<1>4. /\ capacity \in Nat /\ capacity # 0 /\ 0 <= str[s].size /\ 0 + Len(file) <= capacity
      /\ 0 \in Nat
  BY <1>3
<1> HIDE DEF capacity
<1>5. Holding(outcomes, SubSeq(Text(mem, str[s]), 1, 0) \o file)
  BY <1>1, <1>2, <1>3, <1>4, RefilledHolding
<1> HIDE DEF outcomes
<1>6. SubSeq(Text(mem, str[s]), 1, 0) \o file = file
  BY <1>1, ShownText, WholeText
<1>7. Sequence!Becomes(s, file)
  BY <1>2, <1>5, <1>6, ShownStep
<1>8. QED
  BY <1>7, LoadShown

LEMMA ReadFileFailsShown ==
  ASSUME IInv, NEW s \in Strings, NEW file \in Files, NEW count \in Nat,
         ReadFileFails(s, file, count)
  PROVE  Sequence!Spoil(s, file, count)
<1> DEFINE outcomes == {Spoiled(o, SubSeq(file, 1, count)) :
                          o \in Reallocated(mem, str[s], Len(file) + 1)}
<1>1. file \in Text_
  BY LiteralTexts
<1>2. /\ str[s].memory_resource # NULL /\ Becomes(s, outcomes) /\ OthersKept(s)
      /\ count < Len(file)
  BY <1>1, ReadFileFailsKeeps DEF ReadFileFails
<1>3. Holding(outcomes, Mixed(Text(mem, str[s]), file, count))
  BY <1>1, <1>2, Start, SpoiledText DEF Holding
<1> HIDE DEF outcomes
<1>4. Sequence!Becomes(s, Mixed(Shown[s], file, count))
  BY <1>2, <1>3, ShownStep, ShownText
<1>5. QED
  BY <1>4 DEF Sequence!Spoil, Mixed, Shown

LEMMA Meant ==
  ASSUME IInv
  PROVE  (\A s \in Strings : StringMeans(s) /\ IOMeans(s)) /\ ScratchMeans
<1>1. ASSUME NEW s \in Strings PROVE StringMeans(s)
  <2>1. ASSUME NEW resource \in Resources, NEW capacity \in Capacities,
               CtorCapacity(s, resource, capacity)
        PROVE  Sequence!Clear(s)
    BY <2>1, CtorCapacityShown, StringAssumption
  <2>2. ASSUME NEW resource \in Resources, NEW text \in Literals,
               CtorStr(s, resource, text) \/ CtorPrintf(s, resource, text)
        PROVE  Sequence!Extend(s, text)
    BY <2>2, CtorStrShown, CtorPrintfShown
  <2>3. ASSUME NEW capacity \in Capacities, Realloc(s, capacity)
        PROVE  UNCHANGED Shown
    BY <2>3, ReallocShown, StringAssumption
  <2>4. QED
    BY <2>1, <2>2, <2>3, CopyShown, CtorPrintfFailsShown, DtorShown, ClearStepShown,
       AppendStrShown, AppendSliceShown, AppendCharShown, ReplaceAllOfShown
       DEF StringMeans
<1>2. ASSUME NEW s \in Strings PROVE IOMeans(s)
  BY RealPathShown, RealPathNoMemoryShown, ReadFileShown, ReadFileFailsShown DEF IOMeans
<1>3. ScratchMeans
  <2>1. ASSUME NEW resource \in Resources, NEW capacity \in Capacities,
               ScratchCtor(resource, capacity)
        PROVE  Sequence!Clear(SCRATCH)
    BY <2>1, ScratchCtorShown, StringAssumption
  <2>2. QED
    BY <2>1, ScratchCtorFailsShown, ScratchPopShown DEF ScratchMeans
<1>4. QED
  BY <1>1, <1>2, <1>3

(* Each of the steps above is one of Texts, whose arguments are there.     *)
LEMMA LiteralNext ==
  ASSUME NEW s \in Strings, NEW x, x \in Literals \/ \E ch \in Chars : x = <<ch>>,
         Sequence!Extend(s, x)
  PROVE  Sequence!Next
BY DEF Sequence!Next

LEMMA PartNext ==
  ASSUME NEW s \in Strings, NEW t \in Strings,
         NEW i \in 1 .. Len(Shown[t]), NEW j \in 1 .. Len(Shown[t]),
         Sequence!Extend(s, SubSeq(Shown[t], i, j))
  PROVE  Sequence!Next
BY DEF Sequence!Next, Shown

LEMMA WholeNext ==
  ASSUME IInv, NEW s \in Strings, NEW t \in Strings, Unused(s),
         Sequence!Extend(s, Shown[t])
  PROVE  Sequence!Next
<1>1. Shown[t] \in Text_ /\ SubSeq(Shown[t], 1, Len(Shown[t])) = Shown[t]
  BY ShownText, WholeText
<1>2. CASE Len(Shown[t]) = 0
  <2>1. Shown[t] = <<>>
    BY <1>1, <1>2 DEF Text_
  <2>2. Sequence!Becomes(s, <<>>)
    BY <1>1, <2>1, UnusedShown DEF Sequence!Extend, Shown
  <2>3. QED
    BY <2>2 DEF Sequence!Next, Sequence!Clear
<1>3. CASE Len(Shown[t]) # 0
  <2>1. 1 \in 1 .. Len(Shown[t]) /\ Len(Shown[t]) \in 1 .. Len(Shown[t])
    BY <1>1, <1>3 DEF Text_
  <2>2. QED
    BY <1>1, <2>1, PartNext
<1>4. QED
  BY <1>2, <1>3

LEMMA SliceNext ==
  ASSUME IInv, NEW s \in Strings, NEW t \in Strings, NEW text \in Slices(t),
         Sequence!Extend(s, text)
  PROVE  Sequence!Next
<1>1. PICK start \in 0 .. str[t].size - 1, end \in 1 .. str[t].size :
        text = SubSeq(Text(mem, str[t]), start + 1, end)
  BY DEF Slices
<1>2. Shown[t] = Text(mem, str[t]) /\ Len(Shown[t]) = str[t].size /\ str[t].size \in Nat
  BY Start, ShownText
<1>3. start + 1 \in 1 .. Len(Shown[t]) /\ end \in 1 .. Len(Shown[t])
  BY <1>1, <1>2
<1>4. QED
  BY <1>1, <1>2, <1>3, PartNext

LEMMA StringShown ==
  ASSUME IInv, NEW s \in Strings, StringNext(s)
  PROVE  Sequence!Next \/ UNCHANGED Shown
<1>1. StringMeans(s)
  BY Meant
<1>2. CASE \E resource \in Resources, capacity \in Capacities :
             CtorCapacity(s, resource, capacity)
  BY <1>1, <1>2 DEF StringMeans, Sequence!Next
<1>3. CASE \E resource \in Resources, text \in Literals :
             CtorStr(s, resource, text) \/ CtorPrintf(s, resource, text)
  BY <1>1, <1>3, LiteralNext DEF StringMeans
<1>4. CASE \E resource \in Resources, t \in Strings : Copy(s, resource, t)
  BY <1>1, <1>4, WholeNext DEF StringMeans, Copy
<1>5. CASE \E resource \in Resources : CtorPrintfFails(s, resource)
  BY <1>1, <1>5 DEF StringMeans
<1>6. CASE Dtor(s) \/ Clear(s)
  BY <1>1, <1>6 DEF StringMeans, Sequence!Next
<1>7. CASE \E text \in Literals : AppendStr(s, text)
  BY <1>1, <1>7, LiteralNext DEF StringMeans
<1>8. CASE \E t \in Strings : \E text \in Slices(t) : AppendSlice(s, t, text)
  BY <1>1, <1>8, SliceNext DEF StringMeans
<1>9. CASE \E ch \in Chars : AppendChar(s, ch)
  BY <1>1, <1>9, LiteralNext DEF StringMeans
<1>10. CASE \E capacity \in Capacities : Realloc(s, capacity)
  BY <1>1, <1>10 DEF StringMeans
<1>11. CASE \E from, to \in Literals : ReplaceAllOf(s, from, to)
  BY <1>1, <1>11 DEF StringMeans, Sequence!Next, ReplaceAllOf
<1>12. QED
  BY <1>2, <1>3, <1>4, <1>5, <1>6, <1>7, <1>8, <1>9, <1>10, <1>11 DEF StringNext

LEMMA IOShown ==
  ASSUME IInv, NEW s \in Strings, IONext(s)
  PROVE  Sequence!Next
<1>1. IOMeans(s)
  BY Meant
<1>2. CASE \E path \in Paths : RealPath(s, path) \/ RealPathNoMemory(s, path)
  BY <1>1, <1>2 DEF IOMeans, Sequence!Next
<1>3. CASE \E file \in Files : ReadFile(s, file)
  BY <1>1, <1>3 DEF IOMeans, Sequence!Next
<1>4. CASE \E file \in Files : \E count \in 0 .. Len(file) : ReadFileFails(s, file, count)
  BY <1>1, <1>4 DEF IOMeans, Sequence!Next
<1>5. QED
  BY <1>2, <1>3, <1>4 DEF IONext

LEMMA ScratchShown ==
  ASSUME IInv, ScratchNext
  PROVE  Sequence!Next
<1>1. ScratchMeans /\ SCRATCH \in Strings
  BY Meant, StringAssumption
<1>2. CASE \/ \E resource \in Resources, capacity \in Capacities :
                 ScratchCtor(resource, capacity)
           \/ ScratchCtorFails
  BY <1>1, <1>2 DEF ScratchMeans, Sequence!Next
<1>3. CASE \E count \in 1 .. str[SCRATCH].size : ScratchPop(count)
  <2>1. PICK count \in 1 .. str[SCRATCH].size : Sequence!Pop(count)
    BY <1>1, <1>3 DEF ScratchMeans
  <2>2. count \in 0 .. Len(Shown[SCRATCH])
    BY <1>1, Start, ShownText
  <2>3. QED
    BY <2>1, <2>2 DEF Sequence!Next, Shown
<1>4. QED
  BY <1>2, <1>3 DEF ScratchNext

LEMMA NextShown ==
  ASSUME IInv, [Next]_vars
  PROVE  Sequence!Next \/ UNCHANGED Shown
<1>1. CASE \E s \in Strings : StringNext(s) \/ IONext(s)
  BY <1>1, StringShown, IOShown
<1>2. CASE ScratchNext
  BY <1>2, ScratchShown
<1>3. CASE UNCHANGED vars
  BY <1>3 DEF vars, Shown, Text
<1>4. QED
  BY <1>1, <1>2, <1>3 DEF Next

LEMMA InitShown ==
  ASSUME Init
  PROVE  Sequence!Init
BY NoTextAfter DEF Init, Sequence!Init, Empty, Text, Shown

-----------------------------------------------------------------------------
(* Whatever a program does with strings, the scratch buffer and files, a   *)
(* buffer in use belongs to one string, has its capacity and a cell more,  *)
(* and holds characters as far as the string's size: the code of String.c, *)
(* ScratchBuffer.c and IO.c keeps this on its success and failure paths.   *)
THEOREM Invariance == Spec => []IInv
<1>1. Init => IInv
  BY InitInv
<1>2. IInv /\ [Next]_vars => IInv'
  BY NextInv
<1>3. QED
  BY <1>1, <1>2, PTL DEF Spec

(* The structures of String.h hold what they may: no string is longer than *)
(* its capacity, and its buffer has room for the zero.                     *)
THEOREM TypeCorrectness == Spec => []TypeOK
<1>1. IInv => TypeOK
  BY InvProperties
<1>2. QED
  BY <1>1, Invariance, PTL

(* No operation of String.c, ScratchBuffer.c or IO.c leaks a buffer, frees *)
(* one that another string has, or returns it to a resource it is not of.  *)
THEOREM OneBufferEachAlways == Spec => []OneBufferEach
<1>1. IInv => OneBufferEach
  BY InvProperties
<1>2. QED
  BY <1>1, Invariance, PTL

(* Every operation that changes the size of a string leaves a written text *)
(* with its zero behind it, for any contents the buffer had before.        *)
THEOREM EndsInZeroAlways == Spec => EndsInZero
<1>1. IInv /\ [Next]_vars => [EndsStep]_vars
  BY NextInv
<1>2. [][EndsStep]_vars => EndsInZero
  BY PTL DEF EndsInZero, EndsStep
<1>3. QED
  BY <1>1, <1>2, Invariance, PTL DEF Spec

(* get_folder_str and get_filename_str of IO.c split a path of any length  *)
(* into a folder that ends in a slash and a name without one.              *)
THEOREM FolderAndNameAlways == Spec => []FolderAndName
<1>1. IInv => FolderAndName
  BY Start, TextOf, PathParts DEF FolderAndName
<1>2. QED
  BY <1>1, Invariance, PTL

(* Every string behaves as a text of its own: what String.c,               *)
(* ScratchBuffer.c and IO.c do to its buffer, resource and capacity is an  *)
(* operation of module Texts on what can be read from it, and of all of    *)
(* them the one it should be, and leaves every other string's text as it   *)
(* was.                                                                    *)
THEOREM Refinement == Spec => ImplementsTexts
<1>1. Init => Sequence!Init
  BY InitShown
<1>2. IInv /\ [Next]_vars => [Sequence!Next]_Shown
  BY NextShown
<1>3. IInv => Meaning
  BY Meant DEF Meaning
<1>4. Spec => Sequence!Spec
  BY <1>1, <1>2, Invariance, PTL DEF Spec, Sequence!Spec
<1>5. Spec => [][Meaning]_vars
  BY <1>3, Invariance, PTL DEF Spec
<1>6. QED
  BY <1>4, <1>5 DEF ImplementsTexts
=============================================================================
