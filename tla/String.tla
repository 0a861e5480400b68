------------------------------- MODULE String -------------------------------
(***************************************************************************)
(* The heap string, String/String.h and String/src/String.c, on the malloc *)
(* and calloc resources of Allocator/src/Allocator.c.                      *)
(*                                                                         *)
(* A string is a structure the caller holds; its characters are in a block *)
(* of the structure's resource, one longer than the capacity, so that a    *)
(* zero can stand behind them.  The strings share the memory, which is all *)
(* that is used of it: a resource returns a block not in use, or NULL.     *)
(*                                                                         *)
(* An operation that fails and changes nothing is a stuttering step and    *)
(* not written; what the caller must leave alone is in the guards marked   *)
(* "caller".                                                               *)
(***************************************************************************)
EXTENDS CStrings

CONSTANTS
  Strings,        \* the variables of type String
  SCRATCH,        \* the one of ScratchBuffer.c
  Blocks,         \* the addresses of blocks of memory
  Resources,      \* the memory resources
  Zeroing,        \* those whose memory is zero, as calloc's is
  MaxLen,         \* MaxLen[resource]: the largest block it ever grants
  Chars,          \* what a character may be, besides ZERO
  Literals,       \* the texts a program passes to the operations
  Capacities,     \* the capacities it asks for
  ZERO,           \* '\0'
  NULL            \* no block, no resource, and the contents of fresh memory

ASSUME StringAssumption ==
  /\ SCRATCH \in Strings
  /\ Zeroing \subseteq Resources
  /\ MaxLen \in [Resources -> Nat]
  /\ Literals \subseteq Seq(Chars) /\ Capacities \subseteq Nat
  /\ ZERO \notin Chars /\ NULL \notin Chars \cup {ZERO} \cup Blocks \cup Resources

VARIABLES
  mem,    \* mem[b]: the block at address b, or NULL
  str     \* str[s]: the structure s

vars == <<mem, str>>

-----------------------------------------------------------------------------
Block == [resource : Resources, cells : Seq(Chars \cup {ZERO, NULL})]

ASSUME BlockAssumption == NULL \notin Block

Structure ==
  [memory_resource : Resources \cup {NULL},
   data            : Blocks \cup {NULL},
   size            : Nat,
   capacity        : Nat]

Empty == [memory_resource |-> NULL, data |-> NULL, size |-> 0, capacity |-> 0]

(* The blocks of `length' characters a resource may give in the memory m.  *)
Granted(m, resource, length) ==
  {b \in Blocks : m[b] = NULL /\ length <= MaxLen[resource]}

Fresh(resource, length) ==
  [resource |-> resource,
   cells    |-> [i \in 1 .. length |-> IF resource \in Zeroing THEN ZERO ELSE NULL]]

(* free, which does nothing for NULL. *)
Freed(m, b) == [a \in Blocks |-> IF a = b THEN NULL ELSE m[a]]

(* The block r with text copied into its cells behind the first n.         *)
Written(r, n, text) ==
  [r EXCEPT !.cells =
     [i \in DOMAIN @ |-> IF i \in n + 1 .. n + Len(text) THEN text[i - n] ELSE @[i]]]

(* The text of the string x in the memory m: str_ctor_string.              *)
Text(m, x) == [i \in 1 .. x.size |-> m[x.data].cells[i]]

(* The zero is where every C function expects it. *)
Terminated(m, x) == m[x.data].cells[x.size + 1] = ZERO

(* Operations build on each other, so each is the set of its outcomes: the *)
(* memory and the structure of the string afterwards.  Without memory      *)
(* there is none.                                                          *)
Outcome(m, x) == [mem |-> m, string |-> x]

(* string_ctor_capacity *)
Constructed(m, resource, capacity) ==
  IF capacity = 0 THEN {Outcome(m, [Empty EXCEPT !.memory_resource = resource])}
  ELSE {Outcome([m EXCEPT ![b] =
                   Written(Fresh(resource, capacity + 1), capacity, <<ZERO>>)],
                [memory_resource |-> resource,
                 data            |-> b,
                 size            |-> 0,
                 capacity        |-> capacity]) :
          b \in Granted(m, resource, capacity + 1)}

(* string_realloc *)

\* Bugs: room for the characters alone; forgetting the last character.
ReallocatedTight(m, x, capacity) ==
  IF x.capacity >= capacity THEN {Outcome(m, x)}
  ELSE {Outcome([Freed(m, x.data) EXCEPT ![b] =
                   Written(Fresh(x.memory_resource, capacity), 0,
                           Append(Text(m, x), ZERO))],
                [x EXCEPT !.data = b, !.capacity = capacity]) :
          b \in Granted(m, x.memory_resource, capacity)}

ReallocatedShort(m, x, capacity) ==
  IF x.capacity >= capacity THEN {Outcome(m, x)}
  ELSE {Outcome([Freed(m, x.data) EXCEPT ![b] =
                   Written(Fresh(x.memory_resource, capacity + 1), 0,
                           IF x.size = 0 THEN <<ZERO>>
                           ELSE [Text(m, x) EXCEPT ![x.size] = ZERO])],
                [x EXCEPT !.data = b, !.capacity = capacity]) :
          b \in Granted(m, x.memory_resource, capacity + 1)}

Reallocated(m, x, capacity) ==
  IF x.capacity >= capacity THEN {Outcome(m, x)}
  ELSE {Outcome([Freed(m, x.data) EXCEPT ![b] =
                   Written(Fresh(x.memory_resource, capacity + 1), 0,
                           Append(Text(m, x), ZERO))],
                [x EXCEPT !.data = b, !.capacity = capacity]) :
          b \in Granted(m, x.memory_resource, capacity + 1)}

(* The text and its zero written behind the first n characters of o. *)
Filled(o, n, text) ==
  Outcome([o.mem EXCEPT ![o.string.data] = Written(@, n, Append(text, ZERO))],
          [o.string EXCEPT !.size = n + Len(text)])

(* string_append_str, and string_vprintf of a format that prints `text':   *)
(* both leave the string alone when there is nothing to append.            *)
Appended(m, x, text) ==
  IF text = <<>> THEN {Outcome(m, x)}
  ELSE {Filled(o, x.size, text) : o \in Reallocated(m, x, x.size + Len(text))}

(* string_ctor_str *)
ConstructedFrom(m, resource, text) ==
  {IF text = <<>> THEN o
   ELSE Outcome([o.mem EXCEPT ![o.string.data] = Written(@, 0, text)],
                [o.string EXCEPT !.size = Len(text)]) :
     o \in Constructed(m, resource, Len(text))}

(* string_clear *)
Cleared(m, x) ==
  Outcome(IF x.data = NULL THEN m ELSE [m EXCEPT ![x.data] = Written(@, 0, <<ZERO>>)],
          [x EXCEPT !.size = 0])

Becomes(s, outcomes) ==
  \E o \in outcomes :
    /\ mem' = o.mem
    /\ str' = [str EXCEPT ![s] = o.string]

(* The parts string_slice gives of the string t. *)
Slices(t) ==
  {SubSeq(Text(mem, str[t]), start + 1, end) :
     start \in 0 .. str[t].size - 1, end \in 1 .. str[t].size}

-----------------------------------------------------------------------------
Init ==
  /\ mem = [b \in Blocks |-> NULL]
  /\ str = [s \in Strings |-> Empty]

(* string_ctor_capacity, string_ctor and string_ctor_str, string_copy, and *)
(* string_ctor_printf, of a variable that holds no string.  The scratch    *)
(* buffer has a constructor of its own.                                    *)
Unused(s) == str[s] = Empty /\ s # SCRATCH                   \* caller

CtorCapacity(s, resource, capacity) ==
  /\ Unused(s)
  /\ Becomes(s, Constructed(mem, resource, capacity))

CtorStr(s, resource, text) ==
  /\ Unused(s)
  /\ Becomes(s, ConstructedFrom(mem, resource, text))

Copy(s, resource, t) ==
  /\ Unused(s)
  /\ Becomes(s, ConstructedFrom(mem, resource, Text(mem, str[t])))

CtorPrintf(s, resource, text) ==
  /\ Unused(s)
  /\ Becomes(s, UNION {Appended(o.mem, o.string, text) :
                         o \in Constructed(mem, resource, 1)})

(* string_ctor_vprintf destroys the string it made when printing fails.    *)

\* A bug: leaving it behind.
CtorPrintfFailsLeaking(s, resource) ==
  /\ Unused(s)
  /\ Becomes(s, {Outcome(o.mem, Empty) : o \in Constructed(mem, resource, 1)})

CtorPrintfFails(s, resource) ==
  /\ Unused(s)
  /\ Becomes(s, {Outcome(Freed(o.mem, o.string.data), Empty) :
                   o \in Constructed(mem, resource, 1)})

Dtor(s) == Becomes(s, {Outcome(Freed(mem, str[s].data), Empty)})

Clear(s) == Becomes(s, {Cleared(mem, str[s])})

(* string_append and string_append_str of a literal, string_printf. *)
AppendStr(s, text) ==
  /\ str[s].memory_resource # NULL
  /\ Becomes(s, Appended(mem, str[s], text))

(* string_append_str of a part of a string, perhaps of the same, and       *)
(* string_append_string.  Growth frees the buffer a part of it stands in.  *)
AppendSlice(s, t, text) ==
  /\ str[s].memory_resource # NULL
  /\ s = t => str[s].size + Len(text) <= str[s].capacity     \* caller
  /\ Becomes(s, Appended(mem, str[s], text))

(* string_append_char: twice the capacity when it is used up. *)
AppendChar(s, ch) ==
  LET x == str[s]
      capacity == IF x.size < x.capacity THEN x.capacity
                  ELSE IF x.capacity = 0 THEN 1 ELSE x.capacity * 2
  IN  /\ x.memory_resource # NULL
      /\ Becomes(s, {Filled(o, x.size, <<ch>>) : o \in Reallocated(mem, x, capacity)})

Realloc(s, capacity) ==
  /\ str[s].memory_resource # NULL
  /\ capacity # 0
  /\ Becomes(s, Reallocated(mem, str[s], capacity))

(* string_replace_all: the text up to its first zero is written to a new   *)
(* string, made for the size the whole text would have.  Module ReplaceAll *)
(* has its loops.                                                          *)
ReplaceAllOf(s, from, to) ==
  LET x    == str[s]
      text == UpToZero(Text(mem, x), ZERO)
      new  == Replaced(text, from, to)
      new_size == x.size - Len(text) + Len(new)
  IN  /\ x.memory_resource # NULL
      /\ from # <<>>
      /\ x.data # NULL /\ x.size # 0
      /\ Terminated(mem, x)                                  \* caller
      /\ Occurs(text, from)
      /\ Becomes(s, {Outcome(Freed(p.mem, x.data), p.string) :
                       p \in {Filled(o, 0, new) :
                         o \in Constructed(mem, x.memory_resource,
                                           IF new_size = 0 THEN 1 ELSE new_size)}})

StringNext(s) ==
  \/ \E resource \in Resources :
       \/ \E capacity \in Capacities : CtorCapacity(s, resource, capacity)
       \/ \E text \in Literals : CtorStr(s, resource, text) \/ CtorPrintf(s, resource, text)
       \/ \E t \in Strings : Copy(s, resource, t)
       \/ CtorPrintfFails(s, resource)
  \/ Dtor(s)
  \/ Clear(s)
  \/ \E text \in Literals : AppendStr(s, text)
  \/ \E t \in Strings : \E text \in Slices(t) : AppendSlice(s, t, text)
  \/ \E ch \in Chars : AppendChar(s, ch)
  \/ \E capacity \in Capacities : Realloc(s, capacity)
  \/ \E from, to \in Literals : ReplaceAllOf(s, from, to)
=============================================================================
