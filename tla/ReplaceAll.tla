----------------------------- MODULE ReplaceAll -----------------------------
(***************************************************************************)
(* The loops of string_replace_all, String/src/String.c, one step for each *)
(* turn: it counts what it will replace, makes a string of the size that   *)
(* follows, and replaces in a second pass that looks for `from' in another *)
(* way than the first.  The arguments are chosen at the start.             *)
(*                                                                         *)
(* `from' is a Str: characters, and how many of them are meant.  strstr    *)
(* takes the characters alone and reads them up to their zero.             *)
(***************************************************************************)
EXTENDS CStrings

CONSTANTS
  Chars,      \* what a character may be, besides the zero
  Texts,      \* the texts a string may hold; none has a zero in it
  Froms,      \* the `from' arguments: [data, size]
  Tos,        \* the `to' arguments
  SIZE_MAX,   \* largest size_t
  NULL        \* no string made yet

ASSUME ReplaceAllAssumption ==
  /\ SIZE_MAX \in Nat \ {0}
  /\ Texts \cup Tos \subseteq Seq(Chars)
  /\ \A x \in Texts : Len(x) <= SIZE_MAX
  /\ Froms \subseteq [data : Seq(Chars), size : Nat]
  /\ \A from \in Froms : from.size \in 0 .. Len(from.data)
  /\ NULL \notin Nat

VARIABLES
  text, from, to,   \* what was passed
  this,             \* the text of the string
  pc,               \* where the function is
  count,            \* the occurrences found by the first loop
  at,               \* found of the first loop, reader of the second
  capacity, out     \* the string under construction

args == <<text, from, to>>
vars == <<text, from, to, this, pc, count, at, capacity, out>>

-----------------------------------------------------------------------------
SizeT(n) == n % (SIZE_MAX + 1)

(* strstr(this->data + start, from.data) *)
Found(start) ==
  {i \in start .. Len(text) : OccursAt(text, from.data, i + 1)}

Meant == SubSeq(from.data, 1, from.size)

(* The size of the result. *)

\* A bug: counting the growth of one occurrence only.
NewSizeOnce(n) == SizeT(Len(text) + Len(to) + (SIZE_MAX + 1) - from.size)

NewSize(n) == SizeT(Len(text) + n * Len(to) - n * from.size)

Init ==
  /\ text \in Texts
  /\ from \in Froms
  /\ to \in Tos
  /\ this = text
  /\ pc = "start"
  /\ count = 0
  /\ at = 0
  /\ capacity = NULL
  /\ out = <<>>

(* Nothing to look for, or nothing to look in. *)

\* A bug: looking for nothing.
StartAlways ==
  /\ pc = "start"
  /\ pc' = IF text = <<>> THEN "done" ELSE "count"
  /\ UNCHANGED <<args, this, count, at, capacity, out>>

Start ==
  /\ pc = "start"
  /\ pc' = IF from.size = 0 \/ text = <<>> THEN "done" ELSE "count"
  /\ UNCHANGED <<args, this, count, at, capacity, out>>

(* The first loop, and its end. *)
Count ==
  /\ pc = "count"
  /\ Found(at) # {}
  /\ count' = SizeT(count + 1)
  /\ at' = Min(Found(at)) + from.size
  /\ UNCHANGED <<args, this, pc, capacity, out>>

Counted ==
  /\ pc = "count"
  /\ Found(at) = {}
  /\ pc' = IF count = 0 THEN "done" ELSE "make"
  /\ UNCHANGED <<args, this, count, at, capacity, out>>

Make ==
  /\ pc = "make"
  /\ capacity' = IF NewSize(count) = 0 THEN 1 ELSE NewSize(count)
  /\ at' = 0
  /\ pc' = "replace"
  /\ UNCHANGED <<args, this, count, out>>

MakeFails ==
  /\ pc = "make"
  /\ pc' = "failed"
  /\ UNCHANGED <<args, this, count, at, capacity, out>>

(* The second loop. *)

\* A bug: replacing at every occurrence, those that overlap included.
ReplaceOverlapping ==
  /\ pc = "replace"
  /\ OccursAt(text, Meant, at + 1)
  /\ out' = out \o to
  /\ at' = at + 1
  /\ UNCHANGED <<args, this, pc, count, capacity>>

Replace ==
  /\ pc = "replace"
  /\ at < Len(text)
  /\ OccursAt(text, Meant, at + 1)
  /\ out' = out \o to
  /\ at' = at + from.size
  /\ UNCHANGED <<args, this, pc, count, capacity>>

Keep ==
  /\ pc = "replace"
  /\ at < Len(text)
  /\ ~OccursAt(text, Meant, at + 1)
  /\ out' = Append(out, text[at + 1])
  /\ at' = at + 1
  /\ UNCHANGED <<args, this, pc, count, capacity>>

Finish ==
  /\ pc = "replace"
  /\ at = Len(text)
  /\ this' = out
  /\ pc' = "done"
  /\ UNCHANGED <<args, count, at, capacity, out>>

Next ==
  Start \/ Count \/ Counted \/ Make \/ MakeFails \/ Replace \/ Keep \/ Finish

(* A function that was called runs on. *)
Spec == Init /\ [][Next]_vars /\ WF_vars(Next)

-----------------------------------------------------------------------------
(* The second pass never writes more than the first one counted room for.  *)
Fits == capacity # NULL => Len(out) <= capacity

(* When the function returns, the string has every occurrence of the       *)
(* characters that are meant replaced from left to right, or, without      *)
(* memory for that, is what it was.                                        *)
ReplacesAll ==
  /\ pc = "done" => this = IF Meant = <<>> THEN text ELSE Replaced(text, Meant, to)
  /\ pc = "failed" => this = text

(* No part of the function is entered again, and each turn of a loop moves *)
(* on in the text and never behind its zero, where strstr would read what  *)
(* is no part of the string: also for an empty `from', which stands        *)
(* everywhere, and for one of which fewer characters are meant than        *)
(* strstr looks for.  At most 2 * Len(text) + 4 steps are so taken.        *)
Part == [start |-> 0, count |-> 1, make |-> 2, replace |-> 3, done |-> 4,
         failed |-> 4]

Advances ==
  [][\/ Part[pc] < Part[pc']
     \/ pc' = pc /\ at < at' /\ at' <= Len(text)]_vars

(* It returns, also for an empty `from', which stands everywhere.          *)
Returns == <>(pc \in {"done", "failed"})
=============================================================================
