------------------------------ MODULE CStrings ------------------------------
(***************************************************************************)
(* Texts as the C string functions see them, and what string_replace_all   *)
(* promises of them.                                                       *)
(***************************************************************************)
EXTENDS Naturals, Sequences, SequencesExt

(* A text ends at its first zero, for functions that take a char pointer.  *)
UpToZero(text, zero) ==
  LET n == SelectInSeq(text, LAMBDA c : c = zero)
  IN  IF n = 0 THEN text ELSE SubSeq(text, 1, n - 1)

(* `from' stands in text at position i. *)
OccursAt(text, from, i) == IsPrefix(from, SubSeq(text, i, Len(text)))

Occurs(text, from) == \E i \in 1 .. Len(text) : OccursAt(text, from, i)

(* From left to right, every occurrence of `from', which is not empty,     *)
(* that does not overlap an earlier one becomes `to'.                      *)
Replaced(text, from, to) ==
  LET rest[i \in 1 .. Len(text) + 1] ==   \* the text from position i on
        IF i > Len(text) THEN <<>>
        ELSE IF OccursAt(text, from, i) THEN to \o rest[i + Len(from)]
        ELSE <<text[i]>> \o rest[i + 1]
  IN  rest[1]
=============================================================================
