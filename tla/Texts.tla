------------------------------- MODULE Texts --------------------------------
(***************************************************************************)
(* What a user of String.h, ScratchBuffer.h and IO.h sees: every string is *)
(* a text of its own, that is extended at its end, cleared, rewritten or   *)
(* loaded.  A reading that fails may leave the beginning of the file in    *)
(* place of the beginning of the text.                                     *)
(***************************************************************************)
EXTENDS CStrings

CONSTANTS
  Strings, SCRATCH,
  Literals,     \* texts the program holds itself
  Files,        \* the contents of files
  Paths,        \* the full names of files and folders
  ZERO          \* the character that ends a C string

VARIABLE texts

Init == texts = [s \in Strings |-> <<>>]

Becomes(s, text) == texts' = [texts EXCEPT ![s] = text]

Extend(s, x) == Becomes(s, texts[s] \o x)

Clear(s) == Becomes(s, <<>>)

Load(s, x) == Becomes(s, x)

Replace(s, from, to) ==
  LET text == UpToZero(texts[s], ZERO)
  IN  Occurs(text, from) /\ Becomes(s, Replaced(text, from, to))

(* What is behind the first k characters of x stays. *)
Spoil(s, x, k) ==
  Becomes(s, [i \in DOMAIN texts[s] |-> IF i <= k THEN x[i] ELSE texts[s][i]])

Pop(n) == Becomes(SCRATCH, SubSeq(texts[SCRATCH], 1, Len(texts[SCRATCH]) - n))

(* A string is extended by a literal, or by any part of any string.        *)
Next ==
  \/ \E s \in Strings :
       \/ \E x \in Literals : Extend(s, x)
       \/ \E t \in Strings : \E i, j \in 1 .. Len(texts[t]) :
            Extend(s, SubSeq(texts[t], i, j))
       \/ Clear(s)
       \/ \E x \in Files \cup Paths : Load(s, x)
       \/ \E from, to \in Literals : from # <<>> /\ Replace(s, from, to)
       \/ \E x \in Files : \E k \in 0 .. Len(x) : Spoil(s, x, k)
  \/ \E n \in 0 .. Len(texts[SCRATCH]) : Pop(n)

Spec == Init /\ [][Next]_texts
=============================================================================
