--------------------------- MODULE ValueSequences ---------------------------
(***************************************************************************)
(* What a user of Vector/Vector.h sees: every vector is a sequence that    *)
(* grows and shrinks by one element at its end, or is cut to a shorter     *)
(* one, and keeps the values of all elements that stay.                    *)
(***************************************************************************)
EXTENDS Sequences, SequencesExt

CONSTANTS
  Vectors, Values,
  Cuts    \* the lengths a vector may be cut to

VARIABLE seqs

Init == seqs = [v \in Vectors |-> <<>>]

Add(v, x) == seqs' = [seqs EXCEPT ![v] = Append(@, x)]

Pop(v) ==
  /\ seqs[v] # <<>>
  /\ seqs' = [seqs EXCEPT ![v] = Front(@)]

Cut(v, n) ==
  /\ n <= Len(seqs[v])
  /\ seqs' = [seqs EXCEPT ![v] = SubSeq(@, 1, n)]

Next ==
  \E v \in Vectors :
    \/ \E x \in Values : Add(v, x)
    \/ Pop(v)
    \/ \E n \in Cuts : Cut(v, n)

Spec == Init /\ [][Next]_seqs
=============================================================================
