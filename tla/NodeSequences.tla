--------------------------- MODULE NodeSequences ----------------------------
(***************************************************************************)
(* What a user of List/List.h sees: every list is a sequence of nodes, a   *)
(* node is in one place at most, and an operation adds a node, takes one   *)
(* out, or empties a list.                                                 *)
(***************************************************************************)
EXTENDS Sequences, SequencesExt

CONSTANTS Lists, Nodes

VARIABLE seqs   \* seqs[l]: the nodes of list l, in the order of iteration

Listed == UNION {ToSet(seqs[l]) : l \in Lists}

Init == seqs = [l \in Lists |-> <<>>]

Insert(l, i, n) ==
  /\ n \notin Listed
  /\ seqs' = [seqs EXCEPT ![l] = InsertAt(@, i, n)]

Take(l, i) == seqs' = [seqs EXCEPT ![l] = RemoveAt(@, i)]

Clear(l) == seqs' = [seqs EXCEPT ![l] = <<>>]

Next ==
  \E l \in Lists :
    \/ \E i \in 1 .. Len(seqs[l]) + 1, n \in Nodes : Insert(l, i, n)
    \/ \E i \in 1 .. Len(seqs[l]) : Take(l, i)
    \/ Clear(l)

Spec == Init /\ [][Next]_seqs
=============================================================================
