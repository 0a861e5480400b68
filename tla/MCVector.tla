------------------------------ MODULE MCVector ------------------------------
(***************************************************************************)
(* A small instance of Vector for TLC: two vectors on one resource that    *)
(* has a third block for the one that grows, and none when both would.     *)
(***************************************************************************)
EXTENDS Vector, TLC

(* No capacity; fewer and more elements than a vector may have. *)
MCReservations == {0, 1, 3}

(* A range inside most vectors; one that ends behind all of them.          *)
MCRanges == {<<1, 2>>, <<0, 9>>}

Symmetry ==
  Permutations(Vectors) \cup Permutations(Blocks) \cup Permutations(Values)
=============================================================================
