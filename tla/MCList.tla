------------------------------- MODULE MCList -------------------------------
(***************************************************************************)
(* A small instance of List for TLC: two lists that share a memory         *)
(* resource and one with its own.                                          *)
(***************************************************************************)
EXTENDS List, TLC

CONSTANTS a, b, c, r1, r2

MCLists == {a, b, c}

MCResourceOf == a :> r1 @@ b :> r1 @@ c :> r2

(* Nodes are alike, and so are the two lists that share a resource.        *)
Symmetry == Permutations(Nodes) \cup Permutations({a, b})
=============================================================================
