------------------------------ MODULE MCString ------------------------------
(***************************************************************************)
(* A small instance of StringUsers for TLC: the scratch buffer and one     *)
(* other string, and a third block for the one that grows.                 *)
(***************************************************************************)
EXTENDS StringUsers, TLC

CONSTANTS a, malloc, calloc

MCChars == {a, SLASH}

(* Nothing; a character; a text that can be cut and that can grow to the   *)
(* largest.                                                                *)
MCLiterals == {<<>>, <<a>>, <<SLASH, a>>}

(* calloc runs out of memory one character earlier than malloc.            *)
MCMaxLen == [resource \in Resources |-> IF resource = malloc THEN 4 ELSE 3]

MCCapacities == {0, 2}

(* Nothing, and a file with a zero in it.                                  *)
MCFiles == {<<>>, <<a, ZERO>>}

MCPaths == {<<SLASH>>, <<SLASH, a>>}

Symmetry == Permutations(Blocks)
=============================================================================
