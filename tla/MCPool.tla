------------------------------- MODULE MCPool -------------------------------
(***************************************************************************)
(* Small instances of Pool for TLC.                                        *)
(***************************************************************************)
EXTENDS Pool

(* Room for the pool and three sub pools of either size, in any order. *)
MCBases == {1024, 1120, 1216, 1312}

(* Sub pools of one block, always full or empty, and of two. *)
MCCounts == {1, 2}

(* Two requests served by blocks of 8, one of a smaller size than its      *)
(* alignment, which takes a block of 16, an empty one, one with no         *)
(* alignment.  No two have the same size.                                  *)
MCRequests == {<<8, 8>>, <<3, 1>>, <<5, 16>>, <<0, 8>>, <<4, 0>>}
=============================================================================
