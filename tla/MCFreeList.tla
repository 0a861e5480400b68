----------------------------- MODULE MCFreeList -----------------------------
(***************************************************************************)
(* Small instances of FreeList for TLC.                                    *)
(***************************************************************************)
EXTENDS FreeList

(* Three places malloc may take in any order: a first pool of the sizes    *)
(* below and an added one each fill the room between two of them, and none *)
(* is a multiple of 32, so that this alignment costs a fresh pool padding. *)
MCBases == {1040, 1136, 1232}

(* A pool of the smallest block, and one of up to three blocks, whose end  *)
(* is not aligned.                                                         *)
MCPoolSizes == {12, 53}

(* A single byte; a size that leaves no room to split the block it is put  *)
(* in; a request that needs padding; one without an alignment.  No two have *)
(* the same size, so that an allocation tells which request it answers.    *)
MCRequests == {<<1, 1>>, <<24, 8>>, <<8, 32>>, <<5, 0>>}
=============================================================================
