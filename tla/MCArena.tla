------------------------------ MODULE MCArena -------------------------------
(***************************************************************************)
(* Small instances of Arena for TLC.                                       *)
(***************************************************************************)
EXTENDS Arena

(* Neither buffer is a multiple of 16: base + 24 is one of 8 only. *)
MCBases == {1024, 1120}

(* No arena; one that holds a single request; one that holds some of the   *)
(* requests below in some orders; SIZE_MAX, where the sum with the size of *)
(* the structure wraps and malloc is asked for 23 bytes.                   *)
MCCapacities == {0, 3, 26, 65535}

(* Sizes that tell requests apart, alignments with and without padding, an *)
(* empty request and one without alignment.                                *)
MCRequests == {<<3, 1>>, <<4, 2>>, <<8, 8>>, <<5, 16>>, <<0, 8>>, <<2, 0>>}

(* A request whose end lies behind the end of the address space. *)
WrappingRequests == {<<8, 8>>, <<65520, 1>>}
=============================================================================
