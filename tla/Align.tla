------------------------------- MODULE Align --------------------------------
(***************************************************************************)
(* The size and pointer helpers every allocator of cmlib is built from:    *)
(* MAX of common.h and the alignment helpers of Allocator/Allocator.h.     *)
(*                                                                         *)
(* CMLIB_DETAILS_ALIGN clears the low bits of value + alignment - 1, which *)
(* rounds up to a multiple of the alignment exactly when the alignment is  *)
(* a power of two.  The definitions below are that arithmetic meaning;     *)
(* module AlignMacro has the bit-level one, and AlignProofs shows that     *)
(* they agree.                                                             *)
(***************************************************************************)
EXTENDS Integers

(* The MAX macro. *)
MAX(x, y) == IF x > y THEN x ELSE y

(* CMLIB_DETAILS_ALIGN for a power-of-two alignment. *)
AlignUp(value, alignment) ==
  IF value % alignment = 0 THEN value
                           ELSE value + alignment - (value % alignment)

(* An empty size is aligned as a size of one byte. *)
AlignSize(size, alignment) ==
  AlignUp(IF size = 0 THEN 1 ELSE size, alignment)

AlignPtr(ptr, alignment) == AlignUp(ptr, alignment)
=============================================================================
