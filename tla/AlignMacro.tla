----------------------------- MODULE AlignMacro -----------------------------
(***************************************************************************)
(* CMLIB_DETAILS_ALIGN of Allocator/Allocator.h bit by bit, and what its   *)
(* callers rely on.  The allocators are specified with AlignUp of module   *)
(* Align, the arithmetic meaning of the macro for powers of two; but       *)
(* nothing in the library requires one: Vector passes the size of its      *)
(* elements as the alignment of its buffer.                                *)
(*                                                                         *)
(* The macro has no state.  A behaviour is the choice of a value and an    *)
(* alignment, all those of a machine word of WordBits bits.                *)
(***************************************************************************)
EXTENDS Align

CONSTANT WordBits

ASSUME WordAssumption == WordBits \in Nat \ {0}

VARIABLES value, alignment

vars == <<value, alignment>>

-----------------------------------------------------------------------------
Modulus == 2 ^ WordBits

Word == 0 .. Modulus - 1

(* size_t arithmetic, and the complement of a word. *)
SizeT(n)      == n % Modulus
Complement(n) == Modulus - 1 - n

(* Bit i of a word, and C's & of two words. *)
Bit(x, i) == (x \div 2 ^ i) % 2

And(x, y) ==
  CHOOSE z \in Word :
    \A i \in 0 .. WordBits - 1 : Bit(z, i) = Bit(x, i) * Bit(y, i)

(* Bugs: rounding down; clearing the alignment's own bits instead of those *)
(* below it.                                                               *)
RoundDown(v, a) == And(v, Complement(SizeT(a - 1)))
WrongMask(v, a) == And(SizeT(v + a - 1), Complement(a))

CMLIB_DETAILS_ALIGN(v, a) == And(SizeT(v + a - 1), Complement(SizeT(a - 1)))

Init ==
  /\ value \in Word
  /\ alignment \in Word

Next == UNCHANGED vars

Spec == Init /\ [][Next]_vars

-----------------------------------------------------------------------------
Result == CMLIB_DETAILS_ALIGN(value, alignment)

Wraps == value + alignment - 1 >= Modulus

PowersOfTwo == {2 ^ k : k \in 0 .. WordBits - 1}

(* For the alignments that C admits the macro is AlignUp, also at the end  *)
(* of the address space, where its result wraps around to 0.               *)
AgreesWithAlignUp ==
  alignment \in PowersOfTwo => Result = SizeT(AlignUp(value, alignment))

(* Alignments nobody chose to be powers of two, as the size of a vector's  *)
(* elements, are safe as well.  Unless the sum wraps, a size is never cut  *)
(* short and grows by less than the alignment, which is the room           *)
(* free_list_required_block_size adds.  The result is a multiple of every  *)
(* power of two that divides the alignment, so that a buffer aligned by    *)
(* the size of its elements is aligned for their type; and of every one    *)
(* that divides the value, so that the header in front of a payload of the *)
(* free list stays aligned.                                                *)
SafeForAnyAlignment ==
  /\ (alignment # 0 /\ ~Wraps) => Result \in value .. value + alignment - 1
  /\ \A d \in PowersOfTwo :
       (value % d = 0 \/ (alignment # 0 /\ alignment % d = 0)) => Result % d = 0
=============================================================================
