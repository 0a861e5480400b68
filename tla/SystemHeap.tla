----------------------------- MODULE SystemHeap -----------------------------
(***************************************************************************)
(* The C library's malloc and free, as cmlib reaches them through          *)
(* cmlib_details_malloc and cmlib_details_free.  The heap is the set of    *)
(* chunks [base, len] that malloc returned and free has not taken back.    *)
(***************************************************************************)
EXTENDS Integers

CONSTANTS
  Bases,      \* the addresses malloc may return
  MallocGap   \* the bytes malloc keeps for itself between two chunks

(* malloc's result is aligned for every fundamental type, and is not NULL. *)
MallocAlignment == 16

ASSUME HeapAssumption ==
  /\ Bases \subseteq Nat
  /\ \A base \in Bases : base > 0 /\ base % MallocAlignment = 0
  /\ MallocGap \in Nat

Chunk == [base : Nat, len : Nat]

(* malloc(len) may return base: the new chunk keeps clear of all others.   *)
CanPlace(heap, base, len) ==
  \A c \in heap : \/ base + len + MallocGap <= c.base
                  \/ c.base + c.len + MallocGap <= base

(* The heap after a successful malloc(len), and after free(ptr). *)
Malloc(heap, base, len) == heap \cup {[base |-> base, len |-> len]}

FreeAll(heap, ptrs) == {c \in heap : c.base \notin ptrs}
=============================================================================
