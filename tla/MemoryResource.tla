--------------------------- MODULE MemoryResource ---------------------------
(***************************************************************************)
(* What a MemoryResource (Allocator/Allocator.h) promises the containers   *)
(* that hold one: allocate returns memory of the asked size and alignment  *)
(* that overlaps no other memory in use, or NULL; deallocate gives one     *)
(* allocation back; a resource that is flushed or destroyed takes all of   *)
(* them back.  Every allocator of cmlib is checked to implement this.      *)
(***************************************************************************)
EXTENDS Integers

CONSTANT Requests   \* the pairs <<size, alignment>> a caller may ask for

VARIABLE live       \* the allocations in use: a set of [ptr, len]

Region == [ptr : Nat \ {0}, len : Nat \ {0}]

(* Two regions with no byte in common. *)
Apart(r, s) == r.ptr + r.len <= s.ptr \/ s.ptr + s.len <= r.ptr

Init == live = {}

(* A successful allocate(size, alignment). *)
Allocate(size, alignment) ==
  \E r \in live' :
    /\ r \in Region
    /\ r \notin live
    /\ live' = live \cup {r}
    /\ r.len = size
    /\ alignment # 0 => r.ptr % alignment = 0
    /\ \A s \in live : Apart(r, s)

(* deallocate(ptr) of an allocation in use. *)
Deallocate == \E r \in live : live' = live \ {r}

(* Flush or destruction of the whole resource. *)
Release == live' = {}

Next ==
  \/ \E q \in Requests : Allocate(q[1], q[2])
  \/ Deallocate
  \/ Release

Spec == Init /\ [][Next]_live
=============================================================================
