--------------------------- MODULE ScratchBuffer ----------------------------
(***************************************************************************)
(* The scratch buffer, ScratchBuffer/src/ScratchBuffer.c: one String of    *)
(* the whole program.  Its appending, printing, clearing, copying and      *)
(* destruction are those of String applied to SCRATCH; its constructor and *)
(* its pop are its own.                                                    *)
(***************************************************************************)
EXTENDS String

(* scratch_ctor may be called again: the old buffer goes first, ... *)

\* A bug: the new buffer in place of the old one.
ScratchCtorKeepingOld(resource, capacity) ==
  Becomes(SCRATCH, Constructed(mem, resource, capacity))

ScratchCtor(resource, capacity) ==
  Becomes(SCRATCH, Constructed(Freed(mem, str[SCRATCH].data), resource, capacity))

(* ... also when there is no resource or no memory for the new one. *)
ScratchCtorFails ==
  Becomes(SCRATCH, {Outcome(Freed(mem, str[SCRATCH].data), Empty)})

(* The structure x without its last `count' characters, and their cells:   *)
(* nothing is written to a buffer that is not there, as count is 0 then.   *)

\* Bugs: leaving the cells as they are; popping all but count.
PoppedOf(m, x, count) == Outcome(m, [x EXCEPT !.size = @ - count])

PoppedTo(m, x, count) ==
  Outcome(IF x.data = NULL THEN m
          ELSE [m EXCEPT ![x.data] =
                  Written(@, count, [i \in 1 .. x.size - count |-> ZERO])],
          [x EXCEPT !.size = count])

Popped(m, x, count) ==
  Outcome(IF x.data = NULL THEN m
          ELSE [m EXCEPT ![x.data] =
                  Written(@, x.size - count, [i \in 1 .. count |-> ZERO])],
          [x EXCEPT !.size = @ - count])

ScratchPop(count) ==
  /\ count <= str[SCRATCH].size
  /\ Becomes(SCRATCH, {Popped(mem, str[SCRATCH], count)})

ScratchNext ==
  \/ \E resource \in Resources, capacity \in Capacities : ScratchCtor(resource, capacity)
  \/ ScratchCtorFails
  \/ \E count \in 1 .. str[SCRATCH].size : ScratchPop(count)
=============================================================================
