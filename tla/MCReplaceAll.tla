---------------------------- MODULE MCReplaceAll ----------------------------
(***************************************************************************)
(* Small instances of ReplaceAll for TLC: all texts up to a length, what   *)
(* they hold replaced by something shorter, as long and longer.            *)
(***************************************************************************)
EXTENDS ReplaceAll

CONSTANTS a, b

MCChars == {a, b}

Upto(n) == BoundedSeq(MCChars, n)

MCTexts == Upto(5)

MCTos == Upto(3)

(* Texts that end where their zero is, ... *)
MCFroms == {[data |-> x, size |-> Len(x)] : x \in Upto(3)}

(* ... and texts that are the beginning of a longer one. *)
MCSlices == {[data |-> x, size |-> Len(x) - 1] : x \in Upto(3) \ {<<>>}}
=============================================================================
