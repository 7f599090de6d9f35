------------------------------ MODULE MCFence ------------------------------
(* Instances of Fence for TLC: pages of four bytes, words of six bits. *)
EXTENDS Fence

CONSTANT none

(* Every size from zero to more than two pages, and every alignment up to  *)
(* twice the page, among them sizes that are not multiples of the alignment.*)
SmallLayouts == [size : 0..9, align : {1, 2, 4, 8}]

SmallBases == {8, 24}

(* An empty buffer, one that fills its page, and two that need padding. *)
FewLayouts == {[size |-> 0, align |-> 1], [size |-> 4, align |-> 4],
               [size |-> 3, align |-> 2], [size |-> 5, align |-> 4]}
=============================================================================
