----------------------------- MODULE MCRegistry -----------------------------
(* Instances of Registry for TLC. *)
EXTENDS Registry, TLC

CONSTANTS t1, t2, none

TwoThreads == {t1, t2}

Symmetry == Permutations(Threads)

SysPtrs == {101}

(* Region 10 * b + n maps the n pages from b on.  The user pointer is in   *)
(* the first page, so that regions of different length share one.          *)
Pages4 == 1..4
BaseOf(r) == r \div 10
TotalOf(r) == r % 10

(* Two slots.  A layout of 12 seals a page of 22 when it is passed for 11. *)
FencedRegions == {11, 12, 22, 41}
FencedBase == [r \in FencedRegions |-> BaseOf(r)]
FencedTotal == [r \in FencedRegions |-> TotalOf(r)]
FencedHash == [p \in {1, 2, 4} \cup SysPtrs |-> IF p = 1 THEN 0 ELSE 1]

(* Four slots.  Every probe starts in slot 2 or 3, so that chains are long *)
(* and wrap around the end of the table.                                   *)
WideRegions == {11, 12, 21, 31, 41}
WideBase == [r \in WideRegions |-> BaseOf(r)]
WideTotal == [r \in WideRegions |-> TotalOf(r)]
WideHash == [p \in Pages4 \cup SysPtrs |-> IF p \in {1, 2, 101} THEN 3 ELSE 2]
=============================================================================
