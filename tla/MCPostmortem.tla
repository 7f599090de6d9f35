---------------------------- MODULE MCPostmortem ----------------------------
(* Instances of Postmortem for TLC. *)
EXTENDS Postmortem, TLC

CONSTANTS t1, t2, none

TwoThreads == {t1, t2}

(* The System allocator is out of memory: its pointers never fault. *)
SysPtrs == {}

(* Region 10 * b + n maps the n pages from b on.  Page 2 is the guard of   *)
(* one region and belongs to the buffer of another.                        *)
Pages6 == 1..6
TrioRegions == {12, 23, 52}
TrioBase == [r \in TrioRegions |-> r \div 10]
TrioTotal == [r \in TrioRegions |-> r % 10]

(* COFFIN_PROTECT=above: the guard is the last page, and the user pointer  *)
(* is in the first one.                                                    *)
TrioGuard == [r \in TrioRegions |-> TrioBase[r] + TrioTotal[r] - 1]
TrioHash == [p \in {1, 2, 5} |-> p % 2]

(* The pages each thread touches. *)
BothTouch == [t \in TwoThreads |-> IF t = t1 THEN {2} ELSE {3}]
OneTouches2 == [t \in TwoThreads |-> IF t = t1 THEN {} ELSE {2}]
OneTouches3 == [t \in TwoThreads |-> IF t = t1 THEN {} ELSE {3}]
=============================================================================
