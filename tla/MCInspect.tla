----------------------------- MODULE MCInspect -----------------------------
(* Instances of Inspect for TLC. *)
EXTENDS Inspect

CONSTANTS t1, t2, none

TwoThreads == {t1, t2}

(* Regions of one page each, named by their page, in two slots: the first  *)
(* two collide in slot 1 with the pointer of the System allocator, the     *)
(* third one starts in slot 0.                                             *)
TrioRegions == 1..3
SysPtrs == {101}
TrioBase == [r \in TrioRegions |-> r]
TrioTotal == [r \in TrioRegions |-> 1]
TrioHash == [p \in TrioRegions \cup SysPtrs |-> IF p = 3 THEN 0 ELSE 1]

OneAsked == {1}
=============================================================================
