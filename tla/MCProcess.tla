----------------------------- MODULE MCProcess -----------------------------
(* Instances of Process for TLC. *)
EXTENDS Process

CONSTANTS t1, t2, p1, p2

TwoThreads == {t1, t2}

OnePtr == {p1}

TwoPtrs == {p1, p2}

Env(s, a, f, m) == [symbolize |-> s, annotate |-> a, on_fault |-> f, arena |-> m]

(* The handler allocates, for symbols or for annotations, or not; it exits *)
(* or returns; the arena can be mapped or not.                             *)
SixEnvs ==
  {Env(FALSE, FALSE, "exit", "fits"), Env(TRUE, FALSE, "abort", "fits"),
   Env(FALSE, TRUE, "abort", "fits"), Env(TRUE, TRUE, "exit", "fits"),
   Env(FALSE, FALSE, "abort", "too large"), Env(FALSE, FALSE, "abort", "no memory")}

OneEnv == {Env(FALSE, FALSE, "exit", "fits")}
=============================================================================
