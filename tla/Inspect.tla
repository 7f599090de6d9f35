------------------------------ MODULE Inspect ------------------------------
(***************************************************************************)
(* The inspection API (src/lib.rs): slot_state and, under it, state_of     *)
(* (src/registry.rs), which probes the table without the lock while the    *)
(* threads of Registry.tla allocate and free; and the counters, live_count *)
(* and quarantine_len, each one relaxed load.                              *)
(*                                                                         *)
(* One more thread, the inspector, asks.  It reads the state of a slot,    *)
(* then its pointer; or one counter, then the other: two steps, with any   *)
(* number of the writers' between.  A relaxed load of the pointer that     *)
(* returns an older value is a comparison made earlier, right after the    *)
(* load of the state.  Nothing orders the two relaxed loads of counters:   *)
(* the inspector makes them in either order.                               *)
(***************************************************************************)
EXTENDS Registry

CONSTANT
  Asked        \* pointers the inspector asks for

ASSUME InspectAssumption == Asked \subseteq Ptr

VARIABLES
  qpc,         \* where the inspector is
  qptr,        \* the pointer it asks for
  probes,      \* how many slots it has left behind
  seen,        \* the state it has loaded
  answer,      \* what state_of returns
  count,       \* the counter it has loaded first
  was,         \* history: the truth when it asked
  calm         \* history: nothing has happened to what it asks for since

asking  == <<qpc, qptr, probes, seen, answer, count>>
ivars   == <<qpc, qptr, probes, seen, answer, count, was, calm>>

NOTHING == "none"

(* What the table says of pointer p, by its contents. *)
Truth(p) ==
  IF \E i \in Idx : Tracked(i) /\ User[entry[i]] = p
  THEN state[CHOOSE i \in Idx : Tracked(i) /\ User[entry[i]] = p]
  ELSE NOTHING

IInit ==
  /\ Init
  /\ qpc = "idle"
  /\ qptr = None
  /\ probes = 0
  /\ seen = EMPTY
  /\ answer = NOTHING
  /\ count = 0
  /\ was = NOTHING
  /\ calm = TRUE

QGoto(from, to) == qpc = from /\ qpc' = to

(* slot_state(p) *)
Ask(p) ==
  /\ QGoto("idle", "load")
  /\ qptr' = p
  /\ was' = Truth(p)
  /\ UNCHANGED <<probes, seen, answer, count, calm>>

(* The slot of the probe the inspector is at. *)
Here == (Hash[qptr] + probes) % Cap

(* Mutant: the probe does not stop after Cap slots. *)
Further_Unbounded ==
  /\ probes' = probes + 1
  /\ qpc' = "load"
  /\ UNCHANGED answer

(* The next slot, or None after Cap of them. *)
Further ==
  /\ probes' = probes + 1
  /\ IF probes + 1 = Cap THEN qpc' = "done" ELSE qpc' = "load"
  /\ UNCHANGED answer

(* Mutant: the reader waits for the writers. *)
Load_Locked ==
  /\ qpc = "load"
  /\ ~held
  /\ \/ state[Here] = EMPTY /\ qpc' = "done" /\ UNCHANGED <<probes, seen, answer>>
     \/ state[Here] = TOMB /\ Further /\ UNCHANGED seen
     \/ Tracked(Here) /\ qpc' = "compare" /\ seen' = state[Here] /\ UNCHANGED <<probes, answer>>
  /\ UNCHANGED <<qptr, count, was, calm>>

(* Mutant: the probe ends at a tombstone. *)
Load_StopAtTomb ==
  /\ qpc = "load"
  /\ \/ ~Tracked(Here) /\ qpc' = "done" /\ UNCHANGED <<probes, seen, answer>>
     \/ Tracked(Here) /\ qpc' = "compare" /\ seen' = state[Here] /\ UNCHANGED <<probes, answer>>
  /\ UNCHANGED <<qptr, count, was, calm>>

(* The state is loaded: EMPTY ends the probe, TOMB continues it. *)
Load ==
  /\ qpc = "load"
  /\ \/ state[Here] = EMPTY /\ qpc' = "done" /\ UNCHANGED <<probes, seen, answer>>
     \/ state[Here] = TOMB /\ Further /\ UNCHANGED seen
     \/ Tracked(Here) /\ qpc' = "compare" /\ seen' = state[Here] /\ UNCHANGED <<probes, answer>>
  /\ UNCHANGED <<qptr, count, was, calm>>

(* The pointer is loaded, whatever the slot has become since. *)
Compare ==
  /\ qpc = "compare"
  /\ \/ User[entry[Here]] = qptr /\ answer' = seen /\ qpc' = "done" /\ UNCHANGED probes
     \/ User[entry[Here]] # qptr /\ Further
  /\ seen' = EMPTY
  /\ UNCHANGED <<qptr, count, was, calm>>

(* slot_state returns "ready", "freed" or None. *)
Return ==
  /\ QGoto("done", "idle")
  /\ qptr' = None
  /\ probes' = 0
  /\ answer' = NOTHING
  /\ was' = NOTHING
  /\ calm' = TRUE
  /\ UNCHANGED <<seen, count>>

(* live_count() *)
LiveCount ==
  /\ \/ QGoto("idle", "live") /\ count' = live
     \/ QGoto("queue", "idle") /\ count' = 0
  /\ calm' = TRUE
  /\ UNCHANGED <<qptr, probes, seen, answer, was>>

(* quarantine_len() *)
QuarantineLen ==
  /\ \/ QGoto("idle", "queue") /\ count' = q_len
     \/ QGoto("live", "idle") /\ count' = 0
  /\ calm' = TRUE
  /\ UNCHANGED <<qptr, probes, seen, answer, was>>

Inspector ==
  \/ Load
  \/ Compare
  \/ Return
  \/ qpc # "idle" /\ (LiveCount \/ QuarantineLen)

(* Whether the pointer asked for is being put into a slot.  (A slot that   *)
(* gets back the region it had last was not tracked meanwhile, and the     *)
(* publication that follows changes the truth.)                            *)
Refilled == \E i \in Idx : entry'[i] # entry[i] /\ User[entry'[i]] = qptr

(* A step of the program; the history sees what it does to the pointer     *)
(* asked for and, when live has been loaded, to the quarantine.            *)
Program ==
  /\ Next
  /\ UNCHANGED <<asking, was>>
  /\ calm' = /\ calm
             /\ qpc # "idle" => Truth(qptr)' = was /\ ~Refilled
             /\ qpc = "live" => q_len' = q_len

INext ==
  \/ Program
  \/ \E p \in Asked : Ask(p) /\ UNCHANGED vars
  \/ qpc = "idle" /\ (LiveCount \/ QuarantineLen) /\ UNCHANGED vars
  \/ Inspector /\ UNCHANGED vars

ISpec == IInit /\ [][INext]_<<vars, ivars>>

(* The threads of the program as in Registry.tla, and an inspector that    *)
(* keeps running.                                                          *)
FairInspection == ISpec /\ Fairness /\ WF_ivars(Inspector)
-----------------------------------------------------------------------------
(* Properties. *)

(* The probe of the inspector stays within the table, and a state it has   *)
(* loaded and not yet compared is one of a tracked slot.                   *)
ITypeOK ==
  /\ qpc \in {"idle", "load", "compare", "done", "live", "queue"}
  /\ qptr \in Asked \cup {None}
  /\ probes \in 0..Cap
  /\ seen \in {EMPTY, READY, FREED}
  /\ answer \in {NOTHING, READY, FREED}
  /\ count \in 0..(Cap + QCap)
  /\ was \in {NOTHING, READY, FREED}
  /\ calm \in BOOLEAN
  /\ qpc \in {"idle", "live", "queue"} <=> qptr = None
  /\ qpc = "load" => probes < Cap
  /\ qpc = "compare" <=> seen # EMPTY

(* Beside allocations, frees and evictions of other pointers, the slots it *)
(* probes included, slot_state says of a pointer what the table says: no   *)
(* probe misses a pointer that is there, or finds one that is not.         *)
AnswerIsRight == qpc = "done" /\ calm => answer = was

(* Read without the lock, at any moment, live_count does not underflow and *)
(* neither counter exceeds what it counts in.  Read one after the other    *)
(* they may belong to different moments: a region that is freed after live *)
(* has been loaded is counted twice.  Since the quarantine never shrinks   *)
(* there is no other way for them to add up to more than the table holds.  *)
CountersSane ==
  /\ live \in 0..Cap
  /\ q_len \in 0..QCap
  /\ qpc = "queue" => count + live <= Cap
  /\ qpc = "live" /\ calm => count + q_len <= Cap

(* slot_state always returns, however often the table changes below it.    *)
AskIsAnswered == qpc # "idle" ~> qpc = "idle"
-----------------------------------------------------------------------------
(* The inductive invariant behind them. *)

(* The table holds pointer p in slot i. *)
Holds(i, p) == Tracked(i) /\ User[entry[i]] = p

(* While nothing happens to the pointer it is where it was, the probe has  *)
(* not gone past its slot, and a slot that the inspector is about to find  *)
(* it in had the right state.                                              *)
ProbeInv ==
  /\ qpc \in {"idle", "live", "queue"} => probes = 0
  /\ qpc = "compare" => probes < Cap
  /\ qpc # "done" => answer = NOTHING
  /\ calm /\ qpc \in {"load", "compare"} =>
       /\ Truth(qptr) = was
       /\ \A i \in Idx : Holds(i, qptr) => Dist(Hash[qptr], i) >= probes
  /\ calm /\ qpc = "compare" /\ User[entry[Here]] = qptr => seen = was

(* Between its loads of the counters. *)
CountingInv ==
  /\ qpc = "queue" => count <= q_len
  /\ qpc = "live" => count <= Cap
  /\ qpc = "live" /\ calm => count + q_len <= Cap

InspectInv == RegistryInv /\ ITypeOK /\ ProbeInv /\ CountingInv /\ AnswerIsRight
=============================================================================
