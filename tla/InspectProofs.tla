---------------------------- MODULE InspectProofs ----------------------------
(***************************************************************************)
(* The inspection API, proved for every table, every hash and any number   *)
(* of threads: a probe that never takes the lock gives the right answer    *)
(* beside any work on other pointers.                                      *)
(***************************************************************************)
EXTENDS Inspect, HeapProofs

(* The inspector writes nothing of the registry: with it the program does  *)
(* what it does without.                                                   *)
THEOREM InspectionOnlyReads == ISpec => Spec
<1>1. IInit => Init
  BY DEF IInit
<1>2. [INext]_<<vars, ivars>> => [Next]_vars
  BY DEF INext, Program
<1>3. QED
  BY <1>1, <1>2, PTL DEF ISpec, Spec

(* A pointer is in one slot at most, and Truth is what that slot says.     *)
LEMMA TruthIs ==
  ASSUME IInv, NEW p, NEW i \in Idx, Holds(i, p)
  PROVE  Truth(p) = state[i]
<1>1. \A j \in Idx : Holds(j, p) => j = i
  <2>1. SUFFICES ASSUME NEW j \in Idx, Holds(j, p), j # i PROVE FALSE
    OBVIOUS
  <2>2. entry[i] \in Region /\ entry[j] \in Region /\ User[entry[i]] = User[entry[j]]
    BY <2>1 DEF IInv, EntriesAreRegions, Holds
  <2>3. Span[entry[i]] \cap Span[entry[j]] = {}
    BY <2>1 DEF IInv, NoOverlap, Apart, Holds
  <2>4. QED
    BY <2>2, <2>3, GeometryAssumption
<1>2. (CHOOSE j \in Idx : Tracked(j) /\ User[entry[j]] = p) = i
  BY <1>1 DEF Holds
<1>3. QED
  BY <1>2 DEF Truth, Holds

LEMMA TruthIsNothing ==
  ASSUME NEW p, \A i \in Idx : ~Holds(i, p)
  PROVE  Truth(p) = NOTHING
BY DEF Truth, Holds

LEMMA TruthType ==
  ASSUME IInv, NEW p
  PROVE  Truth(p) \in {NOTHING, READY, FREED}
<1>1. CASE \E i \in Idx : Holds(i, p)
  BY <1>1, TruthIs DEF Holds, Tracked
<1>2. CASE \A i \in Idx : ~Holds(i, p)
  BY <1>2, TruthIsNothing
<1>3. QED
  BY <1>1, <1>2

(* The slot the inspector is at is the one that is probed after those it   *)
(* has left behind, and no other is.                                       *)
LEMMA HereIs ==
  ASSUME NEW h \in Idx, NEW k \in 0..(Cap - 1), NEW i \in Idx
  PROVE  /\ (h + k) % Cap \in Idx
         /\ Dist(h, i) \in 0..(Cap - 1)
         /\ Dist(h, i) = k <=> i = (h + k) % Cap
<1>0. Cap \in Nat \ {0}
  BY ConstantsAssumption
<1>1. (h + k) % Cap = IF h + k < Cap THEN h + k ELSE h + k - Cap
  BY <1>0, ModSum DEF Idx
<1>2. QED
  BY <1>0, <1>1 DEF Idx, Dist

(* While it asks, the inspector asks for a pointer that has a hash.        *)
LEMMA AskedHash ==
  ASSUME ITypeOK, qpc \in {"load", "compare", "done"}
  PROVE  qptr \in Asked /\ Hash[qptr] \in Idx
BY InspectAssumption, HashAssumption DEF ITypeOK
-----------------------------------------------------------------------------
(* The steps of the inspector. *)

(* What they preserve together.                                            *)
InspectorInv == ITypeOK /\ ProbeInv /\ CountingInv /\ AnswerIsRight

LEMMA AskStep ==
  ASSUME InspectInv, NEW p \in Asked, Ask(p), UNCHANGED vars
  PROVE  InspectorInv'
<1>0. IInv /\ ITypeOK /\ ProbeInv /\ qpc = "idle" /\ probes = 0 /\ Cap \in Nat \ {0}
  BY ConstantsAssumption DEF InspectInv, RegistryInv, Ask, QGoto, ProbeInv
<1>1. p \in Ptr /\ p # None /\ Hash[p] \in Idx
  BY InspectAssumption, HashAssumption, ConstantsAssumption
<1>2. Truth(p) \in {NOTHING, READY, FREED} /\ Truth(p)' = Truth(p)
  BY <1>0, TruthType DEF vars, Truth, Tracked
<1>3. ITypeOK'
  BY <1>0, <1>1, <1>2 DEF ITypeOK, Ask, QGoto
<1>4. \A i \in Idx : Dist(Hash[p], i) >= 0
  BY <1>0, <1>1 DEF Dist, Idx
<1>5. Truth(qptr)' = was'
  BY <1>2 DEF Ask, Truth, Tracked
<1>6. ProbeInv'
  BY <1>0, <1>4, <1>5 DEF ProbeInv, Ask, QGoto
<1>7. CountingInv' /\ AnswerIsRight'
  BY DEF CountingInv, AnswerIsRight, Ask, QGoto
<1>8. QED
  BY <1>3, <1>6, <1>7 DEF InspectorInv

(* Where the pointer can still be, once the slot here does not hold it.    *)
LEMMA LeftBehind ==
  ASSUME InspectInv, calm, qpc \in {"load", "compare"}, ~Holds(Here, qptr)
  PROVE  /\ \A i \in Idx : Holds(i, qptr) => Dist(Hash[qptr], i) >= probes + 1
         /\ probes + 1 = Cap => was = NOTHING
<1>0. /\ Cap \in Nat \ {0} /\ probes \in 0..(Cap - 1) /\ Hash[qptr] \in Idx
      /\ \A i \in Idx : Holds(i, qptr) => Dist(Hash[qptr], i) >= probes
      /\ Truth(qptr) = was
  BY ConstantsAssumption, AskedHash DEF InspectInv, ProbeInv, ITypeOK
<1>1. ASSUME NEW i \in Idx, Holds(i, qptr)
      PROVE  Dist(Hash[qptr], i) >= probes + 1 /\ probes + 1 # Cap
  <2>1. i # Here /\ Dist(Hash[qptr], i) >= probes
    BY <1>0, <1>1
  <2>2. Dist(Hash[qptr], i) \in 0..(Cap - 1) /\ Dist(Hash[qptr], i) # probes
    BY <1>0, <2>1, HereIs DEF Here
  <2>3. QED
    BY <1>0, <2>1, <2>2
<1>2. QED
  BY <1>0, <1>1, TruthIsNothing

(* An EMPTY slot ends every chain that runs through it.                    *)
LEMMA EmptyEnds ==
  ASSUME InspectInv, calm, qpc = "load", state[Here] = EMPTY
  PROVE  was = NOTHING
<1>0. /\ Cap \in Nat \ {0} /\ probes \in 0..(Cap - 1) /\ Hash[qptr] \in Idx
      /\ ChainsHold /\ Truth(qptr) = was
  BY ConstantsAssumption, AskedHash DEF InspectInv, RegistryInv, IInv, ProbeInv, ITypeOK
<1>1. Here \in Idx /\ Dist(Hash[qptr], Here) = probes
  BY <1>0, HereIs DEF Here
<1>2. ~Holds(Here, qptr)
  BY DEF Holds, Tracked, EMPTY, READY, FREED
<1>3. ASSUME NEW i \in Idx, Holds(i, qptr) PROVE FALSE
  <2>1. Dist(Hash[qptr], i) >= probes + 1 /\ Dist(Hash[qptr], i) \in 0..(Cap - 1)
    BY <1>0, <1>2, <1>3, LeftBehind, HereIs
  <2>2. Here \in Before(User[entry[i]], i)
    BY <1>0, <1>1, <1>3, <2>1 DEF Before, Holds
  <2>3. QED
    BY <1>0, <1>3, <2>2 DEF ChainsHold, Holds
<1>4. QED
  BY <1>0, <1>3, TruthIsNothing

(* What the inspector reads stays as it is while it takes a step.          *)
LEMMA ReadsFrame ==
  ASSUME UNCHANGED <<vars, qptr>>
  PROVE  /\ Truth(qptr)' = Truth(qptr)
         /\ \A i \in Idx : Holds(i, qptr)' <=> Holds(i, qptr)
         /\ state' = state /\ entry' = entry
BY DEF vars, Truth, Holds, Tracked

(* The probe moves on from a slot that does not hold the pointer.          *)
LEMMA FurtherStep ==
  ASSUME InspectInv, qpc \in {"load", "compare"}, calm => ~Holds(Here, qptr),
         Further, seen' = EMPTY, UNCHANGED <<vars, qptr, count, was, calm>>
  PROVE  InspectorInv'
<1>0. /\ ITypeOK /\ ProbeInv /\ Cap \in Nat \ {0} /\ probes \in 0..(Cap - 1)
      /\ answer' = NOTHING /\ answer = NOTHING
      /\ probes' = probes + 1
      /\ qpc' = IF probes + 1 = Cap THEN "done" ELSE "load"
  BY ConstantsAssumption DEF InspectInv, ITypeOK, ProbeInv, Further
<1>1. ITypeOK'
  BY <1>0 DEF ITypeOK
<1>2. ProbeInv'
  BY <1>0, LeftBehind, ReadsFrame DEF ProbeInv
<1>3. CountingInv' /\ AnswerIsRight'
  BY <1>0, LeftBehind DEF CountingInv, AnswerIsRight
<1>4. QED
  BY <1>1, <1>2, <1>3 DEF InspectorInv

LEMMA LoadStep ==
  ASSUME InspectInv, Load, UNCHANGED vars
  PROVE  InspectorInv'
<1>0. /\ IInv /\ ITypeOK /\ ProbeInv /\ Cap \in Nat \ {0} /\ probes \in 0..(Cap - 1)
      /\ qpc = "load" /\ seen = EMPTY /\ answer = NOTHING
      /\ UNCHANGED <<vars, qptr, count, was, calm>>
  BY ConstantsAssumption DEF InspectInv, RegistryInv, ITypeOK, ProbeInv, Load
<1>1. CASE state[Here] = EMPTY /\ qpc' = "done" /\ UNCHANGED <<probes, seen, answer>>
  <2>1. ITypeOK'
    BY <1>0, <1>1 DEF ITypeOK
  <2>2. ProbeInv'
    BY <1>1 DEF ProbeInv
  <2>3. CountingInv' /\ AnswerIsRight'
    BY <1>0, <1>1, EmptyEnds DEF CountingInv, AnswerIsRight
  <2>4. QED
    BY <2>1, <2>2, <2>3 DEF InspectorInv
<1>2. CASE state[Here] = TOMB /\ Further /\ UNCHANGED seen
  <2>1. ~Holds(Here, qptr)
    BY <1>2 DEF Holds, Tracked, TOMB, READY, FREED
  <2>2. QED
    BY <1>0, <1>2, <2>1, FurtherStep
<1>3. CASE Tracked(Here) /\ qpc' = "compare" /\ seen' = state[Here] /\ UNCHANGED <<probes, answer>>
  <2>1. Here \in Idx
    BY <1>0, AskedHash, HereIs DEF Here
  <2>2. ITypeOK'
    BY <1>0, <1>3 DEF ITypeOK, Tracked, EMPTY, READY, FREED
  <2>3. calm /\ User[entry[Here]] = qptr => seen' = was
    BY <1>0, <1>3, <2>1, TruthIs DEF ProbeInv, Holds
  <2>4. Here' = Here
    BY <1>0, <1>3 DEF Here
  <2>5. ProbeInv'
    BY <1>0, <1>3, <2>3, <2>4, ReadsFrame DEF ProbeInv
  <2>6. CountingInv' /\ AnswerIsRight'
    BY <1>3 DEF CountingInv, AnswerIsRight
  <2>7. QED
    BY <2>2, <2>5, <2>6 DEF InspectorInv
<1>4. QED
  BY <1>1, <1>2, <1>3 DEF Load

LEMMA CompareStep ==
  ASSUME InspectInv, Compare, UNCHANGED vars
  PROVE  InspectorInv'
<1>0. /\ ITypeOK /\ ProbeInv /\ qpc = "compare" /\ seen' = EMPTY
      /\ UNCHANGED <<vars, qptr, count, was, calm>>
  BY DEF InspectInv, Compare
<1>1. CASE User[entry[Here]] = qptr /\ answer' = seen /\ qpc' = "done" /\ UNCHANGED probes
  <2>1. ITypeOK'
    BY <1>0, <1>1 DEF ITypeOK
  <2>2. ProbeInv'
    BY <1>1 DEF ProbeInv
  <2>3. CountingInv' /\ AnswerIsRight'
    BY <1>0, <1>1 DEF CountingInv, AnswerIsRight, ProbeInv
  <2>4. QED
    BY <2>1, <2>2, <2>3 DEF InspectorInv
<1>2. CASE User[entry[Here]] # qptr /\ Further
  BY <1>0, <1>2, FurtherStep DEF Holds
<1>3. QED
  BY <1>1, <1>2 DEF Compare

LEMMA ReturnStep ==
  ASSUME InspectInv, Return, UNCHANGED vars
  PROVE  InspectorInv'
<1>0. ITypeOK /\ Cap \in Nat \ {0}
  BY ConstantsAssumption DEF InspectInv
<1>1. ITypeOK'
  BY <1>0 DEF ITypeOK, Return, QGoto
<1>2. ProbeInv' /\ CountingInv' /\ AnswerIsRight'
  BY DEF ProbeInv, CountingInv, AnswerIsRight, Return, QGoto
<1>3. QED
  BY <1>1, <1>2 DEF InspectorInv

(* The counters fit in the table, whatever the lock holder is doing.       *)
LEMMA CountersFit ==
  ASSUME RegistryInv
  PROVE  /\ Cap \in Nat \ {0} /\ QCap \in Nat
         /\ live \in 0..Cap /\ q_len \in 0..QCap /\ live + q_len <= Cap
<1>1. live \in Nat /\ live + q_len + Surplus <= Cap /\ q_len \in 0..QCap /\ Surplus \in 0..1
  BY CountsFit DEF RegistryInv, IInv, TypeOK, Surplus
<1>2. QED
  BY <1>1, ConstantsAssumption

LEMMA CounterStep ==
  ASSUME InspectInv, LiveCount \/ QuarantineLen, UNCHANGED vars
  PROVE  InspectorInv'
<1>0. /\ ITypeOK /\ ProbeInv /\ CountingInv /\ answer' = answer
      /\ qpc \in {"idle", "live", "queue"} /\ qpc' \in {"idle", "live", "queue"}
      /\ UNCHANGED <<vars, qptr, probes, seen, was>> /\ calm' = TRUE
  BY DEF InspectInv, LiveCount, QuarantineLen, QGoto
<1>1. /\ Cap \in Nat \ {0} /\ QCap \in Nat
      /\ live \in 0..Cap /\ q_len \in 0..QCap /\ live + q_len <= Cap
  BY CountersFit DEF InspectInv
<1>2. /\ count' \in 0..(Cap + QCap) /\ q_len' = q_len
      /\ qpc' = "live" => count' = live
      /\ qpc' = "queue" => count' = q_len
  BY <1>0, <1>1 DEF LiveCount, QuarantineLen, QGoto, vars
<1>3. ITypeOK'
  BY <1>0, <1>2 DEF ITypeOK
<1>4. ProbeInv'
  BY <1>0 DEF ProbeInv
<1>5. CountingInv'
  <2>1. qpc' = "live" => count' <= Cap /\ count' + q_len' <= Cap
    BY <1>1, <1>2
  <2>2. qpc' = "queue" => count' <= q_len'
    BY <1>1, <1>2
  <2>3. QED
    BY <2>1, <2>2 DEF CountingInv
<1>6. AnswerIsRight'
  BY <1>0 DEF AnswerIsRight
<1>7. QED
  BY <1>3, <1>4, <1>5, <1>6 DEF InspectorInv
-----------------------------------------------------------------------------
(* A step of the program below the inspector. *)

TruthWhere ==
  IInv => \A p : \A i \in Idx : Holds(i, p) => Truth(p) = state[i]

LEMMA TruthNext ==
  IInv' => \A p : \A i \in Idx : Holds(i, p)' => Truth(p)' = state'[i]
<1>1. TruthWhere
  BY TruthIs DEF TruthWhere
<1>2. TruthWhere'
  BY <1>1, PTL
<1>3. QED
  BY <1>2 DEF TruthWhere

(* While the history says that nothing happens to the pointer, it does not *)
(* come into a slot: the slot that would take it is that of a region whose *)
(* live predecessor is still mapped.                                       *)
LEMMA HoldsMoves ==
  ASSUME IInv, NEW t \in Threads, Step(t), NEW p, NEW i \in Idx,
         Holds(i, p)', Truth(p)' = Truth(p)
  PROVE  Holds(i, p)
<1>1. CASE Tracked(i) /\ entry'[i] = entry[i]
  BY <1>1 DEF Holds
<1>2. CASE Publish(t) /\ i = at[t] /\ entry'[i] = reg[t] /\ reg[t] \in Region
  <2>1. state'[i] = READY /\ pc[t] = "publish" /\ User[reg[t]] = p
    BY <1>2 DEF Publish, Goto, Holds, IInv, TypeOK
  <2>2. IInv'
    BY NextIInv DEF Next
  <2>3. Truth(p) = READY
    BY <2>1, <2>2, TruthNext
  <2>4. PICK j \in Idx : Holds(j, p)
    BY <2>3, TruthIsNothing DEF NOTHING, READY
  <2>5. state[j] = READY /\ User[entry[j]] = p
    BY <2>3, <2>4, TruthIs DEF Holds
  <2>6. Holding(j) /\ entry[j] \in Region
    BY <2>4, <2>5, ReadyIsHeld DEF IInv, EntriesAreRegions, Holds
  <2>7. Span[reg[t]] \cap Span[entry[j]] = {}
    BY <2>1, <2>6 DEF IInv, NoOverlap, InFlight, Apart
  <2>8. QED
    BY <1>2, <2>1, <2>5, <2>6, <2>7, GeometryAssumption
<1>3. QED
  BY <1>1, <1>2, TrackedMoves DEF Holds

(* The quarantine does not shrink: an eviction makes room for the region   *)
(* that takes its place.                                                   *)
LEMMA QuarantineGrows ==
  ASSUME RegistryInv, NEW t \in Threads, Step(t)
  PROVE  q_len' \in Nat /\ q_len' >= q_len
<1>1. q_len \in Nat
  BY CountersFit
<1>2. q_len' = q_len \/ Push(t)
  BY DEF Step, Call, Map, BeginFree, Acquire, Alloc, Fill, Publish, Inserted, Full, GiveBack,
     Fallback, Dealloc, Miss, SysFree, DoubleFreed, Seal, MarkFreed, Unmap, Entomb, Replace,
     Pushed, ringVars
<1>3. QED
  BY <1>1, <1>2 DEF Push

LEMMA ProgramStep ==
  ASSUME InspectInv, Program
  PROVE  InspectorInv'
<1>0. /\ IInv /\ ITypeOK /\ ProbeInv /\ AnswerIsRight
      /\ UNCHANGED <<qpc, qptr, probes, seen, answer, count, was>>
      /\ calm' \in BOOLEAN
      /\ calm' => /\ calm
                  /\ qpc # "idle" => Truth(qptr)' = was /\ ~Refilled
                  /\ qpc = "live" => q_len' = q_len
  BY DEF InspectInv, RegistryInv, Program, asking, ITypeOK
<1>1. PICK t \in Threads : Step(t)
  BY DEF Program, Next
<1>2. ITypeOK'
  BY <1>0 DEF ITypeOK
<1>3. AnswerIsRight'
  BY <1>0 DEF AnswerIsRight
<1>4. ASSUME calm', qpc \in {"load", "compare"}
      PROVE  /\ Truth(qptr)' = was
             /\ \A i \in Idx : Holds(i, qptr)' => Dist(Hash[qptr], i) >= probes
             /\ qpc = "compare" /\ User[entry'[Here]] = qptr => seen = was
  <2>1. calm /\ Truth(qptr)' = was /\ ~Refilled /\ Truth(qptr) = was
    BY <1>0, <1>4 DEF ProbeInv
  <2>2. ASSUME NEW i \in Idx, Holds(i, qptr)' PROVE Dist(Hash[qptr], i) >= probes
    <3>1. PICK p : p = qptr
      OBVIOUS
    <3>2. Holds(i, p)' /\ Truth(p)' = Truth(p)
      BY <1>0, <2>1, <2>2, <3>1 DEF Holds, Truth, Tracked
    <3>3. Holds(i, p)
      BY <1>0, <1>1, <3>2, HoldsMoves
    <3>4. QED
      BY <1>0, <1>4, <2>1, <3>1, <3>3 DEF ProbeInv
  <2>3. ASSUME qpc = "compare", User[entry'[Here]] = qptr PROVE seen = was
    <3>1. Here \in Idx
      <4>1. probes \in 0..(Cap - 1) /\ Hash[qptr] \in Idx
        BY <1>0, <2>3, AskedHash, ConstantsAssumption DEF ProbeInv, ITypeOK
      <4>2. QED
        BY <4>1, HereIs DEF Here
    <3>2. entry'[Here] = entry[Here]
      BY <2>1, <2>3, <3>1 DEF Refilled
    <3>3. QED
      BY <1>0, <2>1, <2>3, <3>2 DEF ProbeInv
  <2>4. QED
    BY <2>1, <2>2, <2>3
<1>5. Here' = Here
  BY <1>0 DEF Here
<1>6. ProbeInv'
  BY <1>0, <1>4, <1>5 DEF ProbeInv
<1>7. CountingInv'
  <2>1. /\ CountingInv /\ count \in Nat
        /\ q_len \in Nat /\ q_len' \in Nat /\ q_len' >= q_len
    BY <1>0, <1>1, QuarantineGrows, CountersFit, ConstantsAssumption DEF InspectInv, ITypeOK
  <2>2. QED
    BY <1>0, <2>1 DEF CountingInv
<1>8. QED
  BY <1>2, <1>3, <1>6, <1>7 DEF InspectorInv
-----------------------------------------------------------------------------
(* The probe, the history and the answer are consistent in every reachable *)
(* state (state_of of src/registry.rs beside every writer).                *)
THEOREM InspectInvariance == ISpec => []InspectInv
<1>1. IInit => InspectorInv
  BY ConstantsAssumption DEF IInit, InspectorInv, ITypeOK, ProbeInv, CountingInv, AnswerIsRight
<1>2. RegistryInv /\ InspectorInv /\ [INext]_<<vars, ivars>> => InspectorInv'
  <2>1. SUFFICES ASSUME InspectInv, [INext]_<<vars, ivars>>
                 PROVE  InspectorInv'
    BY DEF InspectInv, InspectorInv
  <2>2. CASE Program
    BY <2>1, <2>2, ProgramStep
  <2>3. ASSUME NEW p \in Asked, Ask(p), UNCHANGED vars PROVE InspectorInv'
    BY <2>1, <2>3, AskStep
  <2>4. CASE Load /\ UNCHANGED vars
    BY <2>1, <2>4, LoadStep
  <2>5. CASE Compare /\ UNCHANGED vars
    BY <2>1, <2>5, CompareStep
  <2>6. CASE Return /\ UNCHANGED vars
    BY <2>1, <2>6, ReturnStep
  <2>7. CASE (LiveCount \/ QuarantineLen) /\ UNCHANGED vars
    BY <2>1, <2>7, CounterStep
  <2>8. CASE UNCHANGED <<vars, ivars>>
    <3>1. /\ UNCHANGED <<qpc, qptr, probes, seen, answer, count, was, calm>>
          /\ UNCHANGED <<vars, qptr>> /\ q_len' = q_len
      BY <2>8 DEF ivars, vars
    <3>2. ITypeOK'
      BY <2>1, <3>1 DEF InspectInv, ITypeOK
    <3>3. AnswerIsRight' /\ CountingInv'
      BY <2>1, <3>1 DEF InspectInv, AnswerIsRight, CountingInv
    <3>4. Here' = Here
      BY <3>1 DEF Here
    <3>5. ProbeInv'
      BY <2>1, <3>1, <3>4, ReadsFrame DEF InspectInv, ProbeInv
    <3>6. QED
      BY <3>2, <3>3, <3>5 DEF InspectorInv
  <2>9. QED
    BY <2>1, <2>2, <2>3, <2>4, <2>5, <2>6, <2>7, <2>8 DEF INext, Inspector
<1>3. ISpec => []RegistryInv
  BY InspectionOnlyReads, RegistryInvariance, PTL
<1>4. RegistryInv /\ InspectorInv => InspectInv
  BY DEF InspectInv, InspectorInv
<1>5. QED
  BY <1>1, <1>2, <1>3, <1>4, PTL DEF ISpec

(* slot_state says of a pointer what the table says, beside any number of  *)
(* allocations, frees and evictions of other pointers and without the lock *)
(* (state_of of src/registry.rs).                                          *)
THEOREM AnswersAreRight == ISpec => []AnswerIsRight
<1>1. InspectInv => AnswerIsRight
  BY DEF InspectInv
<1>2. QED
  BY <1>1, InspectInvariance, PTL

(* live_count and quarantine_len, each read at any moment and without the  *)
(* lock, stay within the table and the ring.  Read one after the other,    *)
(* with any steps of the program between, the quarantine and then the live *)
(* ones never add up to more than the table holds; in the other order they *)
(* do not unless a region entered the quarantine meanwhile (src/lib.rs,    *)
(* src/registry.rs).                                                       *)
THEOREM CountersMakeSense == ISpec => []CountersSane
<1>1. InspectInv => CountersSane
  <2>1. SUFFICES ASSUME RegistryInv, ITypeOK, CountingInv PROVE CountersSane
    BY DEF InspectInv
  <2>2. /\ Cap \in Nat /\ live \in 0..Cap /\ q_len \in 0..QCap /\ QCap \in Nat
        /\ live + q_len <= Cap /\ count \in 0..(Cap + QCap)
    BY <2>1, CountersFit DEF ITypeOK
  <2>3. qpc = "queue" => count + live <= Cap
    BY <2>1, <2>2 DEF CountingInv
  <2>4. QED
    BY <2>1, <2>2, <2>3 DEF CountersSane, CountingInv
<1>2. QED
  BY <1>1, InspectInvariance, PTL
=============================================================================
