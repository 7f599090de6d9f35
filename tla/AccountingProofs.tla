-------------------------- MODULE AccountingProofs --------------------------
(***************************************************************************)
(* What the registry keeps books of: every mapped page has an owner, and   *)
(* the counters are the numbers of live and quarantined regions.           *)
(***************************************************************************)
EXTENDS RegistryProofs, FiniteSetTheorems

(* While another thread is in the critical section no slot is being        *)
(* evicted.                                                                *)
LEMMA NoneDying ==
  ASSUME MutualExclusion, NEW t \in Threads, InCritical(t), pc[t] # "tomb"
  PROVE  \A i \in Idx : ~Dying(i)
BY DEF Dying, MutualExclusion, InCritical, CriticalPC, FreePC

(* A slot whose pages are mapped keeps them, unless it is evicted.         *)
LEMMA HoldingStays ==
  ASSUME IInv, NEW t \in Threads, Step(t), NEW i \in Idx, Holding(i)
  PROVE  \/ Holding(i)' /\ entry'[i] = entry[i]
         \/ Unmap(t) /\ i = Victim
<1>0. TypeOK /\ MutualExclusion /\ MutualExclusion' /\ FillInv /\ SealInv
  BY MutexStep DEF IInv
<1>1. /\ state \in [Idx -> {EMPTY, READY, FREED, TOMB}]
      /\ entry \in [Idx -> Region \cup {None}]
      /\ at \in [Threads -> Idx]
      /\ pc \in [Threads -> PC]
  BY <1>0 DEF TypeOK
<1> USE DEF READY, FREED, TOMB, EMPTY
<1>2. Tracked(i) /\ ~Dying(i)
  BY DEF Holding
<1>3. Tracked(i)'
  <2>1. CASE Entomb(t)
    <3>1. i # Victim
      BY <1>2, <2>1 DEF Entomb, Goto, Dying
    <3>2. QED
      BY <1>1, <1>2, <2>1, <3>1 DEF Entomb, Tracked
  <2>2. CASE Publish(t)
    BY <1>1, <1>2, <2>2 DEF Publish, Tracked
  <2>3. CASE MarkFreed(t)
    BY <1>1, <1>2, <2>3 DEF MarkFreed, Tracked
  <2>4. CASE UNCHANGED state
    BY <1>2, <2>4 DEF Tracked
  <2>5. QED
    BY <2>1, <2>2, <2>3, <2>4, Frame
<1>4. entry'[i] = entry[i]
  BY <1>1, <1>2, Frame DEF Fill, FirstFree
<1>5. ASSUME Dying(i)' PROVE Unmap(t) /\ i = Victim
  <2>1. PICK u \in Threads : pc'[u] = "tomb" /\ i = Victim'
    BY <1>5 DEF Dying
  <2>2. CASE u = t
    BY <1>0, <2>1, <2>2, Arrivals DEF Unmap, Victim, ringVars
  <2>3. CASE u # t
    <3>1. pc[u] = "tomb" /\ InCritical(u)
      BY <1>0, <2>1, <2>3, Others DEF InCritical, CriticalPC, FreePC
    <3>2. i = Victim
      BY <1>0, <2>1, <2>3, <3>1, Foreign DEF Victim
    <3>3. QED
      BY <1>2, <3>1, <3>2 DEF Dying
  <2>4. QED
    BY <2>2, <2>3
<1>6. QED
  BY <1>3, <1>4, <1>5 DEF Holding

(* A region in flight stays so until it is given back or in a slot.        *)
LEMMA InFlightStays ==
  ASSUME IInv, NEW t \in Threads, Step(t), NEW u \in Threads, InFlight(u)
  PROVE  \/ InFlight(u)' /\ reg'[u] = reg[u]
         \/ u = t /\ GiveBack(t)
         \/ u = t /\ Publish(t) /\ \E i \in Idx : Holding(i)' /\ entry'[i] = reg[t]
<1>0. TypeOK /\ MutualExclusion /\ MutualExclusion' /\ FillInv
  BY MutexStep DEF IInv
<1>1. /\ state \in [Idx -> {EMPTY, READY, FREED, TOMB}]
      /\ at \in [Threads -> Idx]
      /\ pc \in [Threads -> PC]
  BY <1>0 DEF TypeOK
<1>2. CASE u # t
  BY <1>0, <1>2, Others DEF InFlight
<1>3. CASE Publish(t) /\ u = t
  <2>1. PICK i \in Idx : i = at[t]
    BY <1>1
  <2>2. Tracked(i)' /\ entry'[i] = reg[t]
    BY <1>0, <1>1, <1>3, <2>1 DEF Publish, Goto, FillInv, Tracked
  <2>3. pc'[t] = "inserted"
    BY <1>1, <1>3 DEF Publish, Goto
  <2>4. ~Dying(i)'
    BY <1>0, <2>3 DEF Dying, MutualExclusion, InCritical, CriticalPC, InsertPC, FreePC
  <2>5. QED
    BY <1>3, <2>2, <2>4 DEF Holding
<1>4. CASE u = t /\ (Call(t) \/ Dealloc(t) \/ Inserted(t) \/ Fallback(t))
  BY <1>4 DEF InFlight, Goto, Call, Dealloc, Map, BeginFree, Inserted, Fallback, Miss, SysFree, DoubleFreed, Seal,
         MarkFreed, Push, Unmap, Entomb, Replace, Pushed
<1>5. CASE u = t /\ (Acquire(t) \/ Full(t) \/ \E i \in Idx : Fill(t, i))
  BY <1>1, <1>5 DEF InFlight, Goto, Acquire, Full, Fill, locals
<1>6. QED
  BY <1>2, <1>3, <1>4, <1>5 DEF Step, Alloc

(* The owner of page g: a slot of the table or a thread in flight. *)
HasOwner(g) ==
  \/ \E i \in Idx : Holding(i) /\ g \in Span[entry[i]]
  \/ \E t \in Threads : InFlight(t) /\ g \in Span[reg[t]]

(* A page keeps an owner through every step, or the step frees the page.   *)
LEMMA OwnerStays ==
  ASSUME IInv, NEW t \in Threads, Step(t), NEW g \in Page, HasOwner(g), prot'[g] # "free"
  PROVE  HasOwner(g)'
<1>0. TypeOK
  BY DEF IInv
<1>1. ASSUME NEW i \in Idx, Holding(i), g \in Span[entry[i]] PROVE HasOwner(g)'
  <2>1. CASE Unmap(t) /\ i = Victim
    BY <1>1, <2>1 DEF Unmap, Protect
  <2>2. CASE Holding(i)' /\ entry'[i] = entry[i]
    BY <1>1, <2>2 DEF HasOwner
  <2>3. QED
    BY <1>1, <2>1, <2>2, HoldingStays
<1>2. ASSUME NEW u \in Threads, InFlight(u), g \in Span[reg[u]] PROVE HasOwner(g)'
  <2>1. CASE u = t /\ GiveBack(t)
    BY <1>2, <2>1 DEF GiveBack, Protect
  <2>2. CASE InFlight(u)' /\ reg'[u] = reg[u]
    BY <1>2, <2>2 DEF HasOwner
  <2>3. CASE u = t /\ \E i \in Idx : Holding(i)' /\ entry'[i] = reg[t]
    BY <1>2, <2>3 DEF HasOwner
  <2>4. QED
    BY <1>2, <2>1, <2>2, <2>3, InFlightStays
<1>3. QED
  BY <1>1, <1>2 DEF HasOwner

LEMMA NoLeakStep ==
  ASSUME IInv, NoLeak, NEW t \in Threads, Step(t)
  PROVE  NoLeak'
<1>0. /\ TypeOK
      /\ pc \in [Threads -> PC]
      /\ reg \in [Threads -> Region \cup {None}]
  BY DEF IInv, TypeOK
<1>1. SUFFICES ASSUME NEW g \in Page, prot'[g] # "free"
               PROVE  HasOwner(g)'
  BY DEF NoLeak, HasOwner
<1>2. CASE prot[g] # "free"
  BY <1>1, <1>2, OwnerStays DEF NoLeak, HasOwner
<1>3. CASE prot[g] = "free"
  <2>1. ASSUME NEW r \in Region, Map(t, r) PROVE HasOwner(g)'
    BY <1>0, <1>1, <1>3, <2>1 DEF Map, Goto, Protect, HasOwner, InFlight
  <2>2. ASSUME NEW i \in Idx, Seal(t, i) PROVE FALSE
    BY <1>0, <1>1, <1>3, <2>2, SealKeeps
  <2>3. CASE GiveBack(t) \/ Unmap(t) \/ UNCHANGED prot
    BY <1>1, <1>3, <2>3 DEF GiveBack, Unmap, Protect
  <2>4. QED
    BY <2>1, <2>2, <2>3, Frame
<1>4. QED
  BY <1>2, <1>3

(* Every page that is not free belongs to a region in the table or in      *)
(* flight: no path through coffin_alloc or coffin_dealloc, whatever runs   *)
(* beside it, loses track of a mapping.                                    *)
THEOREM NothingLeaks == Spec => []NoLeak
<1>1. Init => NoLeak
  BY DEF Init, NoLeak
<1>2. IInv /\ NoLeak /\ [Next]_vars => NoLeak'
  <2>1. ASSUME IInv, NoLeak, UNCHANGED vars PROVE NoLeak'
    BY <2>1 DEF vars, NoLeak, Holding, Tracked, Dying, Victim, InFlight
  <2>2. QED
    BY <2>1, NoLeakStep DEF Next
<1>3. QED
  BY <1>1, <1>2, Invariance, PTL DEF Spec

-----------------------------------------------------------------------------
InState(s) == {i \in Idx : state[i] = s}

LEMMA SlotsAreFinite ==
  /\ IsFiniteSet(Idx)
  /\ Cardinality(Idx) = Cap
  /\ \A s : IsFiniteSet(InState(s)) /\ Cardinality(InState(s)) \in Nat
<1>1. IsFiniteSet(Idx) /\ Cardinality(Idx) = Cap
  BY ConstantsAssumption, FS_Interval DEF Idx
<1>2. ASSUME NEW s PROVE IsFiniteSet(InState(s)) /\ Cardinality(InState(s)) \in Nat
  <2>1. InState(s) \in SUBSET Idx
    BY DEF InState
  <2>2. QED
    BY <1>1, <2>1, FS_Subset, FS_CardinalityType
<1>3. QED
  BY <1>1, <1>2

(* Slot i goes from state a to state b: one slot fewer is in a, and one    *)
(* more in b.                                                              *)
LEMMA SlotMoves ==
  ASSUME TypeOK, NEW i \in Idx, NEW a, NEW b, state[i] = a, a # b,
         state' = [state EXCEPT ![i] = b]
  PROVE  /\ Cardinality(InState(a)') = Cardinality(InState(a)) - 1
         /\ Cardinality(InState(b)') = Cardinality(InState(b)) + 1
<1>0. state \in [Idx -> {EMPTY, READY, FREED, TOMB}]
  BY DEF TypeOK
<1>1. InState(a)' = InState(a) \ {i} /\ i \in InState(a)
  BY <1>0 DEF InState
<1>2. InState(b)' = InState(b) \cup {i} /\ i \notin InState(b)
  BY <1>0 DEF InState
<1>4. IsFiniteSet(InState(a)) /\ IsFiniteSet(InState(b))
  BY SlotsAreFinite
<1>5. Cardinality(InState(a) \ {i}) = Cardinality(InState(a)) - 1
  BY <1>1, <1>4, FS_RemoveElement
<1>6. Cardinality(InState(b) \cup {i}) = Cardinality(InState(b)) + 1
  BY <1>2, <1>4, FS_AddElement
<1>7. QED
  BY <1>1, <1>2, <1>5, <1>6

(* ...and those that are in neither of them count as before. *)
LEMMA SlotsStay ==
  ASSUME TypeOK, NEW i \in Idx, NEW s, state[i] # s, NEW b, s # b,
         state' = [state EXCEPT ![i] = b]
  PROVE  Cardinality(InState(s)') = Cardinality(InState(s))
<1>1. InState(s)' = InState(s)
  BY DEF InState, TypeOK
<1>2. QED
  BY <1>1

(* While t is in the critical section, the surplus is its own. *)
LEMMA SurplusIs ==
  ASSUME MutualExclusion, NEW t \in Threads, InCritical(t)
  PROVE  Surplus = IF pc[t] \in {"push", "tomb"} THEN 1 ELSE 0
BY DEF Surplus, MutualExclusion, InCritical, CriticalPC, FreePC

(* Between Acquire and Release the surplus is that of the lock holder; at  *)
(* any other step it stays what it was.                                    *)
LEMMA SurplusStays ==
  ASSUME IInv, NEW t \in Threads, Step(t), pc[t] \in {"push", "tomb"} <=> pc'[t] \in {"push", "tomb"}
  PROVE  Surplus' = Surplus
<1>1. \A u \in Threads : pc[u] \in {"push", "tomb"} <=> pc'[u] \in {"push", "tomb"}
  BY Others DEF IInv
<1>2. (\E u \in Threads : pc'[u] \in {"push", "tomb"}) <=> (\E u \in Threads : pc[u] \in {"push", "tomb"})
  BY <1>1
<1>3. QED
  BY <1>2 DEF Surplus

(* The steps that move a counter are those that move a slot. *)
LEMMA CountersFrame ==
  ASSUME NEW t \in Threads, Step(t)
  PROVE  /\ UNCHANGED live \/ Publish(t) \/ MarkFreed(t)
         /\ UNCHANGED q_len \/ Push(t)
<1> USE DEF ringVars
<1>1. UNCHANGED live \/ Publish(t) \/ MarkFreed(t)
  BY DEF Step, Call, Alloc, Dealloc, Map, BeginFree, Acquire, Fill, Inserted, Full, GiveBack, Fallback,
         Miss, SysFree, DoubleFreed, Seal, Push, Unmap, Entomb, Replace, Pushed
<1>2. UNCHANGED q_len \/ Push(t)
  BY Frame DEF Replace
<1>3. QED
  BY <1>1, <1>2

LEMMA CountStep ==
  ASSUME IInv, CountInv, NEW t \in Threads, Step(t)
  PROVE  CountInv'
<1> DEFINE R == Cardinality(InState(READY))
           F == Cardinality(InState(FREED))
<1>0. /\ TypeOK /\ MutualExclusion /\ MutualExclusion' /\ FillInv /\ SealInv /\ PushInv
      /\ state \in [Idx -> {EMPTY, READY, FREED, TOMB}]
      /\ at \in [Threads -> Idx]
      /\ pc \in [Threads -> PC]
      /\ live \in Int /\ q_len \in Int
  BY MutexStep, ConstantsAssumption DEF IInv, TypeOK
<1>1. live = R /\ q_len + Surplus = F /\ R \in Nat /\ F \in Nat
  BY SlotsAreFinite DEF CountInv, InState
<1>2. SUFFICES live' = R' /\ q_len' + Surplus' = F'
  BY DEF CountInv, InState
<1>s. Surplus \in {0, 1}
  BY DEF Surplus
<1>3. CASE Publish(t)
  <2>1. PICK i \in Idx : i = at[t]
    BY <1>0
  <2>2. pc[t] = "publish" /\ pc'[t] = "inserted" /\ state[i] \notin {READY, FREED}
    BY <1>0, <1>3, <2>1 DEF Publish, Goto, FillInv, Tracked
  <2>3. state' = [state EXCEPT ![i] = READY] /\ live' = live + 1 /\ q_len' = q_len
    BY <1>3, <2>1 DEF Publish, ringVars
  <2>4. R' = R + 1 /\ F' = F
    <3>1. PICK a : a = state[i]
      OBVIOUS
    <3>2. R' = R + 1
      BY <1>0, <2>2, <2>3, <3>1, SlotMoves
    <3>3. F' = F
      BY <1>0, <2>2, <2>3, SlotsStay DEF READY, FREED
    <3>4. QED
      BY <3>2, <3>3
  <2>5. Surplus' = Surplus
    BY <2>2, SurplusStays
  <2>6. QED
    BY <1>0, <1>1, <1>s, <2>3, <2>4, <2>5
<1>4. CASE MarkFreed(t)
  <2>1. PICK i \in Idx : i = at[t]
    BY <1>0
  <2>2. /\ pc[t] = "mark" /\ pc'[t] = "push" /\ state[i] = READY
        /\ InCritical(t) /\ InCritical(t)'
    BY <1>0, <1>4, <2>1 DEF MarkFreed, Goto, SealInv, InCritical, CriticalPC, FreePC
  <2>3. state' = [state EXCEPT ![i] = FREED] /\ live' = live - 1 /\ q_len' = q_len
    BY <1>4, <2>1 DEF MarkFreed, ringVars
  <2>4. R' = R - 1 /\ F' = F + 1
    <3>1. READY # FREED
      BY DEF READY, FREED
    <3>2. QED
      BY <1>0, <2>2, <2>3, <3>1, SlotMoves
  <2>5. Surplus = 0 /\ Surplus' = 1
    BY <1>0, <2>2, SurplusIs DEF Surplus
  <2>6. QED
    BY <1>0, <1>1, <2>3, <2>4, <2>5
<1>5. CASE Entomb(t)
  <2>1. /\ pc[t] = "tomb" /\ pc'[t] = "replace" /\ q_len = QCap
        /\ InCritical(t) /\ InCritical(t)'
    BY <1>0, <1>5 DEF Entomb, Goto, PushInv, InCritical, CriticalPC, FreePC
  <2>2. Victim \in Idx /\ state[Victim] = FREED
    BY <2>1, VictimIsFreed
  <2>3. state' = [state EXCEPT ![Victim] = TOMB] /\ live' = live /\ q_len' = q_len
    BY <1>5 DEF Entomb, ringVars
  <2>4. R' = R /\ F' = F - 1
    <3>1. F' = F - 1
      BY <1>0, <2>2, <2>3, SlotMoves DEF FREED, TOMB
    <3>2. R' = R
      BY <1>0, <2>2, <2>3, SlotsStay DEF READY, FREED, TOMB
    <3>3. QED
      BY <3>1, <3>2
  <2>5. Surplus = 1 /\ Surplus' = 0
    <3>1. Surplus = 1
      BY <1>0, <2>1, SurplusIs
    <3>2. ~ \E u \in Threads : pc'[u] \in {"push", "tomb"}
      BY <1>0, <2>1 DEF MutualExclusion, InCritical, CriticalPC, FreePC
    <3>3. QED
      BY <3>1, <3>2 DEF Surplus
  <2>6. QED
    BY <1>0, <1>1, <2>3, <2>4, <2>5
<1>6. CASE Push(t)
  <2>1. /\ pc[t] = "push" /\ pc'[t] = "pushed"
        /\ InCritical(t) /\ InCritical(t)'
    BY <1>0, <1>6 DEF Push, Goto, InCritical, CriticalPC, FreePC
  <2>2. state' = state /\ live' = live /\ q_len' = q_len + 1
    BY <1>6 DEF Push, table
  <2>3. Surplus = 1 /\ Surplus' = 0
    <3>1. Surplus = 1
      BY <1>0, <2>1, SurplusIs
    <3>2. ~ \E u \in Threads : pc'[u] \in {"push", "tomb"}
      BY <1>0, <2>1 DEF MutualExclusion, InCritical, CriticalPC, FreePC
    <3>3. QED
      BY <3>1, <3>2 DEF Surplus
  <2>4. R' = R /\ F' = F
    BY <2>2 DEF InState
  <2>5. QED
    BY <1>0, <1>1, <2>2, <2>3, <2>4
<1>7. CASE ~Publish(t) /\ ~MarkFreed(t) /\ ~Entomb(t) /\ ~Push(t)
  <2>1. UNCHANGED <<state, live, q_len>>
    BY <1>7, Frame, CountersFrame
  <2>2. pc[t] \in {"push", "tomb"} <=> pc'[t] \in {"push", "tomb"}
    BY <1>0, <1>7, Arrivals, Departures DEF Unmap, Goto
  <2>3. R' = R /\ F' = F /\ Surplus' = Surplus
    BY <2>1, <2>2, SurplusStays DEF InState
  <2>4. QED
    BY <1>1, <2>1, <2>3
<1>8. QED
  BY <1>3, <1>4, <1>5, <1>6, <1>7

LEMMA InitCountInv ==
  ASSUME Init
  PROVE  CountInv
<1>1. {i \in Idx : state[i] = READY} = {} /\ {i \in Idx : state[i] = FREED} = {}
  BY DEF Init, EMPTY, READY, FREED
<1>2. Surplus = 0 /\ live = 0 /\ q_len = 0
  BY DEF Init, Surplus
<1>3. QED
  BY <1>1, <1>2, FS_EmptySet DEF CountInv

(* The number of READY slots and that of FREED ones, at every step. *)
THEOREM CountInvariance == Spec => []CountInv
<1>1. Init => CountInv
  BY InitCountInv
<1>2. IInv /\ CountInv /\ [Next]_vars => CountInv'
  <2>1. ASSUME CountInv, UNCHANGED vars PROVE CountInv'
    BY <2>1 DEF vars, CountInv, Surplus
  <2>2. QED
    BY <2>1, CountStep DEF Next
<1>3. QED
  BY <1>1, <1>2, Invariance, PTL DEF Spec

(* Whenever no writer is at work live_count() is the number of live        *)
(* regions and quarantine_len() that of the regions in quarantine.         *)
THEOREM BooksBalance == Spec => []CountersExact
<1>1. IInv /\ CountInv => CountersExact
  <2>1. SUFFICES ASSUME IInv, CountInv, ~held PROVE CountersExact
    BY DEF CountersExact
  <2>2. Surplus = 0
    BY <2>1 DEF Surplus, IInv, MutualExclusion, InCritical, CriticalPC, FreePC
  <2>3. q_len \in Int
    BY <2>1, ConstantsAssumption DEF IInv, TypeOK
  <2>4. QED
    BY <2>1, <2>2, <2>3 DEF CountInv, CountersExact
<1>2. QED
  BY <1>1, Invariance, CountInvariance, PTL

(* The live and the quarantined regions fit in the table, and fill it when *)
(* there is no other slot.                                                 *)
LEMMA CountsFit ==
  ASSUME IInv, CountInv
  PROVE  /\ live \in Nat
         /\ live + q_len + Surplus <= Cap
         /\ (\A i \in Idx : Tracked(i)) => live + q_len + Surplus = Cap
<1> DEFINE U == InState(READY) \cup InState(FREED)
<1>1. live = Cardinality(InState(READY)) /\ q_len + Surplus = Cardinality(InState(FREED))
  BY DEF CountInv, InState
<1>2. InState(READY) \cap InState(FREED) = {} /\ U \in SUBSET Idx
  BY DEF InState, READY, FREED
<1>3. Cardinality(U) = Cardinality(InState(READY)) + Cardinality(InState(FREED))
  <2>1. Cardinality(U) = Cardinality(InState(READY)) + Cardinality(InState(FREED))
                          - Cardinality(InState(READY) \cap InState(FREED))
    BY SlotsAreFinite, FS_Union
  <2>2. Cardinality(InState(READY) \cap InState(FREED)) = 0
    BY <1>2, FS_EmptySet
  <2>3. Cardinality(InState(READY)) \in Nat /\ Cardinality(InState(FREED)) \in Nat
    BY SlotsAreFinite
  <2>4. QED
    BY <2>1, <2>2, <2>3
<1>4. Cardinality(U) <= Cap
  BY <1>2, SlotsAreFinite, FS_Subset
<1>5. (\A i \in Idx : Tracked(i)) => U = Idx
  BY DEF Tracked, InState
<1>6. q_len \in Int /\ Surplus \in Int
  BY ConstantsAssumption DEF IInv, TypeOK, Surplus
<1>7. live + q_len + Surplus = Cardinality(U)
  BY <1>1, <1>3, <1>6, SlotsAreFinite
<1>8. QED
  BY <1>1, <1>4, <1>5, <1>7, SlotsAreFinite

(* insert only fails when live and quarantined regions fill all the slots: *)
(* no tombstone, and no probe sequence, costs an allocation its fence.     *)
THEOREM OnlyFullFallsBack == Spec => FallbackWhenFull
<1>1. IInv /\ CountInv /\ [Next]_vars => [\A t \in Threads : Full(t) => live + q_len = Cap]_vars
  <2>1. SUFFICES ASSUME IInv, CountInv, NEW t \in Threads, Full(t)
                 PROVE  live + q_len = Cap
    OBVIOUS
  <2>2. Surplus = 0
    BY <2>1, SurplusIs DEF Full, Goto, IInv, InCritical, CriticalPC, InsertPC
  <2>3. live + q_len + 0 = Cap
    BY <2>1, <2>2, CountsFit DEF Full
  <2>4. live \in Int /\ q_len \in Int
    BY <2>1, ConstantsAssumption DEF IInv, TypeOK
  <2>5. QED
    BY <2>3, <2>4
<1>2. QED
  BY <1>1, Invariance, CountInvariance, PTL DEF Spec, FallbackWhenFull
=============================================================================
