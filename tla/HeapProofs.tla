----------------------------- MODULE HeapProofs -----------------------------
(***************************************************************************)
(* What the registry promises the program: a pointer it holds is good, in  *)
(* a program that frees each pointer once; and the registry implements     *)
(* FencedHeap.                                                             *)
(***************************************************************************)
EXTENDS AccountingProofs

(* The steps that change who holds a pointer. *)
LEMMA ClientFrame ==
  ASSUME NEW t \in Threads, Step(t)
  PROVE  \/ UNCHANGED <<sys, owned, stale>>
         \/ Inserted(t) \/ Fallback(t) \/ SysFree(t)
         \/ \E h \in Handle : BeginFree(t, h)
BY DEF Step, Call, Alloc, Dealloc, osVars, client, Map, Acquire, Fill, Publish, Full, GiveBack, Miss, DoubleFreed, Seal,
       MarkFreed, Push, Unmap, Entomb, Replace, Pushed

(* A live region stays live until its slot is marked FREED. *)
LEMMA ReadyStays ==
  ASSUME IInv, NEW t \in Threads, Step(t), NEW i \in Idx, state[i] = READY,
         ~(MarkFreed(t) /\ i = at[t])
  PROVE  state'[i] = READY /\ entry'[i] = entry[i]
<1>0. state \in [Idx -> {EMPTY, READY, FREED, TOMB}] /\ entry \in [Idx -> Region \cup {None}]
  BY DEF IInv, TypeOK
<1>1. CASE Entomb(t)
  <2>1. state[Victim] = FREED
    BY <1>1, VictimIsFreed DEF Entomb, Goto, IInv, PushInv
  <2>2. QED
    BY <1>0, <1>1, <2>1 DEF Entomb, READY, FREED
<1>2. CASE Publish(t) \/ MarkFreed(t) \/ UNCHANGED state
  <2>1. state'[i] = READY
    BY <1>0, <1>2 DEF Publish, MarkFreed
  <2>2. entry'[i] = entry[i]
    BY <1>0, Frame DEF Fill, FirstFree, Tracked
  <2>3. QED
    BY <2>1, <2>2
<1>3. QED
  BY <1>1, <1>2, Frame

(* What an allocation's pointer is. *)
LEMMA AddressOf ==
  /\ \A h \in SysPtr : Address(h) = h
  /\ \A h \in Region : Address(h) = User[h] /\ User[h] \notin SysPtr /\ h \notin SysPtr
BY ConstantsAssumption, GeometryAssumption DEF Address

(* A good allocation stays good until it is disposed of. *)
LEMMA GoodStays ==
  ASSUME IInv, NEW t \in Threads, Step(t), NEW h, Good(h),
         ~(SysFree(t) /\ h = arg[t]),
         ~(MarkFreed(t) /\ h = entry[at[t]])
  PROVE  Good(h)'
<1>1. CASE h \in SysPtr
  <2>1. CASE SysFree(t)
    <3>1. arg[t] \in Region \cup SysPtr
      BY <2>1 DEF SysFree, Goto, IInv, HasPointer, Handle
    <3>2. Address(arg[t]) # h
      BY <1>1, <2>1, <3>1, AddressOf
    <3>3. QED
      BY <1>1, <2>1, <3>2 DEF Good, SysFree
  <2>2. CASE ~SysFree(t)
    BY <1>1, <2>2, ClientFrame DEF Good, Inserted, Fallback, BeginFree, osVars
  <2>3. QED
    BY <2>1, <2>2
<1>2. CASE h \notin SysPtr
  <2>1. PICK i \in Idx : state[i] = READY /\ entry[i] = h
    BY <1>2 DEF Good
  <2>2. state'[i] = READY /\ entry'[i] = entry[i]
    BY <2>1, ReadyStays
  <2>3. QED
    BY <1>2, <2>1, <2>2 DEF Good
<1>3. QED
  BY <1>1, <1>2

(* No good allocation is a region that is not in the table yet. *)
LEMMA GoodIsElsewhere ==
  ASSUME IInv, NEW t \in Threads, InFlight(t), NEW h, Good(h)
  PROVE  h # reg[t]
<1>0. reg[t] \in Region /\ NoOverlap /\ EntriesAreRegions
  BY DEF IInv, HasRegion
<1>1. CASE h \in SysPtr
  BY <1>0, <1>1, AddressOf
<1>2. ASSUME NEW i \in Idx, state[i] = READY, entry[i] = h PROVE h # reg[t]
  <2>1. Holding(i) /\ entry[i] \in Region
    BY <1>0, <1>2, ReadyIsHeld DEF EntriesAreRegions, Tracked
  <2>2. Span[reg[t]] \cap Span[entry[i]] = {}
    BY <1>0, <2>1 DEF NoOverlap, Apart
  <2>3. QED
    BY <1>0, <1>2, <2>1, <2>2, SpanFacts
<1>3. QED
  BY <1>1, <1>2 DEF Good

(* An allocation of the System allocator's on its way to be freed is one   *)
(* it has handed out.                                                      *)
LEMMA FreeingIsKnown ==
  ASSUME IInv, OwnersInv, NEW t \in Threads, Freeing(t), arg[t] \in SysPtr
  PROVE  arg[t] \in sys
<1>1. CASE pc[t] \in {"wantFree", "free"}
  BY <1>1 DEF OwnersInv, Good
<1>2. CASE pc[t] = "miss"
  BY <1>2 DEF OwnersInv
<1>3. CASE pc[t] = "mark"
  <2>1. entry[at[t]] = arg[t] /\ entry[at[t]] \in Region
    BY <1>3 DEF OwnersInv, IInv, SealInv, EntriesAreRegions, Tracked, TypeOK
  <2>2. QED
    BY <2>1, AddressOf
<1>4. QED
  BY <1>1, <1>2, <1>3 DEF Freeing

LEMMA FreeingMoves ==
  ASSUME TypeOK, NEW t \in Threads, Step(t), NEW u \in Threads, Freeing(u)'
  PROVE  \/ Freeing(u) /\ arg'[u] = arg[u]
         \/ u = t /\ \E h \in Handle : BeginFree(t, h) /\ arg'[u] = h
<1>0. arg \in [Threads -> Handle \cup {None}]
  BY DEF TypeOK
<1>1. CASE u # t
  BY <1>1, Others DEF Freeing
<1>2. CASE u = t /\ pc'[t] = "wantFree"
  BY <1>0, <1>2, Arrivals DEF BeginFree
<1>3. CASE u = t /\ pc'[t] = "free"
  BY <1>0, <1>3, Arrivals DEF Acquire, Goto, Freeing, locals, TypeOK
<1>4. CASE u = t /\ pc'[t] = "mark"
  BY <1>4, Arrivals DEF Seal, Goto, Freeing
<1>5. CASE u = t /\ pc'[t] = "miss"
  BY <1>5, Arrivals DEF Miss, Goto, Freeing, locals
<1>6. QED
  BY <1>1, <1>2, <1>3, <1>4, <1>5 DEF Freeing

(* An allocation a thread frees is taken from the program. *)
LEMMA FreedIsTaken ==
  ASSUME OwnersInv, NEW t \in Threads, NEW h, BeginFree(t, h)
  PROVE  h \in owned /\ owned' = owned \ {h}
BY DEF OwnersInv, BeginFree

(* What the program gets, it did not hold, and nobody is freeing. *)
LEMMA OwnedGrows ==
  ASSUME IInv, OwnersInv, NEW t \in Threads, Step(t), NEW h \in owned', h \notin owned
  PROVE  /\ Good(h)'
         /\ \A u \in Threads : Freeing(u) => arg[u] # h
         /\ h \in SysPtr \/ (pc[t] = "inserted" /\ h = reg[t])
<1>1. CASE Inserted(t)
  <2>1. /\ h = reg[t] /\ pc[t] = "inserted"
        /\ state' = state /\ entry' = entry
    BY <1>1 DEF Inserted, Goto, table
  <2>2. state[at[t]] = READY /\ entry[at[t]] = reg[t] /\ \A u \in Threads : Freeing(u) => arg[u] # h
    BY <2>1 DEF OwnersInv
  <2>3. at[t] \in Idx /\ reg[t] \in Region
    BY <2>1 DEF IInv, TypeOK, HasRegion
  <2>4. h \notin SysPtr
    BY <2>1, <2>3, AddressOf
  <2>5. QED
    BY <2>1, <2>2, <2>3, <2>4 DEF Good
<1>2. CASE Fallback(t)
  <2>1. h \in SysPtr /\ h \notin sys /\ h \in sys'
    BY <1>2 DEF Fallback
  <2>2. \A u \in Threads : Freeing(u) => arg[u] # h
    BY <2>1, FreeingIsKnown
  <2>3. QED
    BY <2>1, <2>2 DEF Good
<1>3. CASE SysFree(t) \/ (\E q \in Handle : BeginFree(t, q)) \/ UNCHANGED owned
  BY <1>3 DEF SysFree, BeginFree, client
<1>4. QED
  BY <1>1, <1>2, <1>3, ClientFrame

(* The slot a thread seals is that of the allocation it frees: no other    *)
(* region in the table has its pointer.                                    *)
LEMMA SealsItsOwn ==
  ASSUME IInv, OwnersInv, NEW t \in Threads, NEW i \in Idx, Seal(t, i)
  PROVE  entry[i] = arg[t]
<1>0. NoOverlap /\ EntriesAreRegions
  BY DEF IInv
<1>1. /\ Good(arg[t]) /\ User[entry[i]] = Address(arg[t])
      /\ Tracked(i) /\ entry[i] \in Region
  BY <1>0 DEF Seal, Goto, OwnersInv, Found, EntriesAreRegions
<1>2. CASE arg[t] \in SysPtr
  BY <1>1, <1>2, AddressOf
<1>3. ASSUME NEW j \in Idx, state[j] = READY, entry[j] = arg[t] PROVE entry[i] = arg[t]
  <2>1. Tracked(j) /\ entry[j] \in Region
    BY <1>0, <1>3 DEF Tracked, EntriesAreRegions
  <2>2. User[entry[i]] = User[entry[j]]
    BY <1>1, <1>3, <2>1, AddressOf
  <2>3. i = j
    BY <1>0, <1>1, <2>1, <2>2, GeometryAssumption DEF NoOverlap, Apart
  <2>4. QED
    BY <1>3, <2>3
<1>4. QED
  BY <1>1, <1>2, <1>3 DEF Good

LEMMA OwnersStep ==
  ASSUME ~DoubleFree, IInv, OwnersInv, NEW t \in Threads, Step(t)
  PROVE  OwnersInv'
<1>0. /\ TypeOK /\ MutualExclusion /\ FillInv
      /\ state \in [Idx -> {EMPTY, READY, FREED, TOMB}]
      /\ at \in [Threads -> Idx]
      /\ sys \subseteq SysPtr
  BY DEF IInv, TypeOK
(* The allocation the step disposes of. *)
<1>a. SysFree(t) => Freeing(t)
  BY DEF SysFree, Goto, Freeing
<1>b. MarkFreed(t) => Freeing(t) /\ entry[at[t]] = arg[t]
  BY DEF MarkFreed, Goto, Freeing, OwnersInv
<1>1. stale' = {}
  BY ClientFrame DEF OwnersInv, Inserted, Fallback, SysFree, BeginFree, client
<1>2. ASSUME NEW p \in owned' PROVE Good(p)'
  <2>1. CASE p \notin owned
    BY <2>1, OwnedGrows
  <2>2. CASE p \in owned
    <3>1. Good(p) /\ (Freeing(t) => arg[t] # p)
      BY <2>2 DEF OwnersInv
    <3>2. QED
      BY <3>1, <1>a, <1>b, GoodStays
  <2>3. QED
    BY <2>1, <2>2
<1>3. ASSUME NEW u \in Threads, Freeing(u)' PROVE arg'[u] \notin owned'
  <2>1. CASE Freeing(u) /\ arg'[u] = arg[u]
    <3>1. arg[u] \notin owned
      BY <2>1 DEF OwnersInv
    <3>2. QED
      BY <2>1, <3>1, OwnedGrows
  <2>2. ASSUME NEW p \in Handle, BeginFree(t, p), arg'[u] = p PROVE arg'[u] \notin owned'
    BY <2>2, FreedIsTaken
  <2>3. QED
    BY <1>0, <1>3, <2>1, <2>2, FreeingMoves
<1>4. ASSUME NEW u \in Threads, NEW v \in Threads, u # v, Freeing(u)', Freeing(v)'
      PROVE  arg'[u] # arg'[v]
  <2>1. ASSUME NEW w \in Threads, w # t, Freeing(w)', NEW p \in Handle, BeginFree(t, p) PROVE arg'[w] # p
    <3>1. Freeing(w) /\ arg'[w] = arg[w]
      BY <1>0, <2>1, FreeingMoves
    <3>2. arg[w] \notin owned /\ p \in owned
      BY <2>1, <3>1, FreedIsTaken DEF OwnersInv
    <3>3. QED
      BY <3>1, <3>2
  <2>2. CASE Freeing(u) /\ arg'[u] = arg[u] /\ Freeing(v) /\ arg'[v] = arg[v]
    BY <1>4, <2>2 DEF OwnersInv
  <2>3. QED
    BY <1>0, <1>4, <2>1, <2>2, FreeingMoves
<1>5. ASSUME NEW u \in Threads, pc'[u] \in {"wantFree", "free"} PROVE Good(arg[u])'
  <2>0. Freeing(u)'
    BY <1>5 DEF Freeing
  <2>1. ASSUME NEW p \in Handle, BeginFree(t, p), arg'[u] = p PROVE Good(arg[u])'
    <3>1. Good(p) /\ ~SysFree(t) /\ ~MarkFreed(t)
      BY <2>1, FreedIsTaken DEF OwnersInv, BeginFree, SysFree, MarkFreed, Goto
    <3>2. Good(p)'
      BY <3>1, GoodStays
    <3>3. QED
      BY <2>1, <3>2 DEF Good
  <2>2. CASE Freeing(u) /\ arg'[u] = arg[u]
    <3>1. pc[u] \in {"wantFree", "free"}
      <4>1. CASE u # t
        BY <1>0, <1>5, <4>1, Others
      <4>2. CASE u = t /\ pc'[t] = "free"
        BY <1>0, <2>2, <4>2, Arrivals DEF Acquire, Goto, Freeing
      <4>3. CASE u = t /\ pc'[t] = "wantFree"
        BY <1>0, <2>2, <4>3, Arrivals DEF BeginFree, Goto, Freeing
      <4>4. QED
        BY <1>5, <4>1, <4>2, <4>3
    <3>2. Good(arg[u])
      BY <3>1 DEF OwnersInv
    <3>3. (~SysFree(t) /\ ~MarkFreed(t)) \/ u # t
      BY <3>1 DEF SysFree, MarkFreed, Goto
    <3>4. Freeing(t) /\ u # t => arg[u] # arg[t]
      BY <2>2 DEF OwnersInv
    <3>5. PICK p : p = arg[u]
      OBVIOUS
    <3>6. Good(p)'
      BY <3>2, <3>3, <3>4, <3>5, <1>a, <1>b, GoodStays
    <3>7. QED
      BY <2>2, <3>5, <3>6 DEF Good
  <2>3. QED
    BY <1>0, <2>0, <2>1, <2>2, FreeingMoves
<1>6. ASSUME NEW u \in Threads, pc'[u] = "miss" PROVE arg'[u] \in sys'
  <2>1. CASE u # t
    <3>1. pc[u] = "miss" /\ arg'[u] = arg[u] /\ arg[u] \in sys /\ Freeing(u)
      BY <1>0, <1>6, <2>1, Others DEF OwnersInv, Freeing
    <3>2. Freeing(t) => arg[u] # arg[t]
      BY <2>1, <3>1 DEF OwnersInv
    <3>3. PICK h : h = arg[u]
      OBVIOUS
    <3>4. h \in SysPtr /\ Good(h)
      BY <1>0, <3>1, <3>3 DEF Good
    <3>5. MarkFreed(t) => h # entry[at[t]]
      BY <1>b, <3>2, <3>3
    <3>6. Good(h)'
      BY <1>a, <3>2, <3>3, <3>4, <3>5, GoodStays
    <3>7. QED
      BY <3>1, <3>3, <3>4, <3>6 DEF Good
  <2>2. CASE u = t
    <3>1. Miss(t)
      BY <1>0, <1>6, <2>2, Arrivals
    <3>2. Good(arg[t]) /\ NotFound(Address(arg[t]))
      BY <3>1 DEF Miss, Goto, OwnersInv
    <3>3. arg[t] \in SysPtr
      <4>1. ASSUME NEW j \in Idx, state[j] = READY, entry[j] = arg[t] PROVE FALSE
        <5>1. entry[j] \in Region /\ Found(User[entry[j]], j)
          BY <4>1, LookupFromIInv DEF LookupFinds, Tracked, IInv, EntriesAreRegions
        <5>2. QED
          BY <3>2, <4>1, <5>1, AddressOf DEF NotFound
      <4>2. QED
        BY <3>2, <4>1 DEF Good
    <3>4. QED
      BY <2>2, <3>1, <3>2, <3>3 DEF Good, Miss, osVars, locals
  <2>3. QED
    BY <2>1, <2>2
<1>7. ASSUME NEW u \in Threads, pc'[u] = "mark" PROVE entry'[at'[u]] = arg'[u]
  <2>1. CASE u # t
    <3>1. pc[u] = "mark" /\ arg'[u] = arg[u] /\ at'[u] = at[u]
      BY <1>0, <1>7, <2>1, Others
    <3>2. entry' = entry
      BY <1>0, <2>1, <3>1, Foreign DEF InCritical, CriticalPC, FreePC
    <3>3. QED
      BY <3>1, <3>2 DEF OwnersInv
  <2>2. CASE u = t
    <3>1. PICK i \in Idx : Seal(t, i)
      BY <1>0, <1>7, <2>2, Arrivals
    <3>2. entry[i] = arg[t]
      BY <3>1, SealsItsOwn
    <3>3. QED
      BY <1>0, <2>2, <3>1, <3>2 DEF Seal, table
  <2>3. QED
    BY <2>1, <2>2
<1>8. ASSUME NEW u \in Threads, pc'[u] = "inserted"
      PROVE  /\ state'[at'[u]] = READY
             /\ entry'[at'[u]] = reg'[u]
             /\ reg'[u] \notin owned'
             /\ \A v \in Threads : Freeing(v)' => arg'[v] # reg'[u]
  <2>1. CASE u # t
    <3>1. pc[u] = "inserted" /\ reg'[u] = reg[u] /\ at'[u] = at[u] /\ reg[u] \in Region
      BY <1>0, <1>8, <2>1, Others DEF IInv, HasRegion
    <3>2. state' = state /\ entry' = entry
      BY <1>0, <2>1, <3>1, Foreign DEF InCritical, CriticalPC, InsertPC
    <3>3. /\ state[at[u]] = READY
          /\ entry[at[u]] = reg[u]
          /\ reg[u] \notin owned
          /\ \A v \in Threads : Freeing(v) => arg[v] # reg[u]
      BY <3>1 DEF OwnersInv
    <3>4. reg[u] \notin SysPtr
      BY <3>1, AddressOf
    <3>5. pc[t] # "inserted"
      BY <1>0, <2>1, <3>1 DEF MutualExclusion, InCritical, CriticalPC, InsertPC
    <3>6. reg[u] \notin owned'
      BY <3>3, <3>4, <3>5, OwnedGrows
    <3>7. \A v \in Threads : Freeing(v)' => arg'[v] # reg[u]
      BY <1>0, <3>3, FreeingMoves, FreedIsTaken
    <3>8. QED
      BY <3>1, <3>2, <3>3, <3>6, <3>7
  <2>2. CASE u = t
    <3>1. Publish(t)
      BY <1>0, <1>8, <2>2, Arrivals
    <3>2. /\ pc[t] = "publish" /\ InFlight(t) /\ reg' = reg /\ arg' = arg /\ at' = at /\ entry' = entry
          /\ owned' = owned /\ InCritical(t)
      BY <3>1 DEF Publish, Goto, InFlight, locals, client, InCritical, CriticalPC, InsertPC
    <3>3. state'[at[t]] = READY /\ entry[at[t]] = reg[t] /\ reg[t] \in Region
      BY <1>0, <3>1, <3>2 DEF Publish, FillInv, IInv, HasRegion
    <3>4. reg[t] \notin owned
      BY <3>2, GoodIsElsewhere DEF OwnersInv
    <3>5. ASSUME NEW v \in Threads, Freeing(v)' PROVE arg[v] # reg[t]
      <4>1. Freeing(v)
        BY <1>0, <3>2, <3>5, FreeingMoves DEF BeginFree, Goto
      <4>2. CASE pc[v] \in {"wantFree", "free"}
        BY <3>2, <4>2, GoodIsElsewhere DEF OwnersInv
      <4>3. CASE pc[v] = "miss"
        BY <1>0, <3>3, <4>3, AddressOf DEF OwnersInv
      <4>4. CASE pc[v] = "mark"
        BY <1>0, <3>2, <4>4 DEF MutualExclusion, InCritical, CriticalPC, InsertPC, FreePC
      <4>5. QED
        BY <4>1, <4>2, <4>3, <4>4 DEF Freeing
    <3>6. QED
      BY <2>2, <3>2, <3>3, <3>4, <3>5
  <2>3. QED
    BY <2>1, <2>2
<1>9. QED
  BY <1>1, <1>2, <1>3, <1>4, <1>5, <1>6, <1>7, <1>8 DEF OwnersInv

-----------------------------------------------------------------------------
(* The protection of the pages, in a program that frees each pointer once. *)

(* The thread that seals the slot of the allocation it frees seals the     *)
(* region in it, the whole of it and nothing else.                         *)
LEMMA SealsWhole ==
  ASSUME IInv, OwnersInv, NEW t \in Threads, NEW i \in Idx, Seal(t, i)
  PROVE  Protect(Span[entry[i]], "sealed")
<1>0. /\ pc[t] = "free" /\ Tracked(i) /\ ProtectNone(Extent(i, arg[t]))
      /\ MutualExclusion /\ EntriesAreRegions
  BY DEF Seal, Goto, Found, IInv
<1>1. entry[i] = arg[t] /\ entry[i] \in Region
  BY <1>0, SealsItsOwn DEF EntriesAreRegions
<1>2. Extent(i, arg[t]) = Span[entry[i]] /\ Span[entry[i]] \subseteq Page
  BY <1>1, SpanFacts DEF Extent
<1>3. Holding(i)
  BY <1>0 DEF Holding, Dying, MutualExclusion, InCritical, CriticalPC, FreePC
<1>4. Reached(Span[entry[i]]) = Span[entry[i]]
  BY <1>2, <1>3, HeldPages, ReachedAll
<1>5. QED
  BY <1>0, <1>2, <1>4 DEF ProtectNone

LEMMA MappedStep ==
  ASSUME IInv, OwnersInv, InFlightIsMapped, NEW t \in Threads, Step(t)
  PROVE  InFlightIsMapped'
<1>0. TypeOK /\ NoOverlap /\ MutualExclusion /\ EntriesAreRegions /\ PushInv /\ HasRegion
  BY DEF IInv
<1>a. prot \in [Page -> {"free", "mapped", "sealed"}] /\ Span \in [Region -> SUBSET Page]
  BY SpanFacts DEF IInv, TypeOK
<1>b. ASSUME NEW u \in Threads, pc[u] \in CriticalPC, pc[u] # "tomb"
      PROVE  \A i \in Idx : ~Dying(i)
  BY <1>0, <1>b DEF Dying, MutualExclusion, InCritical, CriticalPC, FreePC
<1>1. SUFFICES ASSUME NEW u \in Threads, InFlight(u)', NEW g \in (Span[reg[u]])'
               PROVE  prot'[g] = "mapped"
  BY DEF InFlightIsMapped
<1>2. CASE u = t /\ \E r \in Region : Map(t, r) /\ reg'[u] = r
  BY <1>1, <1>2, <1>a DEF Map, Protect
<1>3. CASE InFlight(u) /\ reg'[u] = reg[u]
  <2>0. prot[g] = "mapped" /\ g \in Page /\ g \in Span[reg[u]]
    BY <1>0, <1>1, <1>3, <1>a DEF InFlightIsMapped, HasRegion
  <2>1. CASE UNCHANGED prot
    BY <2>0, <2>1
  <2>2. ASSUME NEW r \in Region, Map(t, r) PROVE prot'[g] = "mapped"
    BY <2>0, <2>2 DEF Map, Protect
  <2>3. CASE GiveBack(t)
    <3>1. u # t
      BY <1>0, <1>1, <2>3 DEF GiveBack, Goto, InFlight, TypeOK
    <3>2. Apart(reg[t], reg[u])
      BY <1>0, <1>3, <2>3, <3>1 DEF NoOverlap, GiveBack, Goto, InFlight
    <3>3. QED
      BY <2>0, <2>3, <3>2 DEF GiveBack, Protect, Apart
  <2>4. ASSUME NEW i \in Idx, Seal(t, i) PROVE prot'[g] = "mapped"
    <3>1. Holding(i)
      BY <1>b, <2>4 DEF Seal, Goto, Found, Holding, CriticalPC, FreePC
    <3>2. Apart(reg[u], entry[i])
      BY <1>0, <1>3, <3>1 DEF NoOverlap
    <3>3. QED
      BY <2>0, <2>4, <3>2, SealsWhole DEF Protect, Apart
  <2>5. CASE Unmap(t)
    <3>1. Victim \in Idx /\ Holding(Victim)
      BY <2>5, VictimIsHeld
    <3>2. Apart(reg[u], entry[Victim])
      BY <1>0, <1>3, <3>1 DEF NoOverlap
    <3>3. QED
      BY <2>0, <2>5, <3>2 DEF Unmap, Protect, Apart
  <2>6. QED
    BY <2>1, <2>2, <2>3, <2>4, <2>5, Frame
<1>4. QED
  BY <1>0, <1>1, <1>2, <1>3, InFlightMoves

LEMMA SealedStep ==
  ASSUME IInv, OwnersInv, SealedIsSealed, NEW t \in Threads, Step(t)
  PROVE  SealedIsSealed'
<1>0. TypeOK /\ MutualExclusion /\ NoOverlap /\ SealInv /\ HasRegion /\ EntriesAreRegions
  BY DEF IInv
<1>1. at \in [Threads -> Idx] /\ Span \in [Region -> SUBSET Page]
  BY SpanFacts DEF IInv, TypeOK
<1>2. ASSUME NEW u \in Threads, u # t, pc'[u] = "mark"
      PROVE  \A g \in Span[entry'[at'[u]]] : prot'[g] = "sealed"
  <2>1. pc[u] = "mark" /\ at'[u] = at[u]
    BY <1>0, <1>2, Others
  <2>2. UNCHANGED <<state, entry>>
    BY <1>0, <1>2, <2>1, Foreign DEF InCritical, CriticalPC, FreePC
  <2>3. /\ state[at[u]] = READY
        /\ \A g \in Span[entry[at[u]]] : prot[g] = "sealed" /\ g \in Page
    BY <1>0, <1>1, <2>1 DEF SealInv, SealedIsSealed, Sealing, EntriesAreRegions, Tracked
  <2>4. ~InCritical(t)
    BY <1>0, <1>2, <2>1 DEF MutualExclusion, InCritical, CriticalPC, FreePC
  <2>5. ASSUME NEW r \in Region, Map(t, r), NEW g \in Span[entry[at[u]]] PROVE prot'[g] = "sealed"
    BY <2>3, <2>5 DEF Map, Protect
  <2>6. ASSUME GiveBack(t), NEW g \in Span[entry[at[u]]] PROVE prot'[g] = "sealed"
    <3>1. Holding(at[u])
      BY <1>0, <2>1, <2>3 DEF Holding, Tracked, Dying, MutualExclusion, InCritical, CriticalPC, FreePC
    <3>2. Apart(reg[t], entry[at[u]])
      BY <1>0, <1>1, <2>6, <3>1 DEF NoOverlap, GiveBack, Goto, InFlight
    <3>3. QED
      BY <2>3, <2>6, <3>2 DEF GiveBack, Protect, Apart
  <2>7. ~Unmap(t) /\ \A i \in Idx : ~Seal(t, i)
    BY <2>4 DEF Unmap, Seal, Goto, InCritical, CriticalPC, FreePC
  <2>8. \A g \in Span[entry[at[u]]] : prot'[g] = "sealed"
    BY <2>3, <2>5, <2>6, <2>7, Frame
  <2>9. QED
    BY <2>1, <2>2, <2>3, <2>8
<1>3. ASSUME pc'[t] = "mark"
      PROVE  \A g \in Span[entry'[at'[t]]] : prot'[g] = "sealed"
  <2>1. PICK i \in Idx : Seal(t, i)
    BY <1>0, <1>3, Arrivals
  <2>2. at'[t] = i /\ UNCHANGED <<state, entry>> /\ state[i] = READY
    BY <1>1, <2>1 DEF Seal, table
  <2>3. \A g \in Span[entry[i]] : g \in Page
    BY <1>0, <1>1, <2>2 DEF EntriesAreRegions, Tracked
  <2>4. QED
    BY <2>1, <2>2, <2>3, SealsWhole DEF Protect
<1>4. QED
  BY <1>2, <1>3 DEF SealedIsSealed, Sealing

(* A step that frees or seals pages of a slot it was not meant for would   *)
(* have found two slots that overlap.                                      *)
LEMMA ReadyStep ==
  ASSUME IInv, OwnersInv, InFlightIsMapped, ReadyIsMapped, NEW t \in Threads, Step(t)
  PROVE  ReadyIsMapped'
<1>0. TypeOK /\ NoOverlap /\ EntriesAreRegions /\ HasRegion
  BY DEF IInv
<1>a. /\ Span \in [Region -> SUBSET Page]
      /\ state \in [Idx -> {EMPTY, READY, FREED, TOMB}]
      /\ at \in [Threads -> Idx]
      /\ pc \in [Threads -> PC]
  BY SpanFacts DEF IInv, TypeOK
<1>1. SUFFICES ASSUME NEW i \in Idx, state'[i] = READY, ~Sealing(i)', NEW g \in (Span[entry[i]])'
               PROVE  prot'[g] = "mapped"
  BY DEF ReadyIsMapped
<1>2. CASE Publish(t) /\ i = at[t] /\ entry'[i] = reg[t] /\ reg[t] \in Region
  BY <1>0, <1>1, <1>2 DEF Publish, Goto, InFlight, InFlightIsMapped, osVars
<1>3. CASE Tracked(i) /\ entry'[i] = entry[i]
  <2>0. ~(Publish(t) /\ i = at[t])
    BY <1>3 DEF IInv, FillInv, Publish, Goto
  <2>1. state[i] = READY
    BY <1>1, <1>a, <2>0, Frame DEF Publish, MarkFreed, Entomb, READY, FREED, TOMB
  <2>2. ~Sealing(i)
    <3>1. SUFFICES ASSUME NEW u \in Threads, pc[u] = "mark", at[u] = i PROVE FALSE
      BY DEF Sealing
    <3>2. CASE u = t
      BY <1>1, <1>a, <3>1, <3>2, Departures DEF MarkFreed, READY, FREED
    <3>3. CASE u # t
      BY <1>0, <1>1, <3>1, <3>3, Others DEF Sealing
    <3>4. QED
      BY <3>2, <3>3
  <2>3. prot[g] = "mapped" /\ g \in Page /\ g \in Span[entry[i]]
    BY <1>0, <1>1, <1>3, <1>a, <2>1, <2>2 DEF ReadyIsMapped, EntriesAreRegions
  <2>4. Holding(i)
    BY <2>1, ReadyIsHeld
  <2>5. ASSUME NEW r \in Region, Map(t, r) PROVE prot'[g] = "mapped"
    BY <2>3, <2>5 DEF Map, Protect
  <2>6. CASE GiveBack(t)
    <3>1. Apart(reg[t], entry[i])
      BY <1>0, <2>4, <2>6 DEF NoOverlap, GiveBack, Goto, InFlight
    <3>2. QED
      BY <2>3, <2>6, <3>1 DEF GiveBack, Protect, Apart
  <2>7. ASSUME NEW j \in Idx, Seal(t, j) PROVE prot'[g] = "mapped"
    <3>1. j # i
      BY <1>1, <1>a, <2>7 DEF Seal, Goto, Sealing
    <3>2. Apart(entry[j], entry[i])
      BY <1>0, <1>3, <2>7, <3>1 DEF NoOverlap, Seal, Found
    <3>3. QED
      BY <2>3, <2>7, <3>2, SealsWhole DEF Protect, Apart
  <2>8. CASE Unmap(t)
    <3>1. Victim \in Idx /\ state[Victim] = FREED
      BY <2>8, VictimIsHeld
    <3>2. Apart(entry[Victim], entry[i])
      BY <1>0, <1>3, <2>1, <3>1 DEF NoOverlap, Tracked, READY, FREED
    <3>3. QED
      BY <2>3, <2>8, <3>2 DEF Unmap, Protect, Apart
  <2>9. QED
    BY <2>3, <2>5, <2>6, <2>7, <2>8, Frame
<1>4. QED
  BY <1>1, <1>2, <1>3, TrackedMoves DEF Tracked

LEMMA FreedStep ==
  ASSUME IInv, OwnersInv, SealedIsSealed, FreedIsSealed, NEW t \in Threads, Step(t)
  PROVE  FreedIsSealed'
<1>0. TypeOK /\ NoOverlap /\ EntriesAreRegions /\ SealInv /\ HasRegion
  BY DEF IInv
<1>a. /\ Span \in [Region -> SUBSET Page]
      /\ state \in [Idx -> {EMPTY, READY, FREED, TOMB}]
      /\ at \in [Threads -> Idx]
      /\ pc \in [Threads -> PC]
  BY SpanFacts DEF IInv, TypeOK
<1>1. SUFFICES ASSUME NEW i \in Idx, state'[i] = FREED, ~Dying(i)', NEW g \in (Span[entry[i]])'
               PROVE  prot'[g] = "sealed"
  BY DEF FreedIsSealed
<1>2. CASE MarkFreed(t) /\ i = at[t]
  BY <1>0, <1>1, <1>2 DEF MarkFreed, Goto, SealedIsSealed, Sealing, osVars
<1>3. CASE ~(MarkFreed(t) /\ i = at[t])
  <2>1. state[i] = FREED
    BY <1>1, <1>3, <1>a, Frame DEF Publish, MarkFreed, Entomb, READY, FREED, TOMB
  <2>2. Holding(i) /\ entry'[i] = entry[i]
    <3>1. Holding(i)'
      BY <1>1 DEF Holding, Tracked
    <3>2. ~(Publish(t) /\ i = at[t])
      BY <1>1, <1>a DEF Publish, READY, FREED
    <3>3. QED
      BY <3>1, <3>2, HoldingMoves
  <2>3. prot[g] = "sealed" /\ g \in Page /\ g \in Span[entry[i]]
    BY <1>0, <1>1, <1>a, <2>1, <2>2 DEF FreedIsSealed, EntriesAreRegions, Holding
  <2>5. ASSUME NEW r \in Region, Map(t, r) PROVE prot'[g] = "sealed"
    BY <2>3, <2>5 DEF Map, Protect
  <2>6. CASE GiveBack(t)
    <3>1. Apart(reg[t], entry[i])
      BY <1>0, <2>2, <2>6 DEF NoOverlap, GiveBack, Goto, InFlight
    <3>2. QED
      BY <2>3, <2>6, <3>1 DEF GiveBack, Protect, Apart
  <2>7. ASSUME NEW j \in Idx, Seal(t, j) PROVE prot'[g] = "sealed"
    BY <2>3, <2>7, SealsWhole DEF Protect
  <2>8. CASE Unmap(t)
    <3>1. Victim \in Idx /\ state[Victim] = FREED
      BY <2>8, VictimIsHeld
    <3>2. Victim # i
      BY <1>1, <1>a, <2>8 DEF Unmap, Goto, Dying, Victim, ringVars
    <3>3. Apart(entry[Victim], entry[i])
      BY <1>0, <2>1, <3>1, <3>2 DEF NoOverlap, Tracked
    <3>4. QED
      BY <2>3, <2>8, <3>3 DEF Unmap, Protect, Apart
  <2>9. QED
    BY <2>3, <2>5, <2>6, <2>7, <2>8, Frame
<1>4. QED
  BY <1>2, <1>3

LEMMA ProtStep ==
  ASSUME IInv, OwnersInv, ProtInv, NEW t \in Threads, Step(t)
  PROVE  ProtInv'
BY MappedStep, SealedStep, ReadyStep, FreedStep DEF ProtInv

LEMMA ClientInvariance == Spec => []ClientInv
<1>1. Init => ClientInv
  <2>1. Init => OwnersInv
    BY DEF Init, OwnersInv, Freeing
  <2>2. Init => ProtInv
    BY DEF Init, ProtInv, InFlightIsMapped, ReadyIsMapped, SealedIsSealed, FreedIsSealed, InFlight, Sealing,
           EMPTY, READY, FREED
  <2>3. QED
    BY <2>1, <2>2 DEF ClientInv
<1>2. IInv /\ ClientInv /\ [Next]_vars => ClientInv'
  <2>1. ASSUME ClientInv, UNCHANGED vars PROVE ClientInv'
    <3>1. OwnersInv => OwnersInv'
      BY <2>1 DEF vars, OwnersInv, Freeing, Good
    <3>2. ProtInv => ProtInv'
      BY <2>1 DEF vars, ProtInv, InFlightIsMapped, ReadyIsMapped, SealedIsSealed, FreedIsSealed, InFlight,
                  Sealing, Dying, Victim
    <3>3. QED
      BY <2>1, <3>1, <3>2 DEF ClientInv
  <2>2. QED
    BY <2>1, OwnersStep, ProtStep DEF Next, ClientInv
<1>3. QED
  BY <1>1, <1>2, Invariance, PTL DEF Spec

(* The whole of what is known of the registry at every step.               *)
THEOREM RegistryInvariance == Spec => []RegistryInv
<1>1. IInv /\ NoLeak /\ CountInv /\ ClientInv => RegistryInv
  BY DEF RegistryInv
<1>2. QED
  BY <1>1, Invariance, NothingLeaks, CountInvariance, ClientInvariance, PTL

(* In a program that frees each pointer once, a pointer it holds is the    *)
(* System allocator's, or belongs to a live, accessible region that        *)
(* coffin_dealloc will find.                                               *)
THEOREM HeldPointersAreGood ==
  ASSUME ~DoubleFree
  PROVE  Spec => []OwnedIsLive
<1>1. RegistryInv => OwnedIsLive
  <2>1. SUFFICES ASSUME IInv, OwnersInv, ProtInv, NEW h \in owned, h \notin SysPtr
                 PROVE  \E i \in Idx : /\ Found(Address(h), i)
                                       /\ entry[i] = h
                                       /\ state[i] = READY
                                       /\ \A g \in Span[h] : prot[g] = "mapped"
    BY DEF RegistryInv, ClientInv, OwnersInv, OwnedIsLive, Good
  <2>2. PICK i \in Idx : state[i] = READY /\ entry[i] = h
    BY <2>1 DEF OwnersInv, Good
  <2>3. Found(Address(h), i)
    BY <2>1, <2>2, LookupFromIInv DEF LookupFinds, Tracked, Address
  <2>4. ~Sealing(i)
    BY <2>1, <2>2 DEF Sealing, OwnersInv, Freeing
  <2>5. QED
    BY <2>1, <2>2, <2>3, <2>4 DEF ProtInv, ReadyIsMapped
<1>2. QED
  BY <1>1, RegistryInvariance, PTL

(* In such a program a live region is accessible, except between its       *)
(* protect_none and the store of FREED: no free, whatever runs beside it,  *)
(* seals or unmaps a page of another region.                               *)
THEOREM LiveIsAccessible ==
  ASSUME ~DoubleFree
  PROVE  Spec => []ReadyIsMapped
<1>1. RegistryInv => ReadyIsMapped
  BY DEF RegistryInv, ClientInv, ProtInv
<1>2. QED
  BY <1>1, RegistryInvariance, PTL

(* In such a program every access to a freed region faults until the       *)
(* region is unmapped.                                                     *)
THEOREM QuarantineIsSealed ==
  ASSUME ~DoubleFree
  PROVE  Spec => []FreedIsSealed
<1>1. RegistryInv => FreedIsSealed
  BY DEF RegistryInv, ClientInv, ProtInv
<1>2. QED
  BY <1>1, RegistryInvariance, PTL

(* In such a program, whatever reaches System.dealloc came from            *)
(* System.alloc, and nothing of Coffin's ever does.                        *)
THEOREM ForwardedIsSystems ==
  ASSUME ~DoubleFree
  PROVE  Spec => []SystemFreesItsOwn
<1>1. RegistryInv => SystemFreesItsOwn
  BY AddressOf DEF RegistryInv, ClientInv, OwnersInv, SystemFreesItsOwn, IInv, TypeOK
<1>2. QED
  BY <1>1, RegistryInvariance, PTL
-----------------------------------------------------------------------------
(* The refinement of FencedHeap. *)

(* Two sequences of the same length with the same elements are equal. *)
LEMMA SameSequence ==
  ASSUME NEW S, NEW s \in Seq(S), NEW r \in Seq(S), Len(s) = Len(r),
         \A k \in 1..Len(s) : s[k] = r[k]
  PROVE  s = r
OBVIOUS

LEMMA TailOfAppend ==
  ASSUME NEW S, NEW s \in Seq(S), NEW e \in S, Len(s) > 0
  PROVE  Tail(Append(s, e)) = Append(Tail(s), e)
<1>1. Tail(s) \in Seq(S) /\ Append(s, e) \in Seq(S)
  OBVIOUS
<1>2. Tail(Append(s, e)) \in Seq(S) /\ Append(Tail(s), e) \in Seq(S)
  BY <1>1
<1>3. Len(Tail(Append(s, e))) = Len(s) /\ Len(Append(Tail(s), e)) = Len(s)
  BY <1>1
<1>4. ASSUME NEW k \in 1..Len(s) PROVE Tail(Append(s, e))[k] = Append(Tail(s), e)[k]
  BY <1>1, <1>4
<1> DEFINE l == Tail(Append(s, e))
           r == Append(Tail(s), e)
<1>5. l \in Seq(S) /\ r \in Seq(S) /\ Len(l) = Len(r) /\ \A k \in 1..Len(l) : l[k] = r[k]
  BY <1>2, <1>3, <1>4
<1> HIDE DEF l, r
<1>6. l = r
  BY <1>5, SameSequence
<1>7. QED
  BY <1>6 DEF l, r

MaybeRegions == Region \cup {None}

(* The position in the ring of the k-th oldest region. *)
LEMMA Position ==
  ASSUME TypeOK, NEW k \in 1..QCap
  PROVE  LET j == (q_tail + k - 1) % QCap
         IN  /\ j \in RingPos
             /\ RingDist(j) = k - 1
             /\ j = IF q_tail + (k - 1) < QCap THEN q_tail + (k - 1) ELSE q_tail + (k - 1) - QCap
<1> DEFINE j == (q_tail + k - 1) % QCap
<1>1. QCap \in Nat \ {0} /\ q_tail \in 0..(QCap - 1) /\ k \in 1..QCap
  BY ConstantsAssumption DEF TypeOK, RingPos
<1>2. PICK b \in 0..(QCap - 1) : b = k - 1
  BY <1>1
<1>3. (q_tail + b) % QCap = IF q_tail + b < QCap THEN q_tail + b ELSE q_tail + b - QCap
  BY <1>1, <1>2, ModSum
<1>4. q_tail + k - 1 = q_tail + b
  BY <1>1, <1>2
<1>5. j = IF q_tail + b < QCap THEN q_tail + b ELSE q_tail + b - QCap
  BY <1>3, <1>4
<1> HIDE DEF j
<1>6. j \in 0..(QCap - 1) /\ RingDist(j) = b
  BY <1>1, <1>2, <1>5 DEF RingDist
<1>7. QED
  BY <1>2, <1>5, <1>6 DEF RingPos, j

LEMMA WindowType ==
  TypeOK => /\ Window \in Seq(MaybeRegions)
            /\ Len(Window) = q_len
            /\ \A k \in 1..q_len : Window[k] = entry[ring[(q_tail + k - 1) % QCap]]
<1>1. SUFFICES ASSUME TypeOK
               PROVE  /\ Window \in Seq(MaybeRegions)
                      /\ Len(Window) = q_len
                      /\ \A k \in 1..q_len : Window[k] = entry[ring[(q_tail + k - 1) % QCap]]
  OBVIOUS
<1>2. /\ entry \in [Idx -> MaybeRegions] /\ ring \in [RingPos -> Idx]
      /\ q_len \in 0..QCap /\ QCap \in Nat
  BY <1>1, ConstantsAssumption DEF TypeOK, MaybeRegions
<1>3. ASSUME NEW k \in 1..q_len PROVE entry[ring[(q_tail + k - 1) % QCap]] \in MaybeRegions
  <2>1. k \in 1..QCap
    BY <1>2
  <2>2. QED
    BY <1>1, <1>2, <2>1, Position
<1>4. Window \in [1..q_len -> MaybeRegions]
  BY <1>3 DEF Window
<1>5. QED
  BY <1>2, <1>4 DEF Window

LEMMA WindowTypeNext ==
  TypeOK' => /\ Window' \in Seq(MaybeRegions)
             /\ Len(Window') = q_len'
             /\ \A k \in 1..q_len' : Window'[k] = entry'[ring'[(q_tail' + k - 1) % QCap]]
<1>1. (TypeOK => /\ Window \in Seq(MaybeRegions)
                 /\ Len(Window) = q_len
                 /\ \A k \in 1..q_len : Window[k] = entry[ring[(q_tail + k - 1) % QCap]])'
  BY WindowType, PTL
<1>2. QED
  BY <1>1

(* Outside the last steps of an eviction every region in the window is     *)
(* that of a FREED slot.                                                   *)
LEMMA WindowIsFreed ==
  ASSUME IInv, \A t \in Threads : pc[t] # "replace", NEW k \in 1..q_len
  PROVE  LET i == ring[(q_tail + k - 1) % QCap]
         IN  i \in Idx /\ state[i] = FREED /\ Window[k] = entry[i]
<1> DEFINE j == (q_tail + k - 1) % QCap
<1>0. TypeOK /\ RingIsExact /\ ring \in [RingPos -> Idx] /\ q_len \in 0..QCap /\ QCap \in Nat
  BY ConstantsAssumption DEF IInv, TypeOK
<1>1. k \in 1..QCap
  BY <1>0
<1>2. j \in RingPos /\ RingDist(j) = k - 1
  BY <1>0, <1>1, Position
<1>3. Occupied(j) /\ ~Replacing(j)
  BY <1>0, <1>2 DEF Occupied, Replacing
<1>4. Window[k] = entry[ring[j]]
  BY <1>0, WindowType
<1> HIDE DEF j
<1>5. ring[j] \in Idx /\ state[ring[j]] = FREED
  BY <1>0, <1>2, <1>3 DEF RingIsExact
<1>6. QED
  BY <1>4, <1>5 DEF j

(* quarantine_push has been given the slot of t. *)
Burying(t) == pc[t] \in {"push", "tomb", "replace"}

LEMMA GraveyardIs ==
  TypeOK /\ MutualExclusion =>
    /\ (\A t \in Threads : ~Burying(t)) => Graveyard = Window
    /\ \A t \in Threads : Burying(t) =>
         Graveyard = Append(IF pc[t] = "push" THEN Window ELSE Tail(Window), entry[at[t]])
<1>1. SUFFICES ASSUME TypeOK, MutualExclusion
               PROVE  /\ (\A t \in Threads : ~Burying(t)) => Graveyard = Window
                      /\ \A t \in Threads : Burying(t) =>
                           Graveyard = Append(IF pc[t] = "push" THEN Window ELSE Tail(Window), entry[at[t]])
  OBVIOUS
<1>2. (\A t \in Threads : ~Burying(t)) => \A i \in Idx : ~Pending(i)
  BY DEF Burying, Pending
<1>3. ASSUME NEW t \in Threads, Burying(t)
      PROVE  Graveyard = Append(IF pc[t] = "push" THEN Window ELSE Tail(Window), entry[at[t]])
  <2>1. InCritical(t) /\ at[t] \in Idx
    BY <1>1, <1>3 DEF Burying, InCritical, CriticalPC, FreePC, TypeOK
  <2>2. \A i \in Idx : Pending(i) <=> i = at[t]
    BY <1>1, <1>3, <2>1, PendingIs DEF Burying
  <2>3. PendingSlot = at[t] /\ ~ \A i \in Idx : ~Pending(i)
    BY <2>1, <2>2 DEF PendingSlot
  <2>4. (\E u \in Threads : pc[u] \in {"tomb", "replace"}) <=> pc[t] # "push"
    BY <1>1, <1>3, <2>1 DEF Burying, MutualExclusion, InCritical, CriticalPC, FreePC
  <2>5. QED
    BY <2>3, <2>4 DEF Graveyard
<1>4. QED
  BY <1>2, <1>3 DEF Graveyard

LEMMA GraveyardIsNext ==
  TypeOK' /\ MutualExclusion' =>
    /\ (\A t \in Threads : ~Burying(t)') => Graveyard' = Window'
    /\ \A t \in Threads : Burying(t)' =>
         Graveyard' = Append(IF pc'[t] = "push" THEN Window' ELSE Tail(Window'), entry'[at'[t]])
<1>1. (TypeOK /\ MutualExclusion =>
        /\ (\A t \in Threads : ~Burying(t)) => Graveyard = Window
        /\ \A t \in Threads : Burying(t) =>
             Graveyard = Append(IF pc[t] = "push" THEN Window ELSE Tail(Window), entry[at[t]]))'
  BY GraveyardIs, PTL
<1>2. QED
  BY <1>1

(* Only quarantine_push moves the window. *)
LEMMA WindowStays ==
  ASSUME IInv, NEW t \in Threads, Step(t), ~Push(t), ~Replace(t)
  PROVE  Window' = Window
<1>0. TypeOK /\ TypeOK' /\ MutualExclusion /\ HasRegion
  BY TypeStep DEF IInv
<1>1. UNCHANGED <<ring, q_tail, q_len>>
  BY Frame
<1>2. CASE UNCHANGED entry
  BY <1>1, <1>2 DEF Window
<1>3. ASSUME NEW i \in Idx, Fill(t, i) PROVE Window' = Window
  <2>1. \A u \in Threads : pc[u] # "replace"
    BY <1>0, <1>3 DEF Fill, Goto, MutualExclusion, InCritical, CriticalPC, InsertPC, FreePC
  <2>2. ASSUME NEW k \in 1..q_len PROVE Window'[k] = Window[k]
    <3>1. PICK j \in Idx : j = ring[(q_tail + k - 1) % QCap] /\ state[j] = FREED /\ Window[k] = entry[j]
      BY <2>1, WindowIsFreed
    <3>2. entry'[j] = entry[j]
      BY <1>0, <1>3, <3>1 DEF Fill, FirstFree, Tracked, TypeOK
    <3>3. Window'[k] = entry'[j]
      BY <1>0, <1>1, <3>1, WindowTypeNext
    <3>4. QED
      BY <3>1, <3>2, <3>3
  <2>3. QED
    BY <1>0, <1>1, <2>2, WindowType, WindowTypeNext, SameSequence
<1>4. QED
  BY <1>2, <1>3, Frame

(* Push puts the slot at the end of the window... *)
LEMMA WindowGrows ==
  ASSUME IInv, NEW t \in Threads, Push(t), Step(t)
  PROVE  Window' = Append(Window, entry[at[t]])
<1>0. /\ TypeOK /\ TypeOK'
      /\ ring \in [RingPos -> Idx] /\ at[t] \in Idx
      /\ entry \in [Idx -> MaybeRegions]
  BY TypeStep DEF IInv, TypeOK, MaybeRegions
<1>1. /\ q_len \in 0..(QCap - 1) /\ q_len' = q_len + 1 /\ q_tail' = q_tail /\ entry' = entry
      /\ ring' = [ring EXCEPT ![(q_tail + q_len) % QCap] = at[t]]
      /\ QCap \in Nat
  BY <1>0, ConstantsAssumption DEF Push, table, TypeOK
<1>2. Window \in Seq(MaybeRegions) /\ Len(Window) = q_len /\ Window' \in Seq(MaybeRegions) /\ Len(Window') = q_len + 1
  BY <1>0, <1>1, WindowType, WindowTypeNext
<1> DEFINE a == Append(Window, entry[at[t]])
           p == (q_tail + q_len) % QCap
<1>3. a \in Seq(MaybeRegions) /\ Len(a) = q_len + 1
  BY <1>0, <1>2
<1>4. p \in RingPos /\ RingDist(p) = q_len
  <2>1. q_len + 1 \in 1..QCap /\ q_tail \in Int
    BY <1>0, <1>1 DEF TypeOK, RingPos
  <2>2. PICK k \in 1..QCap : k = q_len + 1
    BY <2>1
  <2>3. q_tail + k - 1 = q_tail + q_len /\ k - 1 = q_len
    BY <1>1, <2>1, <2>2
  <2>4. QED
    BY <1>0, <2>2, <2>3, Position
<1>5. ASSUME NEW k \in 1..(q_len + 1) PROVE Window'[k] = a[k]
  <2> DEFINE j == (q_tail + k - 1) % QCap
  <2>1. k \in 1..QCap
    BY <1>1
  <2>2. j \in RingPos /\ RingDist(j) = k - 1
    BY <1>0, <2>1, Position
  <2>3. Window'[k] = entry[ring'[j]]
    BY <1>0, <1>1, WindowTypeNext
  <2>4. CASE k = q_len + 1
    <3>1. q_tail + k - 1 = q_tail + q_len
      BY <1>0, <1>1, <2>4 DEF TypeOK, RingPos
    <3>2. ring'[j] = at[t]
      BY <1>0, <1>1, <1>4, <3>1
    <3>3. a[k] = entry[at[t]]
      BY <1>2, <2>4
    <3>4. QED
      BY <2>3, <3>2, <3>3
  <2>5. CASE k # q_len + 1
    <3>1. k \in 1..q_len /\ RingDist(j) # RingDist(p)
      BY <1>1, <1>4, <2>2, <2>5
    <3>2. Window[k] = entry[ring[j]]
      BY <1>0, <3>1, WindowType
    <3>3. j # p
      BY <3>1
    <3>4. ring'[j] = ring[j]
      BY <1>0, <1>1, <2>2, <3>3
    <3>5. a[k] = Window[k]
      BY <1>2, <3>1
    <3>6. QED
      BY <2>3, <3>2, <3>4, <3>5
  <2>6. QED
    BY <2>4, <2>5
<1> HIDE DEF a
<1>6. Window' = a
  BY <1>2, <1>3, <1>5, SameSequence
<1>7. QED
  BY <1>6 DEF a

(* ...and Replace too, dropping the oldest region. *)
LEMMA WindowSlides ==
  ASSUME IInv, NEW t \in Threads, Replace(t), Step(t)
  PROVE  Window' = Append(Tail(Window), entry[at[t]])
<1>0. /\ TypeOK /\ TypeOK' /\ PushInv
      /\ ring \in [RingPos -> Idx] /\ at[t] \in Idx
      /\ entry \in [Idx -> MaybeRegions]
      /\ QCap \in Nat \ {0} /\ q_tail \in 0..(QCap - 1)
  BY TypeStep, ConstantsAssumption DEF IInv, TypeOK, MaybeRegions, RingPos
<1>1. /\ q_len = QCap /\ q_len' = QCap /\ entry' = entry
      /\ q_tail' = (q_tail + 1) % QCap
      /\ ring' = [ring EXCEPT ![q_tail] = at[t]]
  BY <1>0 DEF Replace, Goto, table, PushInv
<1>2. /\ Window \in Seq(MaybeRegions) /\ Len(Window) = QCap
      /\ Window' \in Seq(MaybeRegions) /\ Len(Window') = QCap
  BY <1>0, <1>1, WindowType, WindowTypeNext
<1> DEFINE a == Append(Tail(Window), entry[at[t]])
<1>3. /\ Tail(Window) \in Seq(MaybeRegions) /\ Len(Tail(Window)) = QCap - 1
      /\ a \in Seq(MaybeRegions) /\ Len(a) = QCap
  BY <1>0, <1>2
<1>4. q_tail' = IF q_tail + 1 < QCap THEN q_tail + 1 ELSE 0
  BY <1>0, <1>1
<1>5. ASSUME NEW k \in 1..QCap PROVE Window'[k] = a[k]
  <2> DEFINE j == (q_tail' + k - 1) % QCap
  <2>1. j = IF q_tail' + (k - 1) < QCap THEN q_tail' + (k - 1) ELSE q_tail' + (k - 1) - QCap
    <3>1. PICK b \in 0..(QCap - 1) : b = k - 1
      BY <1>0
    <3>2. PICK c \in 0..(QCap - 1) : c = q_tail'
      BY <1>0, <1>4
    <3>3. (c + b) % QCap = IF c + b < QCap THEN c + b ELSE c + b - QCap
      BY <1>0, ModSum
    <3>4. q_tail' + k - 1 = c + b
      BY <3>1, <3>2
    <3>5. QED
      BY <3>1, <3>2, <3>3, <3>4
  <2>2. Window'[k] = entry[ring'[j]]
    BY <1>0, <1>1, WindowTypeNext
  <2> HIDE DEF j
  <2>3. CASE k = QCap
    <3>1. j = q_tail
      BY <1>0, <1>4, <2>1, <2>3
    <3>2. ring'[j] = at[t]
      BY <1>0, <1>1, <3>1 DEF RingPos
    <3>3. a[k] = entry[at[t]]
      BY <1>0, <1>3, <2>3
    <3>4. QED
      BY <2>2, <3>2, <3>3
  <2>4. CASE k # QCap
    <3>1. k + 1 \in 1..QCap /\ k \in 1..(QCap - 1)
      BY <1>0, <2>4
    <3>2. PICK l \in 1..QCap : l = k + 1
      BY <3>1
    <3>3. (q_tail + l - 1) % QCap = IF q_tail + (l - 1) < QCap THEN q_tail + (l - 1) ELSE q_tail + (l - 1) - QCap
      BY <1>0, <3>2, Position
    <3>4. (q_tail + l - 1) % QCap = j /\ j # q_tail /\ j \in 0..(QCap - 1)
      BY <1>0, <1>4, <2>1, <3>1, <3>2, <3>3
    <3>5. ring'[j] = ring[j]
      BY <1>0, <1>1, <3>4 DEF RingPos
    <3>6. Window[l] = entry[ring[j]]
      BY <1>0, <1>1, <3>2, <3>4, WindowType
    <3>7. a[k] = Window[l]
      <4>1. a[k] = Tail(Window)[k]
        BY <1>0, <1>3, <3>1
      <4>2. Tail(Window)[k] = Window[k + 1]
        BY <1>0, <1>2, <3>1
      <4>3. QED
        BY <3>2, <4>1, <4>2
    <3>8. QED
      BY <2>2, <3>5, <3>6, <3>7
  <2>5. QED
    BY <2>3, <2>4
<1> HIDE DEF a
<1>6. Window' = a
  BY <1>2, <1>3, <1>5, SameSequence
<1>7. QED
  BY <1>6 DEF a

(* Only Publish and MarkFreed change the set of live regions. *)
LEMMA AllocatedStays ==
  ASSUME IInv, NEW t \in Threads, Step(t), ~Publish(t), ~MarkFreed(t)
  PROVE  Allocated' = Allocated
<1>0. state \in [Idx -> {EMPTY, READY, FREED, TOMB}]
  BY DEF IInv, TypeOK
<1>1. ASSUME NEW i \in Idx, state[i] = READY PROVE state'[i] = READY /\ entry'[i] = entry[i]
  BY <1>1, ReadyStays
<1>2. ASSUME NEW i \in Idx, state'[i] = READY PROVE state[i] = READY
  BY <1>0, <1>2, Frame DEF Entomb, READY, TOMB
<1>3. QED
  BY <1>1, <1>2 DEF Allocated

LEMMA ReclaimsStays ==
  ASSUME IInv, NEW t \in Threads, Step(t), ~Unmap(t), ~Entomb(t)
  PROVE  Reclaims' = Reclaims
<1>0. TypeOK
  BY DEF IInv
<1>1. evictions' = evictions
  BY DEF Step, Call, Alloc, Dealloc, Map, BeginFree, Acquire, Fill, Publish, Inserted, Full, GiveBack, Fallback,
         Miss, SysFree, DoubleFreed, Seal, MarkFreed, Push, Replace, Pushed
<1>2. pc[t] # "tomb" /\ pc'[t] # "tomb"
  BY <1>0, Arrivals, Departures
<1>3. \A u \in Threads : pc'[u] = "tomb" <=> pc[u] = "tomb"
  BY <1>0, <1>2, Others
<1>4. QED
  BY <1>1, <1>3 DEF Reclaims

LEMMA GraveyardStays ==
  ASSUME IInv, NEW t \in Threads, Step(t),
         ~MarkFreed(t), ~Push(t), ~Unmap(t), ~Entomb(t), ~Replace(t)
  PROVE  Graveyard' = Graveyard
<1>0. TypeOK /\ TypeOK' /\ MutualExclusion /\ MutualExclusion'
  BY TypeStep, MutexStep DEF IInv
<1>1. Window' = Window
  BY WindowStays
<1>2. ~Burying(t) /\ ~Burying(t)'
  BY <1>0, Arrivals, Departures DEF Burying
<1>3. \A u \in Threads : Burying(u)' <=> Burying(u)
  BY <1>0, <1>2, Others DEF Burying
<1>4. ASSUME NEW u \in Threads, Burying(u) PROVE Graveyard' = Graveyard
  <2>1. u # t /\ Burying(u)' /\ pc'[u] = pc[u] /\ at'[u] = at[u]
    BY <1>0, <1>2, <1>3, <1>4, Others
  <2>2. entry' = entry
    BY <1>0, <1>4, <2>1, Foreign DEF Burying, InCritical, CriticalPC, FreePC
  <2>3. Graveyard = Append(IF pc[u] = "push" THEN Window ELSE Tail(Window), entry[at[u]])
    BY <1>0, <1>4, GraveyardIs
  <2>4. Graveyard' = Append(IF pc'[u] = "push" THEN Window' ELSE Tail(Window'), entry'[at'[u]])
    BY <1>0, <2>1, GraveyardIsNext
  <2>5. QED
    BY <1>1, <2>1, <2>2, <2>3, <2>4
<1>5. CASE \A u \in Threads : ~Burying(u)
  BY <1>0, <1>1, <1>3, <1>5, GraveyardIs, GraveyardIsNext
<1>6. QED
  BY <1>4, <1>5

(* Publish hands out a region that overlaps no live one and none in        *)
(* quarantine.                                                             *)
LEMMA PublishFences ==
  ASSUME IInv, NEW t \in Threads, Step(t), Publish(t)
  PROVE  reg[t] \in Region /\ Heap!Fence(reg[t])
<1>0. /\ TypeOK /\ MutualExclusion /\ NoOverlap /\ FillInv
      /\ pc[t] = "publish" /\ InFlight(t) /\ reg[t] \in Region /\ InCritical(t)
      /\ state \in [Idx -> {EMPTY, READY, FREED, TOMB}] /\ at[t] \in Idx
  BY DEF IInv, TypeOK, Publish, Goto, InFlight, HasRegion, InCritical, CriticalPC, InsertPC
<1>1. \A u \in Threads : pc[u] \notin {"push", "tomb", "replace"}
  BY <1>0 DEF MutualExclusion, InCritical, CriticalPC, FreePC
<1>2. Graveyard = Window
  BY <1>0, <1>1, GraveyardIs DEF Burying
<1>3. ASSUME NEW s \in Allocated PROVE Heap!Disjoint(reg[t], s)
  <2>1. PICK i \in Idx : state[i] = READY /\ s = entry[i]
    BY DEF Allocated
  <2>2. QED
    BY <1>0, <2>1, ReadyIsHeld DEF NoOverlap, Apart, Heap!Disjoint
<1>4. ASSUME NEW s \in Heap!Buried PROVE Heap!Disjoint(reg[t], s)
  <2>1. PICK k \in 1..q_len : s = Window[k]
    BY <1>0, <1>2, WindowType DEF Heap!Buried
  <2>2. PICK i \in Idx : state[i] = FREED /\ s = entry[i]
    BY <1>1, <2>1, WindowIsFreed
  <2>3. Holding(i)
    BY <1>1, <2>2 DEF Holding, Tracked, Dying
  <2>4. QED
    BY <1>0, <2>2, <2>3 DEF NoOverlap, Apart, Heap!Disjoint
<1>5. Allocated' = Allocated \cup {reg[t]}
  <2>1. state' = [state EXCEPT ![at[t]] = READY] /\ entry' = entry /\ entry[at[t]] = reg[t]
    BY <1>0 DEF Publish, FillInv
  <2>2. ASSUME NEW i \in Idx PROVE state'[i] = READY <=> state[i] = READY \/ i = at[t]
    BY <1>0, <2>1
  <2>3. QED
    BY <1>0, <2>1, <2>2 DEF Allocated
<1>6. Graveyard' = Graveyard /\ Reclaims' = Reclaims
  BY <1>0, GraveyardStays, ReclaimsStays DEF Publish, MarkFreed, Push, Unmap, Entomb, Replace, Goto
<1>7. QED
  BY <1>0, <1>3, <1>4, <1>5, <1>6 DEF Heap!Fence

(* MarkFreed puts the region at the end of the quarantine. *)
LEMMA MarkFreedBuries ==
  ASSUME IInv, NEW t \in Threads, Step(t), MarkFreed(t)
  PROVE  entry[at[t]] \in Region /\ Heap!Bury(entry[at[t]])
<1>0. /\ TypeOK /\ TypeOK' /\ MutualExclusion /\ MutualExclusion' /\ NoOverlap
      /\ pc[t] = "mark" /\ pc'[t] = "push" /\ state[at[t]] = READY /\ InCritical(t)
      /\ state \in [Idx -> {EMPTY, READY, FREED, TOMB}] /\ at[t] \in Idx
      /\ entry[at[t]] \in Region
  BY TypeStep, MutexStep DEF IInv, TypeOK, MarkFreed, Goto, SealInv, InCritical, CriticalPC, FreePC,
     EntriesAreRegions, Tracked
<1>1. \A u \in Threads : ~Burying(u)
  BY <1>0 DEF Burying, MutualExclusion, InCritical, CriticalPC, FreePC
<1>2. Graveyard = Window /\ Len(Window) = q_len /\ q_len <= QCap
  BY <1>0, <1>1, GraveyardIs, WindowType, ConstantsAssumption DEF TypeOK
<1>3. at' = at /\ entry' = entry /\ Window' = Window
  BY <1>0, WindowStays DEF MarkFreed, locals, Push, Replace, Goto
<1>4. Graveyard' = Append(Graveyard, entry[at[t]])
  <2>1. Burying(t)'
    BY <1>0 DEF Burying
  <2>2. Graveyard' = Append(IF pc'[t] = "push" THEN Window' ELSE Tail(Window'), entry'[at'[t]])
    BY <1>0, <2>1, GraveyardIsNext
  <2>3. QED
    BY <1>0, <1>2, <1>3, <2>2
<1>5. entry[at[t]] \in Allocated
  BY <1>0 DEF Allocated
<1>6. Allocated' = Allocated \ {entry[at[t]]}
  <2>1. state' = [state EXCEPT ![at[t]] = FREED]
    BY DEF MarkFreed
  <2>2. ASSUME NEW i \in Idx PROVE state'[i] = READY <=> state[i] = READY /\ i # at[t]
    BY <1>0, <2>1 DEF READY, FREED
  <2>3. ASSUME NEW i \in Idx, state[i] = READY, i # at[t] PROVE entry[i] # entry[at[t]]
    BY <1>0, <2>3, GeometryAssumption DEF NoOverlap, Apart, Tracked
  <2>4. QED
    BY <1>3, <2>2, <2>3 DEF Allocated
<1>7. Reclaims' = Reclaims
  BY <1>0, ReclaimsStays DEF Unmap, Entomb, Goto
<1>8. QED
  BY <1>0, <1>2, <1>4, <1>5, <1>6, <1>7 DEF Heap!Bury

(* Unmap takes the oldest region out of a quarantine that is over its cap. *)
LEMMA UnmapReclaims ==
  ASSUME IInv, NEW t \in Threads, Step(t), Unmap(t)
  PROVE  Heap!Reclaim
<1>0. /\ TypeOK /\ TypeOK' /\ MutualExclusion /\ MutualExclusion'
      /\ pc[t] = "push" /\ pc'[t] = "tomb" /\ q_len = QCap /\ InCritical(t) /\ InCritical(t)'
      /\ QCap \in Nat \ {0} /\ Wrap \in Nat \ {0} /\ evictions \in 0..(Wrap - 1)
      /\ entry[at[t]] \in MaybeRegions
  BY TypeStep, MutexStep, ConstantsAssumption
  DEF IInv, TypeOK, Unmap, Goto, InCritical, CriticalPC, FreePC, MaybeRegions
<1>1. at' = at /\ entry' = entry /\ evictions' = evictions /\ Window' = Window
  BY <1>0, WindowStays DEF Unmap, locals, table, Push, Replace, Goto
<1>2. Window \in Seq(MaybeRegions) /\ Len(Window) = QCap
  BY <1>0, WindowType
<1>3. Graveyard = Append(Window, entry[at[t]])
  BY <1>0, GraveyardIs DEF Burying
<1>4. Graveyard' = Append(Tail(Window), entry[at[t]])
  <2>1. Burying(t)' /\ pc'[t] # "push"
    BY <1>0 DEF Burying
  <2>2. Graveyard' = Append(IF pc'[t] = "push" THEN Window' ELSE Tail(Window'), entry'[at'[t]])
    BY <1>0, <2>1, GraveyardIsNext
  <2>3. QED
    BY <1>1, <2>1, <2>2
<1>5. Len(Graveyard) = QCap + 1 /\ Graveyard' = Tail(Graveyard)
  <2>1. Len(Window) > 0
    BY <1>0, <1>2
  <2>2. Tail(Append(Window, entry[at[t]])) = Append(Tail(Window), entry[at[t]])
    BY <1>0, <1>2, <2>1, TailOfAppend
  <2>3. Len(Append(Window, entry[at[t]])) = Len(Window) + 1
    BY <1>0, <1>2
  <2>4. QED
    BY <1>2, <1>3, <1>4, <2>2, <2>3
<1>6. Reclaims' = (Reclaims + 1) % Wrap
  <2>1. ~ \E u \in Threads : pc[u] = "tomb"
    BY <1>0 DEF MutualExclusion, InCritical, CriticalPC, FreePC
  <2>2. Reclaims = (evictions + 0) % Wrap
    BY <2>1 DEF Reclaims
  <2>3. Reclaims' = (evictions + 1) % Wrap
    BY <1>0, <1>1 DEF Reclaims
  <2>4. (evictions + 0) % Wrap = evictions
    BY <1>0
  <2>5. QED
    BY <2>2, <2>3, <2>4
<1>7. Allocated' = Allocated
  BY <1>0, AllocatedStays DEF Publish, MarkFreed, Goto
<1>8. QED
  BY <1>5, <1>6, <1>7 DEF Heap!Reclaim

(* The rest of quarantine_push rearranges the ring, not the quarantine. *)
LEMMA EntombStutters ==
  ASSUME IInv, NEW t \in Threads, Step(t), Entomb(t)
  PROVE  UNCHANGED <<Allocated, Graveyard, Reclaims>>
<1>0. /\ TypeOK /\ TypeOK' /\ MutualExclusion /\ MutualExclusion'
      /\ pc[t] = "tomb" /\ pc'[t] = "replace" /\ InCritical(t) /\ InCritical(t)'
      /\ Wrap \in Nat \ {0} /\ evictions \in 0..(Wrap - 1)
  BY TypeStep, MutexStep, ConstantsAssumption
  DEF IInv, TypeOK, Entomb, Goto, InCritical, CriticalPC, FreePC
<1>1. at' = at /\ entry' = entry /\ evictions' = (evictions + 1) % Wrap /\ Window' = Window
  BY <1>0, WindowStays DEF Entomb, locals, Push, Replace, Goto
<1>2. Graveyard' = Graveyard
  <2>1. Burying(t) /\ Burying(t)' /\ pc[t] # "push" /\ pc'[t] # "push"
    BY <1>0 DEF Burying
  <2>2. Graveyard = Append(IF pc[t] = "push" THEN Window ELSE Tail(Window), entry[at[t]])
    BY <1>0, <2>1, GraveyardIs
  <2>3. Graveyard' = Append(IF pc'[t] = "push" THEN Window' ELSE Tail(Window'), entry'[at'[t]])
    BY <1>0, <2>1, GraveyardIsNext
  <2>4. QED
    BY <1>1, <2>1, <2>2, <2>3
<1>3. Reclaims' = Reclaims
  <2>1. ~ \E u \in Threads : pc'[u] = "tomb"
    BY <1>0 DEF MutualExclusion, InCritical, CriticalPC, FreePC
  <2>2. Reclaims = (evictions + 1) % Wrap /\ Reclaims' = (((evictions + 1) % Wrap) + 0) % Wrap
    BY <1>0, <1>1, <2>1 DEF Reclaims
  <2>3. PICK e \in 0..(Wrap - 1) : e = (evictions + 1) % Wrap
    BY <1>0, ModRange
  <2>4. (e + 0) % Wrap = e
    BY <1>0
  <2>5. QED
    BY <2>2, <2>3, <2>4
<1>4. Allocated' = Allocated
  BY <1>0, AllocatedStays DEF Publish, MarkFreed, Goto
<1>5. QED
  BY <1>2, <1>3, <1>4

LEMMA PushStutters ==
  ASSUME IInv, NEW t \in Threads, Step(t), Push(t) \/ Replace(t)
  PROVE  UNCHANGED <<Allocated, Graveyard, Reclaims>>
<1>0. /\ TypeOK /\ TypeOK' /\ MutualExclusion /\ MutualExclusion'
      /\ Push(t) => pc[t] = "push"
      /\ Replace(t) => pc[t] = "replace"
      /\ pc'[t] = "pushed" /\ InCritical(t)'
  BY TypeStep, MutexStep DEF IInv, TypeOK, Push, Replace, Goto, InCritical, CriticalPC, FreePC
<1>1. Graveyard = Append(IF pc[t] = "push" THEN Window ELSE Tail(Window), entry[at[t]])
  BY <1>0, GraveyardIs DEF Burying
<1>2. Graveyard' = Window'
  <2>1. \A u \in Threads : ~Burying(u)'
    BY <1>0 DEF Burying, MutualExclusion, InCritical, CriticalPC, FreePC
  <2>2. QED
    BY <1>0, <2>1, GraveyardIsNext
<1>3. Graveyard' = Graveyard
  <2>1. CASE Push(t)
    BY <1>0, <1>1, <1>2, <2>1, WindowGrows
  <2>2. CASE Replace(t)
    BY <1>0, <1>1, <1>2, <2>2, WindowSlides
  <2>3. QED
    BY <2>1, <2>2
<1>4. Allocated' = Allocated
  BY <1>0, AllocatedStays DEF Publish, MarkFreed, Goto
<1>5. Reclaims' = Reclaims
  <2>1. ~Unmap(t) /\ ~Entomb(t)
    BY <1>0 DEF Unmap, Entomb, Goto, TypeOK
  <2>2. QED
    BY <2>1, ReclaimsStays
<1>6. QED
  BY <1>3, <1>4, <1>5

LEMMA HeapStep ==
  ASSUME IInv, NEW t \in Threads, Step(t)
  PROVE  Heap!Next \/ UNCHANGED <<Allocated, Graveyard, Reclaims>>
<1>1. CASE Publish(t)
  BY <1>1, PublishFences DEF Heap!Next
<1>2. CASE MarkFreed(t)
  BY <1>2, MarkFreedBuries DEF Heap!Next
<1>3. CASE Unmap(t)
  BY <1>3, UnmapReclaims DEF Heap!Next
<1>4. CASE Entomb(t)
  BY <1>4, EntombStutters
<1>5. CASE Push(t) \/ Replace(t)
  BY <1>5, PushStutters
<1>6. CASE ~Publish(t) /\ ~MarkFreed(t) /\ ~Unmap(t) /\ ~Entomb(t) /\ ~Push(t) /\ ~Replace(t)
  BY <1>6, AllocatedStays, GraveyardStays, ReclaimsStays
<1>7. QED
  BY <1>1, <1>2, <1>3, <1>4, <1>5, <1>6

LEMMA HeapInit ==
  ASSUME Init
  PROVE  Heap!Init
<1>1. Allocated = {}
  BY DEF Init, Allocated, EMPTY, READY
<1>2. Graveyard = <<>>
  <2>1. TypeOK /\ MutualExclusion
    BY InitIInv DEF IInv
  <2>2. Graveyard = Window
    BY <2>1, GraveyardIs DEF Init, Burying
  <2>3. Len(Window) = 0 /\ Window \in Seq(MaybeRegions)
    BY <2>1, WindowType DEF Init
  <2>4. QED
    BY <2>2, <2>3
<1>3. Reclaims = 0
  <2>1. Reclaims = 0 % Wrap
    BY DEF Init, Reclaims
  <2>2. QED
    BY <2>1, ConstantsAssumption
<1>4. QED
  BY <1>1, <1>2, <1>3 DEF Heap!Init

(* The registry implements the fenced heap: for any table, quarantine and  *)
(* number of threads, what insert hands out overlaps nothing that is live  *)
(* or in quarantine, freed regions queue up in the order of their frees,   *)
(* and they leave in that order, one for every free past the cap.          *)
THEOREM RegistryImplementsHeap == Spec => ImplementsHeap
<1>1. Init => Heap!Init
  BY HeapInit
<1>2. IInv /\ [Next]_vars => [Heap!Next]_(Heap!heapVars)
  <2>1. ASSUME UNCHANGED vars PROVE UNCHANGED <<Allocated, Graveyard, Reclaims>>
    <3>1. UNCHANGED <<Allocated, Reclaims>>
      BY <2>1 DEF vars, Allocated, Reclaims
    <3>2. UNCHANGED Graveyard
      BY <2>1 DEF vars, Graveyard, Window, PendingSlot, Pending
    <3>3. QED
      BY <3>1, <3>2
  <2>2. QED
    BY <2>1, HeapStep DEF Next, Heap!heapVars
<1>3. QED
  BY <1>1, <1>2, Invariance, PTL DEF Spec, ImplementsHeap, Heap!Spec
=============================================================================
