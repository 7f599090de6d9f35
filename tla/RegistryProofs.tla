--------------------------- MODULE RegistryProofs ---------------------------
EXTENDS Registry, TLAPS

(* Arithmetic of the ring. *)
LEMMA ModSum ==
  ASSUME NEW q \in Nat \ {0}, NEW a \in 0..(q - 1), NEW b \in 0..(q - 1)
  PROVE  (a + b) % q = IF a + b < q THEN a + b ELSE a + b - q
BY SMT

LEMMA DistRange ==
  ASSUME NEW q \in Nat \ {0}, NEW a \in 0..(q - 1), NEW k \in 0..(q - 1)
  PROVE  (IF k >= a THEN k - a ELSE k - a + q) < q
BY SMT

LEMMA ModRange ==
  ASSUME NEW q \in Nat \ {0}, NEW a \in Int
  PROVE  a % q \in 0..(q - 1)
BY SMT

(* Every region has pages, and all of them are pages of the address space. *)
LEMMA SpanFacts ==
  /\ Span \in [Region -> SUBSET Page]
  /\ \A r \in Region : Base[r] \in Span[r] /\ Span[r] = Base[r]..(Base[r] + Total[r] - 1)
<1>1. ASSUME NEW r \in Region
      PROVE  Base[r] \in Span[r] /\ Span[r] = Base[r]..(Base[r] + Total[r] - 1) /\ Span[r] \subseteq Page
  <2>1. Base[r] \in Nat /\ Total[r] \in Nat \ {0} /\ Span[r] \subseteq Page
    BY GeometryAssumption
  <2>2. Span[r] = Base[r]..(Base[r] + Total[r] - 1)
    BY DEF Span
  <2>3. QED
    BY <2>1, <2>2
<1>2. DOMAIN Span = Region /\ Span = [r \in Region |-> Span[r]]
  BY DEF Span
<1>3. QED
  BY <1>1, <1>2

(* protect_none reaches every page of a range that is mapped. *)
LEMMA ReachedAll ==
  ASSUME NEW range \in SUBSET Page, \A g \in range : prot[g] # "free"
  PROVE  Reached(range) = range
<1>1. ASSUME NEW g \in range
      PROVE  g \in Page /\ \A k \in range : k <= g => k \in Page /\ prot[k] # "free"
  OBVIOUS
<1>2. \A g \in range : g \in Reached(range)
  BY <1>1 DEF Reached
<1>3. Reached(range) \subseteq range
  BY DEF Reached
<1>4. QED
  BY <1>2, <1>3

(* Sealing changes nothing but the protection of pages that are mapped. *)
LEMMA SealKeeps ==
  ASSUME TypeOK, NEW t \in Threads, NEW i \in Idx, Seal(t, i), NEW g \in Page
  PROVE  prot'[g] = prot[g] \/ (prot[g] # "free" /\ prot'[g] = "sealed")
<1>1. prot \in [Page -> {"free", "mapped", "sealed"}] /\ g \in Nat
  BY GeometryAssumption DEF TypeOK
<1>2. ASSUME NEW range, g \in Reached(range) PROVE prot[g] # "free"
  BY <1>1, <1>2 DEF Reached
<1>3. ASSUME NEW range, ProtectNone(range)
      PROVE  prot'[g] = prot[g] \/ (prot[g] # "free" /\ prot'[g] = "sealed")
  <2>1. CASE UNCHANGED prot
    BY <2>1
  <2>2. CASE Protect(Reached(range), "sealed")
    BY <1>1, <1>2, <2>2 DEF Protect
  <2>3. QED
    BY <1>3, <2>1, <2>2 DEF ProtectNone
<1>4. QED
  BY <1>3 DEF Seal

LEMMA TypeStep ==
  ASSUME TypeOK, HasRegion, NEW t \in Threads, Step(t)
  PROVE  TypeOK'
<1> USE ConstantsAssumption DEF TypeOK, Goto, Release, Protect, table, ringVars, osVars, client, locals, EMPTY, READY, FREED, TOMB
<1>a. {"idle", "wantInsert", "full", "fallback", "wantFree", "miss", "insert", "publish", "inserted",
       "free", "mark", "push", "tomb", "replace", "pushed"} \subseteq PC
  BY DEF PC, CriticalPC, InsertPC, FreePC
<1>b. 0 \in Idx
  BY DEF Idx
<1>1. ASSUME NEW r \in Region, Map(t, r) PROVE TypeOK'
  BY <1>1, <1>a, <1>b DEF Map
<1>2. ASSUME NEW h \in Handle, BeginFree(t, h) PROVE TypeOK'
  BY <1>2, <1>a, <1>b DEF BeginFree
<1>3. ASSUME Acquire(t) PROVE TypeOK'
  BY <1>3, <1>a, <1>b DEF Acquire
<1>4. ASSUME NEW i \in Idx, Fill(t, i) PROVE TypeOK'
  <2>1. reg[t] \in Region
    BY <1>4 DEF Fill, HasRegion, InFlight
  <2>. QED
    BY <1>4, <1>a, <1>b, <2>1 DEF Fill
<1>5. ASSUME Publish(t) PROVE TypeOK'
  BY <1>5, <1>a, <1>b DEF Publish
<1>6. ASSUME Inserted(t) PROVE TypeOK'
  <2>1. reg[t] \in Handle
    BY <1>6 DEF Inserted, HasRegion, Handle
  <2>. QED
    BY <1>6, <1>a, <1>b, <2>1 DEF Inserted
<1>7. ASSUME Full(t) PROVE TypeOK'
  BY <1>7, <1>a, <1>b DEF Full
<1>8. ASSUME GiveBack(t) PROVE TypeOK'
  BY <1>8, <1>a, <1>b DEF GiveBack
<1>9. ASSUME Fallback(t) PROVE TypeOK'
  <2>1. sys' \in SUBSET SysPtr /\ owned' \in SUBSET Handle /\ stale' \in SUBSET Handle
    BY <1>9 DEF Fallback, Handle
  <2>. QED
    BY <1>9, <1>a, <2>1 DEF Fallback, WarnFullOnce
<1>10. ASSUME Miss(t) PROVE TypeOK'
  BY <1>10, <1>a, <1>b DEF Miss
<1>11. ASSUME SysFree(t) PROVE TypeOK'
  BY <1>11, <1>a, <1>b DEF SysFree
<1>12. ASSUME DoubleFreed(t) PROVE TypeOK'
  BY <1>12, <1>a, <1>b DEF DoubleFreed
<1>13. ASSUME NEW i \in Idx, Seal(t, i) PROVE TypeOK'
  BY <1>13, <1>a, <1>b DEF Seal, ProtectNone
<1>14. ASSUME MarkFreed(t) PROVE TypeOK'
  BY <1>14, <1>a, <1>b DEF MarkFreed
<1>15. ASSUME Push(t) PROVE TypeOK'
  <2>1. (q_tail + q_len) % QCap \in RingPos
    BY ModRange DEF RingPos
  <2>. QED
    BY <1>15, <1>a, <2>1 DEF Push
<1>16. ASSUME Unmap(t) PROVE TypeOK'
  BY <1>16, <1>a, <1>b DEF Unmap
<1>17. ASSUME Entomb(t) PROVE TypeOK'
  <2>1. (evictions + 1) % Wrap \in 0..(Wrap - 1)
    BY ModRange
  <2>. QED
    BY <1>17, <1>a, <2>1 DEF Entomb
<1>18. ASSUME Replace(t) PROVE TypeOK'
  <2>1. (q_tail + 1) % QCap \in RingPos
    BY ModRange DEF RingPos
  <2>. QED
    BY <1>18, <1>a, <2>1 DEF Replace
<1>19. ASSUME Pushed(t) PROVE TypeOK'
  BY <1>19, <1>a, <1>b DEF Pushed
<1>20. QED
  BY <1>1, <1>2, <1>3, <1>4, <1>5, <1>6, <1>7, <1>8, <1>9, <1>10,
     <1>11, <1>12, <1>13, <1>14, <1>15, <1>16, <1>17, <1>18, <1>19
  DEF Step, Call, Alloc, Dealloc

(* What a step of t leaves alone. *)
LEMMA Frame ==
  ASSUME NEW t \in Threads, Step(t)
  PROVE  /\ UNCHANGED state \/ Publish(t) \/ MarkFreed(t) \/ Entomb(t)
         /\ UNCHANGED entry \/ \E i \in Idx : Fill(t, i)
         /\ UNCHANGED <<ring, q_tail, q_len>> \/ Push(t) \/ Replace(t)
         /\ \/ UNCHANGED prot
            \/ \E r \in Region : Map(t, r)
            \/ GiveBack(t)
            \/ \E i \in Idx : Seal(t, i)
            \/ Unmap(t)
<1> USE DEF table, ringVars, osVars
<1>1. UNCHANGED state \/ Publish(t) \/ MarkFreed(t) \/ Entomb(t)
  BY DEF Step, Call, Alloc, Dealloc, Map, BeginFree, Acquire, Fill, Inserted, Full, GiveBack, Fallback,
         Miss, SysFree, DoubleFreed, Seal, Push, Unmap, Replace, Pushed
<1>2. UNCHANGED entry \/ \E i \in Idx : Fill(t, i)
  BY DEF Step, Call, Alloc, Dealloc, Map, BeginFree, Acquire, Publish, Inserted, Full, GiveBack, Fallback,
         Miss, SysFree, DoubleFreed, Seal, MarkFreed, Push, Unmap, Entomb, Replace, Pushed
<1>3. UNCHANGED <<ring, q_tail, q_len>> \/ Push(t) \/ Replace(t)
  BY DEF Step, Call, Alloc, Dealloc, Map, BeginFree, Acquire, Fill, Publish, Inserted, Full, GiveBack,
         Fallback, Miss, SysFree, DoubleFreed, Seal, MarkFreed, Unmap, Entomb, Pushed
<1>4. \/ UNCHANGED prot
      \/ \E r \in Region : Map(t, r)
      \/ GiveBack(t)
      \/ \E i \in Idx : Seal(t, i)
      \/ Unmap(t)
  BY DEF Step, Call, Alloc, Dealloc, BeginFree, Acquire, Fill, Publish, Inserted, Full, Fallback,
         Miss, SysFree, DoubleFreed, MarkFreed, Push, Entomb, Replace, Pushed
<1>5. QED
  BY <1>1, <1>2, <1>3, <1>4

(* A step of t changes the locals of no other thread. *)
LEMMA Others ==
  ASSUME TypeOK, NEW t \in Threads, Step(t), NEW u \in Threads, u # t
  PROVE  pc'[u] = pc[u] /\ reg'[u] = reg[u] /\ arg'[u] = arg[u] /\ at'[u] = at[u]
<1>0. /\ pc \in [Threads -> PC]
      /\ reg \in [Threads -> Region \cup {None}]
      /\ arg \in [Threads -> Handle \cup {None}]
      /\ at \in [Threads -> Idx]
  BY DEF TypeOK
<1>1. \E q : pc' = [pc EXCEPT ![t] = q]
  BY DEF Step, Goto, Call, Alloc, Dealloc, Map, BeginFree, Acquire, Fill, Publish, Inserted, Full, GiveBack, Fallback, Miss, SysFree, DoubleFreed, Seal, MarkFreed, Push, Unmap, Entomb, Replace, Pushed
<1>2. reg' = reg \/ \E r : reg' = [reg EXCEPT ![t] = r]
  BY DEF Step, locals, Call, Alloc, Dealloc, Map, BeginFree, Acquire, Fill, Publish, Inserted, Full, GiveBack, Fallback, Miss, SysFree, DoubleFreed, Seal, MarkFreed, Push, Unmap, Entomb, Replace, Pushed
<1>3. arg' = arg \/ \E h : arg' = [arg EXCEPT ![t] = h]
  BY DEF Step, locals, Call, Alloc, Dealloc, Map, BeginFree, Acquire, Fill, Publish, Inserted, Full, GiveBack, Fallback, Miss, SysFree, DoubleFreed, Seal, MarkFreed, Push, Unmap, Entomb, Replace, Pushed
<1>4. at' = at \/ \E i : at' = [at EXCEPT ![t] = i]
  BY DEF Step, locals, Call, Alloc, Dealloc, Map, BeginFree, Acquire, Fill, Publish, Inserted, Full, GiveBack, Fallback, Miss, SysFree, DoubleFreed, Seal, MarkFreed, Push, Unmap, Entomb, Replace, Pushed
<1>5. QED
  BY <1>0, <1>1, <1>2, <1>3, <1>4

(* A step of t takes the lock, drops it, or leaves it alone. *)
LEMMA LockMoves ==
  ASSUME TypeOK, NEW t \in Threads, Step(t)
  PROVE  \/ ~held /\ held' = TRUE /\ InCritical(t)'
         \/ InCritical(t) /\ held' = FALSE /\ ~InCritical(t)'
         \/ held' = held /\ (InCritical(t)' <=> InCritical(t))
<1> USE DEF InCritical, CriticalPC, InsertPC, FreePC, Goto, Release
<1>0. pc \in [Threads -> PC] /\ held \in BOOLEAN
  BY DEF TypeOK
<1>1. CASE Call(t) \/ Acquire(t)
  BY <1>0, <1>1 DEF Call, Map, BeginFree, Acquire
<1>2. CASE Alloc(t)
  BY <1>0, <1>2 DEF Alloc, Fill, Publish, Inserted, Full, GiveBack, Fallback
<1>3. CASE Dealloc(t)
  BY <1>0, <1>3 DEF Dealloc, Miss, SysFree, DoubleFreed, Seal, MarkFreed, Push, Unmap, Entomb, Replace, Pushed
<1>4. QED
  BY <1>1, <1>2, <1>3 DEF Step

LEMMA MutexStep ==
  ASSUME TypeOK, MutualExclusion, NEW t \in Threads, Step(t)
  PROVE  MutualExclusion'
<1>0. held \in BOOLEAN
  BY DEF TypeOK
<1>1. \A u \in Threads : u # t => (InCritical(u)' <=> InCritical(u))
  BY Others DEF InCritical
<1>2. CASE ~held /\ held' = TRUE /\ InCritical(t)'
  BY <1>0, <1>1, <1>2 DEF MutualExclusion
<1>3. CASE InCritical(t) /\ held' = FALSE /\ ~InCritical(t)'
  BY <1>0, <1>1, <1>3 DEF MutualExclusion
<1>4. CASE held' = held /\ (InCritical(t)' <=> InCritical(t))
  BY <1>0, <1>1, <1>4 DEF MutualExclusion
<1>5. QED
  BY <1>2, <1>3, <1>4, LockMoves

(* While another thread is in the critical section, t writes neither the   *)
(* table nor the ring.                                                     *)
LEMMA Foreign ==
  ASSUME TypeOK, MutualExclusion, NEW t \in Threads, Step(t),
         NEW u \in Threads, u # t, InCritical(u)
  PROVE  UNCHANGED <<state, entry, ring, q_tail, q_len>>
<1>1. ~InCritical(t)
  BY DEF MutualExclusion
<1>2. ~Publish(t) /\ ~MarkFreed(t) /\ ~Entomb(t) /\ ~Push(t) /\ ~Replace(t)
  BY <1>1 DEF InCritical, CriticalPC, InsertPC, FreePC, Goto, Publish, MarkFreed, Entomb, Push, Replace
<1>3. \A i \in Idx : ~Fill(t, i)
  BY <1>1 DEF InCritical, CriticalPC, InsertPC, Goto, Fill
<1>4. QED
  BY <1>2, <1>3, Frame

(* How t gets where it is, and where it was. *)
LEMMA Arrivals ==
  ASSUME TypeOK, NEW t \in Threads, Step(t)
  PROVE  /\ pc'[t] = "publish" => \E i \in Idx : Fill(t, i)
         /\ pc'[t] = "inserted" => Publish(t)
         /\ pc'[t] = "mark" => \E i \in Idx : Seal(t, i)
         /\ pc'[t] = "push" => MarkFreed(t)
         /\ pc'[t] = "tomb" => Unmap(t)
         /\ pc'[t] = "replace" => Entomb(t)
         /\ pc'[t] \in {"free", "insert"} => Acquire(t)
         /\ pc'[t] = "wantInsert" => \E r \in Region : Map(t, r)
         /\ pc'[t] = "full" => Full(t)
         /\ pc'[t] = "wantFree" => \E h \in Handle : BeginFree(t, h)
         /\ pc'[t] = "miss" => Miss(t)
<1> USE DEF Goto
<1>0. pc \in [Threads -> PC]
  BY DEF TypeOK
<1>1. CASE Call(t)
  BY <1>0, <1>1 DEF Call, Map, BeginFree
<1>2. CASE Acquire(t)
  BY <1>0, <1>2 DEF Acquire
<1>3. CASE Alloc(t)
  BY <1>0, <1>3 DEF Alloc, Fill, Publish, Inserted, Full, GiveBack, Fallback
<1>4. CASE Dealloc(t)
  BY <1>0, <1>4 DEF Dealloc, Miss, SysFree, DoubleFreed, Seal, MarkFreed, Push, Unmap, Entomb, Replace, Pushed
<1>5. QED
  BY <1>1, <1>2, <1>3, <1>4 DEF Step

LEMMA EntriesStep ==
  ASSUME IInv, NEW t \in Threads, Step(t)
  PROVE  EntriesAreRegions'
<1> USE DEF EntriesAreRegions, Tracked, EMPTY, READY, FREED, TOMB
<1>0. EntriesAreRegions /\ HasRegion /\ FillInv /\ SealInv /\ PushInv
  BY DEF IInv
<1>1. state \in [Idx -> {EMPTY, READY, FREED, TOMB}] /\ entry \in [Idx -> Region \cup {None}]
  BY DEF IInv, TypeOK
<1>2. ASSUME NEW i \in Idx, Fill(t, i) PROVE EntriesAreRegions'
  BY <1>0, <1>1, <1>2 DEF Fill, Goto, HasRegion, InFlight
<1>3. ASSUME Publish(t) PROVE EntriesAreRegions'
  BY <1>0, <1>1, <1>3 DEF Publish, Goto, FillInv, HasRegion, InFlight
<1>4. ASSUME MarkFreed(t) PROVE EntriesAreRegions'
  BY <1>0, <1>1, <1>4 DEF MarkFreed, Goto, SealInv
<1>5. ASSUME Entomb(t) PROVE EntriesAreRegions'
  BY <1>0, <1>1, <1>5 DEF Entomb
<1>6. CASE UNCHANGED <<state, entry>>
  BY <1>0, <1>6
<1>7. QED
  BY <1>2, <1>3, <1>4, <1>5, <1>6, Frame

LEMMA HasRegionStep ==
  ASSUME IInv, NEW t \in Threads, Step(t)
  PROVE  HasRegion'
<1>0. HasRegion /\ TypeOK
  BY DEF IInv
<1>1. pc \in [Threads -> PC] /\ reg \in [Threads -> Region \cup {None}]
  BY DEF IInv, TypeOK
<1>2. ASSUME NEW u \in Threads, u # t, InFlight(u)' \/ pc'[u] = "inserted"
      PROVE  reg'[u] \in Region
  BY <1>0, <1>2, Others DEF HasRegion, InFlight
<1>3. ASSUME InFlight(t)' \/ pc'[t] = "inserted"
      PROVE  reg'[t] \in Region
  <2>1. CASE pc'[t] = "wantInsert"
    BY <1>0, <1>1, <2>1, Arrivals DEF Map
  <2>2. CASE pc'[t] = "insert"
    BY <1>0, <1>1, <2>2, Arrivals DEF Acquire, Goto, HasRegion, InFlight, locals
  <2>3. CASE pc'[t] = "publish"
    BY <1>0, <2>3, Arrivals DEF Fill, Goto, HasRegion, InFlight
  <2>4. CASE pc'[t] = "full"
    BY <1>0, <2>4, Arrivals DEF Full, Goto, HasRegion, InFlight, locals
  <2>5. CASE pc'[t] = "inserted"
    BY <1>0, <2>5, Arrivals DEF Publish, Goto, HasRegion, InFlight, locals
  <2>6. QED
    BY <1>3, <2>1, <2>2, <2>3, <2>4, <2>5 DEF InFlight
<1>4. QED
  BY <1>2, <1>3 DEF HasRegion

LEMMA HasPointerStep ==
  ASSUME IInv, NEW t \in Threads, Step(t)
  PROVE  HasPointer'
<1>0. HasPointer /\ TypeOK
  BY DEF IInv
<1>1. pc \in [Threads -> PC] /\ arg \in [Threads -> Handle \cup {None}]
  BY DEF IInv, TypeOK
<1>2. ASSUME NEW u \in Threads, u # t, pc'[u] \in {"wantFree", "free", "miss"}
      PROVE  arg'[u] \in Handle
  BY <1>0, <1>2, Others DEF HasPointer
<1>3. ASSUME pc'[t] \in {"wantFree", "free", "miss"}
      PROVE  arg'[t] \in Handle
  <2>1. CASE pc'[t] = "wantFree"
    BY <1>0, <1>1, <2>1, Arrivals DEF BeginFree
  <2>2. CASE pc'[t] = "free"
    BY <1>0, <1>1, <2>2, Arrivals DEF Acquire, Goto, HasPointer, locals
  <2>3. CASE pc'[t] = "miss"
    BY <1>0, <1>1, <2>3, Arrivals DEF Miss, Goto, HasPointer, locals
  <2>4. QED
    BY <1>3, <2>1, <2>2, <2>3
<1>4. QED
  BY <1>2, <1>3 DEF HasPointer

(* The pages of a slot in the table are mapped, sealed or not. *)
LEMMA HeldPages ==
  ASSUME IInv, NEW i \in Idx, Holding(i), NEW g \in Span[entry[i]]
  PROVE  prot[g] # "free"
BY DEF IInv, PagesStay

LEMMA ChainsStep ==
  ASSUME IInv, NEW t \in Threads, Step(t)
  PROVE  ChainsHold'
<1> USE DEF ChainsHold, Tracked, EMPTY, READY, FREED, TOMB
<1>0. ChainsHold /\ FillInv /\ SealInv
  BY DEF IInv
<1>1. state \in [Idx -> {EMPTY, READY, FREED, TOMB}] /\ entry \in [Idx -> Region \cup {None}]
  BY DEF IInv, TypeOK
<1>2. ASSUME NEW i \in Idx, Fill(t, i) PROVE ChainsHold'
  BY <1>0, <1>1, <1>2 DEF Fill, FirstFree, Before
<1>3. ASSUME Publish(t) PROVE ChainsHold'
  BY <1>0, <1>1, <1>3 DEF Publish, Goto, FillInv, Before
<1>4. ASSUME MarkFreed(t) PROVE ChainsHold'
  BY <1>0, <1>1, <1>4 DEF MarkFreed, Goto, SealInv, Before
<1>5. ASSUME Entomb(t) PROVE ChainsHold'
  BY <1>0, <1>1, <1>5 DEF Entomb, Before
<1>6. CASE UNCHANGED <<state, entry>>
  BY <1>0, <1>6 DEF Before
<1>7. QED
  BY <1>2, <1>3, <1>4, <1>5, <1>6, Frame

LEMMA FillStep ==
  ASSUME IInv, NEW t \in Threads, Step(t)
  PROVE  FillInv'
<1>0. TypeOK /\ MutualExclusion /\ FillInv
  BY DEF IInv
<1>1. entry \in [Idx -> Region \cup {None}] /\ at \in [Threads -> Idx]
  BY DEF IInv, TypeOK
<1>2. ASSUME NEW u \in Threads, u # t, pc'[u] = "publish"
      PROVE  /\ ~Tracked(at[u])'
             /\ entry'[at'[u]] = reg'[u]
             /\ \A j \in Before(User[reg[u]], at[u])' : Tracked(j)'
  <2>1. pc[u] = "publish" /\ at'[u] = at[u] /\ reg'[u] = reg[u]
    BY <1>0, <1>2, Others
  <2>2. InCritical(u)
    BY <2>1 DEF InCritical, CriticalPC, InsertPC
  <2>3. UNCHANGED <<state, entry>>
    BY <1>0, <1>2, <2>2, Foreign
  <2>4. QED
    BY <1>0, <2>1, <2>3 DEF FillInv, Tracked, Before
<1>3. ASSUME pc'[t] = "publish"
      PROVE  /\ ~Tracked(at[t])'
             /\ entry'[at'[t]] = reg'[t]
             /\ \A j \in Before(User[reg[t]], at[t])' : Tracked(j)'
  <2>1. PICK i \in Idx : Fill(t, i)
    BY <1>0, <1>3, Arrivals
  <2>2. at'[t] = i /\ reg' = reg /\ state' = state /\ entry'[i] = reg[t]
    BY <1>1, <2>1 DEF Fill
  <2>3. FirstFree(User[reg[t]], i)
    BY <2>1 DEF Fill
  <2>4. QED
    BY <2>2, <2>3 DEF FirstFree, Tracked, Before
<1>4. QED
  BY <1>2, <1>3 DEF FillInv

(* A region in flight was in flight before, or has just been mapped. *)
LEMMA InFlightMoves ==
  ASSUME TypeOK, NEW t \in Threads, Step(t), NEW u \in Threads, InFlight(u)'
  PROVE  \/ InFlight(u) /\ reg'[u] = reg[u]
         \/ u = t /\ \E r \in Region : Map(t, r) /\ reg'[u] = r
<1>0. reg \in [Threads -> Region \cup {None}]
  BY DEF TypeOK
<1>1. CASE u # t
  BY <1>1, Others DEF InFlight
<1>2. CASE u = t /\ pc'[t] = "wantInsert"
  BY <1>0, <1>2, Arrivals DEF Map
<1>3. CASE u = t /\ pc'[t] = "insert"
  BY <1>0, <1>3, Arrivals DEF Acquire, Goto, InFlight, locals, TypeOK
<1>4. CASE u = t /\ pc'[t] = "publish"
  BY <1>4, Arrivals DEF Fill, Goto, InFlight
<1>5. CASE u = t /\ pc'[t] = "full"
  BY <1>5, Arrivals DEF Full, Goto, InFlight, locals
<1>6. QED
  BY <1>1, <1>2, <1>3, <1>4, <1>5 DEF InFlight

(* The only way on from inside free and quarantine_push. *)
LEMMA Departures ==
  ASSUME NEW t \in Threads, Step(t)
  PROVE  /\ pc[t] = "mark" => MarkFreed(t)
         /\ pc[t] = "push" => Push(t) \/ Unmap(t)
         /\ pc[t] = "tomb" => Entomb(t)
         /\ pc[t] = "replace" => Replace(t)
BY DEF Step, Call, Alloc, Dealloc, Goto, Map, BeginFree, Acquire, Fill, Publish, Inserted, Full, GiveBack,
       Fallback, Miss, SysFree, DoubleFreed, Seal, MarkFreed, Push, Unmap, Entomb, Replace, Pushed

(* A tracked slot was tracked before and its fields have not changed, or   *)
(* it has just been published.                                             *)
LEMMA TrackedMoves ==
  ASSUME IInv, NEW t \in Threads, Step(t), NEW i \in Idx, Tracked(i)'
  PROVE  \/ Tracked(i) /\ entry'[i] = entry[i]
         \/ Publish(t) /\ i = at[t] /\ entry'[i] = reg[t] /\ reg[t] \in Region
<1> USE DEF Tracked, READY, FREED, TOMB
<1>0. state \in [Idx -> {EMPTY, READY, FREED, TOMB}] /\ entry \in [Idx -> Region \cup {None}]
  BY DEF IInv, TypeOK
<1>1. HasRegion /\ FillInv /\ SealInv
  BY DEF IInv
<1>2. ASSUME NEW j \in Idx, Fill(t, j) PROVE Tracked(i) /\ entry'[i] = entry[i]
  BY <1>0, <1>2 DEF Fill, FirstFree
<1>3. CASE Publish(t)
  BY <1>0, <1>1, <1>3 DEF Publish, Goto, FillInv, HasRegion, InFlight
<1>4. CASE MarkFreed(t)
  BY <1>0, <1>1, <1>4 DEF MarkFreed, Goto, SealInv
<1>5. CASE Entomb(t)
  BY <1>0, <1>5 DEF Entomb
<1>6. CASE UNCHANGED <<state, entry>>
  BY <1>6
<1>7. QED
  BY <1>2, <1>3, <1>4, <1>5, <1>6, Frame

LEMMA HoldingMoves ==
  ASSUME IInv, NEW t \in Threads, Step(t), NEW i \in Idx, Holding(i)'
  PROVE  \/ Holding(i) /\ entry'[i] = entry[i]
         \/ Publish(t) /\ i = at[t] /\ entry'[i] = reg[t] /\ reg[t] \in Region
<1>0. TypeOK /\ MutualExclusion
  BY DEF IInv
<1>1. Tracked(i)' /\ ~Dying(i)'
  BY DEF Holding
<1>2. ~Dying(i)
  <2>1. SUFFICES ASSUME i = Victim, NEW u \in Threads, pc[u] = "tomb" PROVE FALSE
    BY DEF Dying
  <2>2. CASE u = t
    <3>1. Entomb(t)
      BY <2>1, <2>2, Departures
    <3>2. ~Tracked(i)'
      BY <2>1, <3>1 DEF Entomb, Tracked, READY, FREED, TOMB, IInv, TypeOK
    <3>. QED
      BY <1>1, <3>2
  <2>3. CASE u # t
    <3>1. UNCHANGED <<ring, q_tail>>
      BY <1>0, <2>1, <2>3, Foreign DEF InCritical, CriticalPC, FreePC
    <3>2. pc'[u] = "tomb"
      BY <1>0, <2>1, <2>3, Others
    <3>. QED
      BY <1>1, <2>1, <3>1, <3>2 DEF Dying, Victim
  <2>4. QED
    BY <2>2, <2>3
<1>3. QED
  BY <1>1, <1>2, TrackedMoves DEF Holding

LEMMA OverlapStep ==
  ASSUME IInv, NEW t \in Threads, Step(t)
  PROVE  NoOverlap'
<1>0. TypeOK /\ MutualExclusion /\ NoOverlap /\ PagesStay
  BY DEF IInv
<1>1. ASSUME Publish(t)
      PROVE  InFlight(t) /\ ~InFlight(t)' /\ \A i \in Idx : ~Dying(i)
  <2>1. pc[t] = "publish" /\ pc'[t] = "inserted"
    BY <1>0, <1>1 DEF Publish, Goto, TypeOK
  <2>2. ASSUME NEW u \in Threads PROVE pc[u] # "tomb"
    BY <1>0, <2>1 DEF MutualExclusion, InCritical, CriticalPC, InsertPC, FreePC
  <2>3. QED
    BY <2>1, <2>2 DEF InFlight, Dying
<1>2. ASSUME NEW r \in Region, Map(t, r), NEW i \in Idx, Holding(i)
      PROVE  Apart(r, entry[i])
  BY <1>2, HeldPages DEF Map, Apart
<1>3. ASSUME NEW r \in Region, Map(t, r), NEW u \in Threads, InFlight(u)
      PROVE  Apart(r, reg[u])
  BY <1>0, <1>3 DEF Map, Apart, PagesStay
<1>4. ASSUME NEW i \in Idx, NEW j \in Idx, i # j, Tracked(i)', Tracked(j)'
      PROVE  Apart(entry[i], entry[j])'
  <2>1. CASE Tracked(i) /\ entry'[i] = entry[i] /\ Tracked(j) /\ entry'[j] = entry[j]
    BY <1>0, <1>4, <2>1 DEF NoOverlap, Apart
  <2>2. CASE Publish(t) /\ i = at[t] /\ entry'[i] = reg[t] /\ Tracked(j) /\ entry'[j] = entry[j]
    BY <1>0, <1>1, <2>2 DEF NoOverlap, Apart, Holding
  <2>3. CASE Publish(t) /\ j = at[t] /\ entry'[j] = reg[t] /\ Tracked(i) /\ entry'[i] = entry[i]
    BY <1>0, <1>1, <2>3 DEF NoOverlap, Apart, Holding
  <2>4. QED
    BY <1>4, <2>1, <2>2, <2>3, TrackedMoves
<1>5. ASSUME NEW u \in Threads, NEW i \in Idx, InFlight(u)', Holding(i)'
      PROVE  Apart(reg[u], entry[i])'
  <2>1. CASE InFlight(u) /\ reg'[u] = reg[u] /\ Holding(i) /\ entry'[i] = entry[i]
    BY <1>0, <2>1 DEF NoOverlap, Apart
  <2>2. CASE InFlight(u) /\ reg'[u] = reg[u] /\ Publish(t) /\ i = at[t] /\ entry'[i] = reg[t]
    BY <1>0, <1>1, <1>5, <2>2 DEF NoOverlap, Apart
  <2>3. ASSUME u = t, NEW r \in Region, Map(t, r), reg'[u] = r
        PROVE  Apart(reg[u], entry[i])'
    <3>1. ~Publish(t)
      BY <2>3 DEF Map, Publish, Goto
    <3>2. Holding(i) /\ entry'[i] = entry[i]
      BY <1>5, <3>1, HoldingMoves
    <3>. QED
      BY <1>2, <2>3, <3>2 DEF Apart
  <2>4. QED
    BY <1>0, <1>5, <2>1, <2>2, <2>3, HoldingMoves, InFlightMoves
<1>6. ASSUME NEW u \in Threads, NEW v \in Threads, u # v, InFlight(u)', InFlight(v)'
      PROVE  Apart(reg[u], reg[v])'
  <2>1. CASE InFlight(u) /\ reg'[u] = reg[u] /\ InFlight(v) /\ reg'[v] = reg[v]
    BY <1>0, <1>6, <2>1 DEF NoOverlap, Apart
  <2>2. CASE InFlight(u) /\ reg'[u] = reg[u] /\ \E r \in Region : Map(t, r) /\ reg'[v] = r
    BY <1>3, <2>2 DEF Apart
  <2>3. CASE InFlight(v) /\ reg'[v] = reg[v] /\ \E r \in Region : Map(t, r) /\ reg'[u] = r
    BY <1>3, <2>3 DEF Apart
  <2>4. QED
    BY <1>0, <1>6, <2>1, <2>2, <2>3, InFlightMoves
<1>7. QED
  BY <1>4, <1>5, <1>6 DEF NoOverlap

(* evict finds a FREED slot, other than the one that is being freed. *)
LEMMA VictimIsFreed ==
  ASSUME IInv, NEW t \in Threads, pc[t] \in {"push", "tomb"}, q_len = QCap
  PROVE  Victim \in Idx /\ state[Victim] = FREED /\ Victim # at[t]
<1>0. MutualExclusion /\ RingIsExact /\ ring \in [RingPos -> Idx] /\ q_tail \in RingPos
  BY DEF IInv, TypeOK
<1>1. Occupied(q_tail)
  BY <1>0, ConstantsAssumption DEF Occupied, RingDist, RingPos
<1>2. ~Replacing(q_tail)
  BY <1>0 DEF Replacing, MutualExclusion, InCritical, CriticalPC, FreePC
<1>3. state[Victim] = FREED /\ ~Pending(Victim)
  BY <1>0, <1>1, <1>2 DEF RingIsExact, Victim
<1>4. QED
  BY <1>0, <1>3 DEF Pending, Victim

LEMMA VictimIsHeld ==
  ASSUME IInv, NEW t \in Threads, Unmap(t)
  PROVE  Victim \in Idx /\ state[Victim] = FREED /\ Holding(Victim)
<1>1. pc[t] = "push" /\ q_len = QCap
  BY DEF Unmap, Goto
<1>2. \A u \in Threads : pc[u] # "tomb"
  BY <1>1 DEF IInv, MutualExclusion, InCritical, CriticalPC, FreePC
<1>3. QED
  BY <1>1, <1>2, VictimIsFreed DEF Holding, Tracked, Dying

(* Only munmap takes pages away, and those of no other region. *)
LEMMA PagesStayStep ==
  ASSUME IInv, NEW t \in Threads, Step(t)
  PROVE  PagesStay'
<1>0. /\ TypeOK /\ NoOverlap /\ MutualExclusion /\ PagesStay
      /\ EntriesAreRegions /\ HasRegion /\ FillInv
  BY DEF IInv
<1>a. prot \in [Page -> {"free", "mapped", "sealed"}] /\ Span \in [Region -> SUBSET Page]
  BY SpanFacts DEF IInv, TypeOK
<1>1. ASSUME NEW r \in Region, \A g \in Span[r] : prot[g] # "free",
             GiveBack(t) => Apart(reg[t], r),
             Unmap(t) => Apart(entry[Victim], r)
      PROVE  \A g \in Span[r] : prot'[g] # "free"
  <2>1. SUFFICES ASSUME NEW g \in Span[r] PROVE prot'[g] # "free"
    OBVIOUS
  <2>2. g \in Page /\ prot[g] # "free"
    BY <1>1, <1>a
  <2>3. CASE UNCHANGED prot
    BY <2>2, <2>3
  <2>4. ASSUME NEW q \in Region, Map(t, q) PROVE prot'[g] # "free"
    BY <2>2, <2>4 DEF Map, Protect
  <2>5. CASE GiveBack(t)
    BY <1>1, <2>2, <2>5 DEF GiveBack, Protect, Apart
  <2>6. ASSUME NEW i \in Idx, Seal(t, i) PROVE prot'[g] # "free"
    BY <1>0, <2>2, <2>6, SealKeeps
  <2>7. CASE Unmap(t)
    BY <1>1, <2>2, <2>7 DEF Unmap, Protect, Apart
  <2>8. QED
    BY <2>3, <2>4, <2>5, <2>6, <2>7, Frame
<1>2. ASSUME NEW u \in Threads, InFlight(u)'
      PROVE  \A g \in (Span[reg[u]])' : prot'[g] # "free"
  <2>1. CASE u = t /\ \E r \in Region : Map(t, r) /\ reg'[u] = r
    BY <2>1, <1>a DEF Map, Protect
  <2>2. CASE InFlight(u) /\ reg'[u] = reg[u]
    <3>1. reg[u] \in Region /\ \A g \in Span[reg[u]] : prot[g] # "free"
      BY <1>0, <2>2 DEF PagesStay, HasRegion
    <3>2. ASSUME GiveBack(t) PROVE Apart(reg[t], reg[u])
      <4>1. u # t
        BY <1>0, <1>2, <3>2 DEF GiveBack, Goto, InFlight, TypeOK
      <4>2. QED
        BY <1>0, <2>2, <3>2, <4>1 DEF NoOverlap, GiveBack, Goto, InFlight
    <3>3. ASSUME Unmap(t) PROVE Apart(entry[Victim], reg[u])
      BY <1>0, <2>2, <3>3, VictimIsHeld DEF NoOverlap, Apart
    <3>4. \A g \in Span[reg[u]] : prot'[g] # "free"
      BY <1>1, <3>1, <3>2, <3>3
    <3>5. QED
      BY <2>2, <3>4
  <2>3. QED
    BY <1>0, <1>2, <2>1, <2>2, InFlightMoves
<1>3. ASSUME NEW i \in Idx, Holding(i)'
      PROVE  \A g \in (Span[entry[i]])' : prot'[g] # "free"
  <2>1. CASE Publish(t) /\ i = at[t] /\ entry'[i] = reg[t] /\ reg[t] \in Region
    BY <1>0, <2>1 DEF Publish, Goto, InFlight, PagesStay, osVars
  <2>2. CASE Holding(i) /\ entry'[i] = entry[i]
    <3>1. entry[i] \in Region /\ \A g \in Span[entry[i]] : prot[g] # "free"
      BY <1>0, <2>2 DEF PagesStay, EntriesAreRegions, Holding
    <3>2. ASSUME GiveBack(t) PROVE Apart(reg[t], entry[i])
      BY <1>0, <2>2, <3>2 DEF NoOverlap, GiveBack, Goto, InFlight
    <3>3. ASSUME Unmap(t) PROVE Apart(entry[Victim], entry[i])
      <4>1. Victim \in Idx /\ Tracked(Victim)
        BY <3>3, VictimIsHeld DEF Holding
      <4>2. Victim # i
        <5>1. pc'[t] = "tomb" /\ Victim' = Victim
          BY <1>0, <3>3 DEF Unmap, Goto, Victim, ringVars, TypeOK
        <5>2. QED
          BY <1>3, <5>1 DEF Holding, Dying
      <4>3. QED
        BY <1>0, <2>2, <4>1, <4>2 DEF NoOverlap, Holding
    <3>4. \A g \in Span[entry[i]] : prot'[g] # "free"
      BY <1>1, <3>1, <3>2, <3>3
    <3>5. QED
      BY <2>2, <3>4
  <2>3. QED
    BY <1>3, <2>1, <2>2, HoldingMoves
<1>4. QED
  BY <1>2, <1>3 DEF PagesStay

LEMMA SealStep ==
  ASSUME IInv, NEW t \in Threads, Step(t)
  PROVE  SealInv'
<1>0. TypeOK /\ MutualExclusion /\ SealInv
  BY DEF IInv
<1>1. at \in [Threads -> Idx]
  BY DEF IInv, TypeOK
<1>2. ASSUME NEW u \in Threads, u # t, pc'[u] = "mark" PROVE state'[at'[u]] = READY
  <2>1. pc[u] = "mark" /\ at'[u] = at[u]
    BY <1>0, <1>2, Others
  <2>2. state' = state
    BY <1>0, <1>2, <2>1, Foreign DEF InCritical, CriticalPC, FreePC
  <2>3. QED
    BY <1>0, <2>1, <2>2 DEF SealInv
<1>3. ASSUME pc'[t] = "mark" PROVE state'[at'[t]] = READY
  BY <1>0, <1>1, <1>3, Arrivals DEF Seal, table
<1>4. QED
  BY <1>2, <1>3 DEF SealInv

LEMMA PushStep ==
  ASSUME IInv, NEW t \in Threads, Step(t)
  PROVE  PushInv'
<1> DEFINE P(u) == /\ pc[u] \in {"push", "tomb", "replace"} => state[at[u]] = FREED
                   /\ pc[u] \in {"tomb", "replace"} => q_len = QCap
                   /\ pc[u] = "replace" => state[Victim] = TOMB
<1>0. TypeOK /\ MutualExclusion /\ PushInv /\ SealInv
  BY DEF IInv
<1>1. at \in [Threads -> Idx] /\ state \in [Idx -> {EMPTY, READY, FREED, TOMB}]
  BY DEF IInv, TypeOK
<1>2. ASSUME NEW u \in Threads, u # t PROVE P(u)'
  <2>1. pc'[u] = pc[u] /\ at'[u] = at[u]
    BY <1>0, <1>2, Others
  <2>2. CASE pc[u] \in {"push", "tomb", "replace"}
    <3>1. UNCHANGED <<state, ring, q_tail, q_len>>
      BY <1>0, <1>2, <2>2, Foreign DEF InCritical, CriticalPC, FreePC
    <3>2. QED
      BY <1>0, <2>1, <3>1 DEF PushInv, Victim
  <2>3. QED
    BY <2>1, <2>2
<1>3. CASE pc'[t] = "push"
  <2>1. MarkFreed(t)
    BY <1>0, <1>3, Arrivals
  <2>2. P(t)'
    BY <1>1, <1>3, <2>1 DEF MarkFreed, locals
  <2>3. QED
    BY <1>2, <2>2 DEF PushInv
<1>4. CASE pc'[t] = "tomb"
  <2>1. Unmap(t)
    BY <1>0, <1>4, Arrivals
  <2>2. P(t)'
    BY <1>0, <1>4, <2>1 DEF Unmap, Goto, PushInv, locals, table, ringVars
  <2>3. QED
    BY <1>2, <2>2 DEF PushInv
<1>5. CASE pc'[t] = "replace"
  <2>1. Entomb(t)
    BY <1>0, <1>5, Arrivals
  <2>2. pc[t] = "tomb" /\ q_len = QCap /\ state[at[t]] = FREED
    BY <1>0, <2>1 DEF Entomb, Goto, PushInv
  <2>3. Victim \in Idx /\ Victim # at[t]
    BY <2>2, VictimIsFreed
  <2>4. P(t)'
    BY <1>1, <1>5, <2>1, <2>2, <2>3 DEF Entomb, Victim, locals, ringVars
  <2>5. QED
    BY <1>2, <2>4 DEF PushInv
<1>6. CASE pc'[t] \notin {"push", "tomb", "replace"}
  <2>1. P(t)'
    BY <1>6
  <2>2. QED
    BY <1>2, <2>1 DEF PushInv
<1>7. QED
  BY <1>3, <1>4, <1>5, <1>6

(* A region that is being evicted is not READY. *)
LEMMA ReadyIsHeld ==
  ASSUME IInv, NEW i \in Idx, state[i] = READY
  PROVE  Holding(i)
<1>1. SUFFICES ASSUME NEW u \in Threads, pc[u] = "tomb", i = Victim PROVE FALSE
  BY DEF Holding, Tracked, Dying
<1>2. q_len = QCap
  BY <1>1 DEF IInv, PushInv
<1>3. QED
  BY <1>1, <1>2, VictimIsFreed DEF READY, FREED

(* Where quarantine_push appends, and what the ring holds then. *)
LEMMA PushPosition ==
  ASSUME TypeOK, NEW t \in Threads, Push(t)
  PROVE  LET p == (q_tail + q_len) % QCap
         IN  /\ p \in RingPos
             /\ ~Occupied(p)
             /\ \A k \in RingPos : Occupied(k)' <=> Occupied(k) \/ k = p
<1> DEFINE p == (q_tail + q_len) % QCap
<1>1. QCap \in Nat \ {0} /\ q_tail \in 0..(QCap - 1) /\ q_len \in 0..(QCap - 1)
  BY ConstantsAssumption DEF TypeOK, Push, RingPos
<1>2. p = IF q_tail + q_len < QCap THEN q_tail + q_len ELSE q_tail + q_len - QCap
  BY <1>1, ModSum
<1>3. q_tail' = q_tail /\ q_len' = q_len + 1
  BY DEF Push
<1> HIDE DEF p
<1>4. p \in 0..(QCap - 1) /\ ~Occupied(p)
  BY <1>1, <1>2 DEF Occupied, RingDist
<1>5. ASSUME NEW k \in 0..(QCap - 1) PROVE Occupied(k)' <=> Occupied(k) \/ k = p
  BY <1>1, <1>2, <1>3 DEF Occupied, RingDist
<1>6. QED
  BY <1>4, <1>5 DEF RingPos, p

(* While t is inside quarantine_push, its slot is the only one pending. *)
LEMMA PendingIs ==
  ASSUME TypeOK, MutualExclusion, NEW t \in Threads, InCritical(t), NEW i \in Idx
  PROVE  Pending(i) <=> pc[t] \in {"push", "tomb", "replace"} /\ at[t] = i
BY DEF Pending, MutualExclusion, InCritical, CriticalPC, FreePC

LEMMA ReplacingIs ==
  ASSUME TypeOK, MutualExclusion, NEW t \in Threads, InCritical(t), NEW k \in RingPos
  PROVE  Replacing(k) <=> pc[t] = "replace" /\ k = q_tail
BY DEF Replacing, MutualExclusion, InCritical, CriticalPC, FreePC

LEMMA RingStep ==
  ASSUME IInv, NEW t \in Threads, Step(t)
  PROVE  RingIsExact'
<1>0. /\ TypeOK /\ TypeOK'
      /\ MutualExclusion /\ MutualExclusion'
      /\ RingIsExact /\ PushInv /\ SealInv /\ FillInv
  BY TypeStep, MutexStep DEF IInv
<1>1. /\ state \in [Idx -> {EMPTY, READY, FREED, TOMB}]
      /\ at \in [Threads -> Idx] /\ at' \in [Threads -> Idx]
      /\ ring \in [RingPos -> Idx] /\ ring' \in [RingPos -> Idx]
      /\ q_tail \in RingPos /\ q_len \in 0..QCap
      /\ pc \in [Threads -> PC]
  BY <1>0 DEF TypeOK
<1>2. CASE Publish(t)
  <2>1. InCritical(t) /\ pc[t] = "publish" /\ InCritical(t)' /\ pc'[t] = "inserted" /\ state[at[t]] # FREED
    BY <1>0, <1>1, <1>2 DEF Publish, Goto, InCritical, CriticalPC, InsertPC, FillInv, Tracked
  <2>2. \A i \in Idx : ~Pending(i)
    BY <1>0, <2>1, PendingIs
  <2>3. \A i \in Idx : ~Pending(i)'
    BY <2>1, <1>0 DEF Pending, MutualExclusion, InCritical, CriticalPC, FreePC
  <2>4. \A k \in RingPos : ~Replacing(k) /\ (Occupied(k)' <=> Occupied(k))
    BY <1>0, <1>2, <2>1, ReplacingIs DEF Publish, Occupied, RingDist, ringVars
  <2>5. \A i \in Idx : state'[i] = FREED <=> state[i] = FREED
    BY <1>1, <1>2, <2>1 DEF Publish, READY, FREED
  <2>6. QED
    BY <1>0, <1>1, <1>2, <2>2, <2>3, <2>4, <2>5 DEF RingIsExact, Publish, ringVars
<1>3. CASE MarkFreed(t)
  <2>1. /\ InCritical(t) /\ pc[t] = "mark" /\ InCritical(t)' /\ pc'[t] = "push"
        /\ state[at[t]] # FREED /\ at' = at
    BY <1>0, <1>1, <1>3 DEF MarkFreed, Goto, InCritical, CriticalPC, FreePC, SealInv, READY, FREED, locals
  <2>2. \A i \in Idx : ~Pending(i)
    BY <1>0, <2>1, PendingIs
  <2>3. \A i \in Idx : Pending(i)' <=> i = at[t]
    BY <1>0, <2>1 DEF Pending, MutualExclusion, InCritical, CriticalPC, FreePC
  <2>4. \A k \in RingPos : ~Replacing(k) /\ (Occupied(k)' <=> Occupied(k))
    BY <1>0, <1>3, <2>1, ReplacingIs DEF MarkFreed, Occupied, RingDist, ringVars
  <2>5. \A i \in Idx : state'[i] = FREED <=> state[i] = FREED \/ i = at[t]
    BY <1>1, <1>3 DEF MarkFreed
  <2>6. QED
    BY <1>0, <1>1, <1>3, <2>1, <2>2, <2>3, <2>4, <2>5 DEF RingIsExact, MarkFreed, ringVars
<1>4. CASE Push(t)
  <2> DEFINE p == (q_tail + q_len) % QCap
  <2>1. /\ InCritical(t) /\ pc[t] = "push" /\ InCritical(t)' /\ pc'[t] = "pushed"
        /\ state[at[t]] = FREED
    BY <1>0, <1>1, <1>4 DEF Push, Goto, InCritical, CriticalPC, FreePC, PushInv
  <2>2. \A i \in Idx : Pending(i) <=> i = at[t]
    BY <1>0, <2>1, PendingIs
  <2>3. \A i \in Idx : ~Pending(i)'
    BY <1>0, <2>1 DEF Pending, MutualExclusion, InCritical, CriticalPC, FreePC
  <2>4. \A k \in RingPos : ~Replacing(k)
    BY <1>0, <2>1, ReplacingIs
  <2>5. p \in RingPos /\ ~Occupied(p) /\ \A k \in RingPos : Occupied(k)' <=> Occupied(k) \/ k = p
    BY <1>0, <1>4, PushPosition
  <2>6. state' = state /\ ring' = [ring EXCEPT ![p] = at[t]]
    BY <1>4 DEF Push, table
  <2> HIDE DEF p
  <2>7. QED
    BY <1>0, <1>1, <2>1, <2>2, <2>3, <2>4, <2>5, <2>6 DEF RingIsExact
<1>5. CASE Entomb(t)
  <2>1. /\ InCritical(t) /\ pc[t] = "tomb" /\ InCritical(t)' /\ pc'[t] = "replace"
        /\ at' = at /\ q_len = QCap
    BY <1>0, <1>1, <1>5 DEF Entomb, Goto, InCritical, CriticalPC, FreePC, PushInv, locals
  <2>2. \A i \in Idx : Pending(i)' <=> Pending(i)
    <3>1. \A i \in Idx : Pending(i) <=> i = at[t]
      BY <1>0, <2>1, PendingIs
    <3>2. \A i \in Idx : Pending(i)' <=> i = at[t]
      BY <1>0, <2>1 DEF Pending, MutualExclusion, InCritical, CriticalPC, FreePC
    <3>3. QED
      BY <3>1, <3>2
  <2>3. \A k \in RingPos : Replacing(k)' <=> k = q_tail
    BY <1>0, <1>5, <2>1 DEF Entomb, Replacing, ringVars
  <2>4. \A k \in RingPos : ~Replacing(k) /\ Occupied(k) /\ Occupied(k)'
    BY <1>0, <1>1, <1>5, <2>1, ConstantsAssumption, ReplacingIs DEF Entomb, Occupied, RingDist, RingPos, ringVars
  <2>5. \A i \in Idx : state'[i] = FREED <=> state[i] = FREED /\ i # Victim
    BY <1>1, <1>5 DEF Entomb, Victim, FREED, TOMB
  <2>6. QED
    BY <1>0, <1>1, <1>5, <2>2, <2>3, <2>4, <2>5 DEF RingIsExact, Entomb, Victim, ringVars
<1>6. CASE Replace(t)
  <2>1. /\ InCritical(t) /\ pc[t] = "replace" /\ InCritical(t)' /\ pc'[t] = "pushed"
        /\ q_len = QCap /\ state[at[t]] = FREED /\ state[Victim] = TOMB
    BY <1>0, <1>1, <1>6 DEF Replace, Goto, InCritical, CriticalPC, FreePC, PushInv
  <2>2. \A i \in Idx : Pending(i) <=> i = at[t]
    BY <1>0, <2>1, PendingIs
  <2>3. \A i \in Idx : ~Pending(i)'
    BY <1>0, <2>1 DEF Pending, MutualExclusion, InCritical, CriticalPC, FreePC
  <2>4. \A k \in RingPos : Replacing(k) <=> k = q_tail
    BY <1>0, <2>1, ReplacingIs
  <2>5. \A k \in RingPos : Occupied(k) /\ Occupied(k)'
    <3>1. q_tail' \in RingPos /\ q_len' = QCap
      BY <1>0, <1>6, <2>1 DEF Replace, TypeOK
    <3>2. QCap \in Nat \ {0}
      BY ConstantsAssumption
    <3>3. ASSUME NEW k \in 0..(QCap - 1) PROVE RingDist(k) < QCap /\ RingDist(k)' < QCap
      BY <1>1, <3>1, <3>2, DistRange DEF RingDist, RingPos
    <3>4. QED
      BY <2>1, <3>1, <3>3 DEF Occupied, RingPos
  <2>6. state' = state /\ ring' = [ring EXCEPT ![q_tail] = at[t]]
    BY <1>6 DEF Replace, table
  <2>7. QED
    BY <1>0, <1>1, <2>1, <2>2, <2>3, <2>4, <2>5, <2>6 DEF RingIsExact, Victim, FREED, TOMB
<1>7. CASE /\ UNCHANGED <<state, ring, q_tail, q_len>>
           /\ ~Publish(t) /\ ~MarkFreed(t) /\ ~Entomb(t) /\ ~Push(t) /\ ~Replace(t)
  <2>1. /\ pc'[t] \in {"push", "tomb", "replace"} <=> pc[t] \in {"push", "tomb", "replace"}
        /\ pc'[t] = "replace" <=> pc[t] = "replace"
        /\ pc'[t] \in {"push", "tomb", "replace"} => at'[t] = at[t]
    BY <1>0, <1>1, <1>7, Arrivals, Departures DEF Unmap, Goto, locals
  <2>2. \A i \in Idx : Pending(i)' <=> Pending(i)
    BY <1>0, <2>1, Others DEF Pending
  <2>3. \A k \in RingPos : (Replacing(k)' <=> Replacing(k)) /\ (Occupied(k)' <=> Occupied(k))
    BY <1>0, <1>7, <2>1, Others DEF Replacing, Occupied, RingDist
  <2>4. QED
    BY <1>0, <1>1, <1>7, <2>2, <2>3 DEF RingIsExact
<1>8. QED
  BY <1>2, <1>3, <1>4, <1>5, <1>6, <1>7, Frame

LEMMA InitIInv ==
  ASSUME Init
  PROVE  IInv
<1> USE DEF Init
<1>1. TypeOK
  <2>1. 0 \in Idx /\ 0 \in RingPos /\ 0 \in 0..QCap /\ 0 \in 0..(Wrap - 1) /\ "idle" \in PC
    BY ConstantsAssumption DEF Idx, RingPos, PC
  <2>2. /\ state \in [Idx -> {EMPTY, READY, FREED, TOMB}]
        /\ entry \in [Idx -> Region \cup {None}]
        /\ ring \in [RingPos -> Idx]
        /\ prot \in [Page -> {"free", "mapped", "sealed"}]
    BY <2>1
  <2>3. /\ pc \in [Threads -> PC]
        /\ reg \in [Threads -> Region \cup {None}]
        /\ arg \in [Threads -> Handle \cup {None}]
        /\ at \in [Threads -> Idx]
    BY <2>1
  <2>4. sys \in SUBSET SysPtr /\ owned \in SUBSET Handle /\ stale \in SUBSET Handle
    OBVIOUS
  <2>5. q_tail \in RingPos /\ q_len \in 0..QCap /\ live \in Int /\ evictions \in 0..(Wrap - 1)
    BY <2>1
  <2>6. held \in BOOLEAN /\ full_warned \in BOOLEAN
    OBVIOUS
  <2>. HIDE DEF Init
  <2>7. QED
    BY <2>2, <2>3, <2>4, <2>5, <2>6 DEF TypeOK
<1>2. MutualExclusion
  BY DEF MutualExclusion, InCritical, CriticalPC, InsertPC, FreePC
<1>3. EntriesAreRegions /\ PagesStay /\ ChainsHold
  BY DEF EntriesAreRegions, PagesStay, ChainsHold, Holding, InFlight, Tracked, EMPTY, READY, FREED
<1>4. HasRegion /\ HasPointer /\ FillInv /\ SealInv /\ PushInv
  BY DEF HasRegion, HasPointer, FillInv, SealInv, PushInv, InFlight
<1>5. NoOverlap
  BY DEF NoOverlap, InFlight, Tracked, EMPTY, READY, FREED
<1>6. RingIsExact
  <2>1. \A k \in RingPos : ~Occupied(k)
    BY ConstantsAssumption DEF Occupied, RingDist, RingPos
  <2>2. QED
    BY <2>1 DEF RingIsExact, EMPTY, FREED
<1>7. QED
  BY <1>1, <1>2, <1>3, <1>4, <1>5, <1>6 DEF IInv

LEMMA StutterIInv ==
  ASSUME IInv, UNCHANGED vars
  PROVE  IInv'
<1> USE DEF IInv, vars
<1>1. TypeOK'
  BY DEF TypeOK
<1>2. MutualExclusion' /\ EntriesAreRegions' /\ ChainsHold'
  BY DEF MutualExclusion, InCritical, EntriesAreRegions, ChainsHold, Tracked, Before
<1>3. HasRegion' /\ HasPointer' /\ FillInv' /\ SealInv' /\ PushInv'
  BY DEF HasRegion, HasPointer, FillInv, SealInv, PushInv, InFlight, Tracked, Before, Victim
<1>4. NoOverlap' /\ PagesStay'
  BY DEF NoOverlap, PagesStay, InFlight, Tracked, Holding, Dying, Apart, Victim
<1>5. RingIsExact'
  BY DEF RingIsExact, Occupied, RingDist, Pending, Replacing
<1>6. QED
  BY <1>1, <1>2, <1>3, <1>4, <1>5

LEMMA NextIInv ==
  ASSUME IInv, [Next]_vars
  PROVE  IInv'
<1>1. ASSUME NEW t \in Threads, Step(t) PROVE IInv'
  <2>1. TypeOK' /\ MutualExclusion'
    BY <1>1, TypeStep, MutexStep DEF IInv
  <2>2. EntriesAreRegions' /\ HasRegion' /\ HasPointer' /\ FillInv' /\ SealInv' /\ PushInv'
    BY <1>1, EntriesStep, HasRegionStep, HasPointerStep, FillStep, SealStep, PushStep
  <2>3. NoOverlap' /\ PagesStay' /\ RingIsExact' /\ ChainsHold'
    BY <1>1, OverlapStep, PagesStayStep, RingStep, ChainsStep
  <2>4. QED
    BY <2>1, <2>2, <2>3 DEF IInv
<1>2. QED
  BY <1>1, StutterIInv DEF Next

(* The inductive invariant holds of every behaviour, whatever the number   *)
(* of threads, slots and regions and the length of the quarantine.         *)
THEOREM Invariance == Spec => []IInv
<1>1. Init => IInv
  BY InitIInv
<1>2. IInv /\ [Next]_vars => IInv'
  BY NextIInv
<1>3. QED
  BY <1>1, <1>2, PTL DEF Spec

(* Every variable of the registry keeps its type: in particular the ring   *)
(* only holds slot numbers and its positions stay inside the quarantine.   *)
THEOREM TypeCorrect == Spec => []TypeOK
<1>1. IInv => TypeOK
  BY DEF IInv
<1>2. QED
  BY <1>1, Invariance, PTL

(* At most one thread is between SpinLock::lock and the drop of the guard, *)
(* and the lock is held exactly then.                                      *)
THEOREM OneWriter == Spec => []MutualExclusion
<1>1. IInv => MutualExclusion
  BY DEF IInv
<1>2. QED
  BY <1>1, Invariance, PTL

(* No two regions in the table or in flight ever share a page.             *)
THEOREM RegionsAreDisjoint == Spec => []NoOverlap
<1>1. IInv => NoOverlap
  BY DEF IInv
<1>2. QED
  BY <1>1, Invariance, PTL

(* The ring holds the FREED slots, each once: evict never takes a live     *)
(* region, nor the same one twice.                                         *)
THEOREM QuarantineIsExact == Spec => []RingIsExact
<1>1. IInv => RingIsExact
  BY DEF IInv
<1>2. QED
  BY <1>1, Invariance, PTL

LEMMA LookupFromIInv ==
  ASSUME IInv
  PROVE  LookupFinds
<1>1. TypeOK /\ NoOverlap /\ EntriesAreRegions /\ ChainsHold
  BY DEF IInv
<1>2. SUFFICES ASSUME NEW i \in Idx, Tracked(i)
               PROVE  Found(User[entry[i]], i)
  BY DEF LookupFinds
<1>3. ASSUME NEW j \in Idx, j # i, Tracked(j)
      PROVE  User[entry[j]] # User[entry[i]]
  BY <1>1, <1>2, <1>3, GeometryAssumption DEF NoOverlap, Apart, EntriesAreRegions
<1>4. i \notin Before(User[entry[i]], i)
  <2>1. entry[i] \in Region /\ User[entry[i]] \in Ptr
    BY <1>1, <1>2 DEF EntriesAreRegions, Ptr
  <2>2. Hash[User[entry[i]]] \in Int /\ i \in Int /\ Cap \in Int
    BY <2>1, HashAssumption, ConstantsAssumption DEF Idx
  <2>3. Dist(Hash[User[entry[i]]], i) \in Int
    BY <2>2 DEF Dist
  <2>4. QED
    BY <2>3 DEF Before
<1>5. QED
  BY <1>1, <1>2, <1>3, <1>4 DEF Found, ChainsHold, Before

(* find_locked finds every region in the table: no sequence of inserts,    *)
(* frees and evictions cuts a probe chain or hides a slot behind another.  *)
THEOREM LookupIsComplete == Spec => []LookupFinds
<1>1. IInv => LookupFinds
  BY LookupFromIInv
<1>2. QED
  BY <1>1, Invariance, PTL
=============================================================================
