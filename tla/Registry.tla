------------------------------ MODULE Registry ------------------------------
(***************************************************************************)
(* The allocation registry (src/registry.rs) and the two entry points that *)
(* write it (coffin_alloc and coffin_dealloc of src/lib.rs), run by any    *)
(* number of threads.                                                      *)
(*                                                                         *)
(* The registry is an open-addressed table of slots and a ring of the      *)
(* slots in quarantine.  One spinlock serialises its writers; mmap and the *)
(* System allocator are used outside the lock, munmap and mprotect of a    *)
(* freed region inside it.                                                 *)
(*                                                                         *)
(* A region stands for one mmap with its guard page: base, length, user    *)
(* pointer and guard address are functions of it.  dealloc is not told the *)
(* region, but a pointer and a layout, from which it computes the length   *)
(* again; a program that frees a pointer once more after its address has   *)
(* been given to another region passes the wrong one.                      *)
(*                                                                         *)
(* An action is one step that another thread can observe.  What the lock   *)
(* holder reads without writing (a probe sequence) is part of the step     *)
(* that follows it, and the fields of a slot are written in one step: what *)
(* lock-free readers may see of them is the subject of Postmortem.tla.     *)
(***************************************************************************)
EXTENDS Integers, Sequences, FiniteSets

CONSTANTS
  Threads,      \* threads of the process
  Region,       \* mappings mmap may return
  Page,         \* pages of the address space
  Base,         \* Base[r]: the first page of region r
  Total,        \* Total[r]: its number of pages, guard page included
  User,         \* User[r]: the user pointer into region r
  SysPtr,       \* pointers the System allocator may return
  Hash,         \* Hash[p]: hash(p) & mask, the first slot probed for p
  Cap,          \* number of slots
  QCap,         \* COFFIN_QUARANTINE
  Wrap,         \* the eviction counter counts modulo Wrap (2^64 in the code)
  DoubleFree,   \* whether the program frees a pointer more than once
  None          \* no region, no pointer

Idx == 0..(Cap - 1)

RingPos == 0..(QCap - 1)

Span == [r \in Region |-> Base[r]..(Base[r] + Total[r] - 1)]

Ptr == {User[r] : r \in Region} \cup SysPtr

(* What the program knows of an allocation is its pointer and its layout.  *)
Handle == Region \cup SysPtr

Address(h) == IF h \in SysPtr THEN h ELSE User[h]

EMPTY == "empty"
READY == "ready"
FREED == "freed"
TOMB  == "tomb"

ASSUME ConstantsAssumption ==
  /\ Cap \in Nat \ {0}
  /\ QCap \in Nat \ {0}
  /\ Wrap \in Nat \ {0}
  /\ DoubleFree \in BOOLEAN
  /\ None \notin Region
  /\ None \notin Ptr
  /\ Region \cap SysPtr = {}

(* A region contains its user pointer: two regions with the same one share *)
(* the page it points into.                                                *)
ASSUME GeometryAssumption ==
  /\ Page \subseteq Nat
  /\ Base \in [Region -> Page]
  /\ Total \in [Region -> Nat \ {0}]
  /\ \A r \in Region : Span[r] \subseteq Page
  /\ DOMAIN User = Region
  /\ \A r, s \in Region : User[r] = User[s] => Span[r] \cap Span[s] # {}
  /\ \A r \in Region : User[r] \notin SysPtr

ASSUME HashAssumption == Hash \in [Ptr -> Idx]

VARIABLES
  state,        \* Region::state of each slot
  entry,        \* the region the other fields of each slot describe
  ring,         \* Arena::ring
  q_tail,       \* Arena::q_tail
  q_len,        \* Arena::q_len
  held,         \* SpinLock::held
  live,         \* Arena::live
  evictions,    \* Arena::evictions
  full_warned,  \* Arena::full_warned
  prot,         \* what the page tables say of each page
  sys,          \* pointers the System allocator has handed out
  owned,        \* allocations the program holds
  stale,        \* allocations it has freed and may free once more
  pc,           \* where each thread is
  reg,          \* the region each thread has mapped and not yet published
  arg,          \* the allocation whose pointer and layout each thread frees
  at            \* the slot each thread is working on

table    == <<state, entry>>
ringVars == <<ring, q_tail, q_len>>
osVars   == <<prot, sys>>
client   == <<owned, stale>>
locals   == <<reg, arg, at>>

vars == <<state, entry, ring, q_tail, q_len, held, live, evictions,
          full_warned, prot, sys, owned, stale, pc, reg, arg, at>>

(* Where a thread holds the spinlock. *)
InsertPC   == {"insert", "publish", "inserted"}
FreePC     == {"free", "mark", "push", "tomb", "replace", "pushed"}
CriticalPC == InsertPC \cup FreePC

PC == {"idle", "wantInsert", "full", "fallback", "wantFree", "miss"} \cup CriticalPC

InCritical(t) == pc[t] \in CriticalPC

-----------------------------------------------------------------------------
(* Probing. *)

Tracked(i) == state[i] \in {READY, FREED}

(* How many slots are probed before slot i, from slot h on. *)
Dist(h, i) == IF i >= h THEN i - h ELSE i - h + Cap

(* The slots probed before slot i for pointer p. *)
Before(p, i) == {j \in Idx : Dist(Hash[p], j) < Dist(Hash[p], i)}

(* Mutant: insert takes over the slot of a region in quarantine. *)
FirstFree_ReuseFreed(p, i) ==
  /\ state[i] # READY
  /\ \A j \in Before(p, i) : state[j] = READY

(* insert stops at slot i: the first one of the probe that is free. *)
FirstFree(p, i) ==
  /\ ~Tracked(i)
  /\ \A j \in Before(p, i) : Tracked(j)

(* Mutant: the lookup stops at tombstones. *)
Found_StopAtTomb(p, i) ==
  /\ Tracked(i)
  /\ User[entry[i]] = p
  /\ \A j \in Before(p, i) : Tracked(j) /\ User[entry[j]] # p

(* find_locked returns slot i: it holds p, and no slot probed before it is *)
(* EMPTY or holds p.                                                       *)
Found(p, i) ==
  /\ Tracked(i)
  /\ User[entry[i]] = p
  /\ \A j \in Before(p, i) :
       /\ state[j] # EMPTY
       /\ Tracked(j) => User[entry[j]] # p

(* Mutant: the lookup gives up after one probe. *)
NotFound_FirstProbe(p) == ~Found(p, Hash[p])

NotFound(p) == \A i \in Idx : ~Found(p, i)

-----------------------------------------------------------------------------
Init ==
  /\ state = [i \in Idx |-> EMPTY]
  /\ entry = [i \in Idx |-> None]
  /\ ring = [k \in RingPos |-> 0]
  /\ q_tail = 0
  /\ q_len = 0
  /\ held = FALSE
  /\ live = 0
  /\ evictions = 0
  /\ full_warned = FALSE
  /\ prot = [g \in Page |-> "free"]
  /\ sys = {}
  /\ owned = {}
  /\ stale = {}
  /\ pc = [t \in Threads |-> "idle"]
  /\ reg = [t \in Threads |-> None]
  /\ arg = [t \in Threads |-> None]
  /\ at = [t \in Threads |-> 0]

Goto(t, from, to) ==
  /\ pc[t] = from
  /\ pc' = [pc EXCEPT ![t] = to]

Protect(pages, p) == prot' = [g \in Page |-> IF g \in pages THEN p ELSE prot[g]]

(* Mutant: the compare-and-swap of the lock always succeeds. *)
Acquire_Unchecked(t) ==
  /\ \/ Goto(t, "wantInsert", "insert")
     \/ Goto(t, "wantFree", "free")
  /\ held' = TRUE
  /\ UNCHANGED <<table, ringVars, live, evictions, full_warned, osVars, client, locals>>

(* SpinLock::lock returns. *)
Acquire(t) ==
  /\ \/ Goto(t, "wantInsert", "insert")
     \/ Goto(t, "wantFree", "free")
  /\ ~held
  /\ held' = TRUE
  /\ UNCHANGED <<table, ringVars, live, evictions, full_warned, osVars, client, locals>>

(* The SpinGuard is dropped. *)
Release == held' = FALSE
-----------------------------------------------------------------------------
(* coffin_alloc *)

(* Mutant: the mapping is placed over pages in quarantine (MAP_FIXED). *)
Map_Fixed(t, r) ==
  /\ Goto(t, "idle", "wantInsert")
  /\ \A g \in Span[r] : prot[g] # "mapped"
  /\ Protect(Span[r], "mapped")
  /\ reg' = [reg EXCEPT ![t] = r]
  /\ UNCHANGED <<table, ringVars, held, live, evictions, full_warned, sys, client, arg, at>>

(* map_region: mmap returns any region that overlaps no mapped page.  When *)
(* mmap or mprotect fails the call returns null with nothing changed: that *)
(* is a stuttering step.                                                   *)
Map(t, r) ==
  /\ Goto(t, "idle", "wantInsert")
  /\ \A g \in Span[r] : prot[g] = "free"
  /\ Protect(Span[r], "mapped")
  /\ reg' = [reg EXCEPT ![t] = r]
  /\ UNCHANGED <<table, ringVars, held, live, evictions, full_warned, sys, client, arg, at>>

(* insert finds a free slot and fills its fields... *)
Fill(t, i) ==
  /\ Goto(t, "insert", "publish")
  /\ FirstFree(User[reg[t]], i)
  /\ entry' = [entry EXCEPT ![i] = reg[t]]
  /\ at' = [at EXCEPT ![t] = i]
  /\ UNCHANGED <<state, ringVars, held, live, evictions, full_warned, osVars, client, reg, arg>>

(* ...and then publishes it. *)
Publish(t) ==
  /\ Goto(t, "publish", "inserted")
  /\ state' = [state EXCEPT ![at[t]] = READY]
  /\ live' = live + 1
  /\ UNCHANGED <<entry, ringVars, held, evictions, full_warned, osVars, client, locals>>

(* insert returns true and coffin_alloc the user pointer. *)
Inserted(t) ==
  /\ Goto(t, "inserted", "idle")
  /\ Release
  /\ owned' = owned \cup {reg[t]}
  /\ stale' = stale \ {reg[t]}
  /\ reg' = [reg EXCEPT ![t] = None]
  /\ at' = [at EXCEPT ![t] = 0]
  /\ UNCHANGED <<table, ringVars, live, evictions, full_warned, osVars, arg>>

(* Mutant: insert gives up after one probe. *)
Full_FirstProbe(t) ==
  /\ Goto(t, "insert", "full")
  /\ Tracked(Hash[User[reg[t]]])
  /\ Release
  /\ UNCHANGED <<table, ringVars, live, evictions, full_warned, osVars, client, locals>>

(* Mutant: the early return keeps the lock. *)
Full_KeepLock(t) ==
  /\ Goto(t, "insert", "full")
  /\ \A i \in Idx : Tracked(i)
  /\ UNCHANGED <<table, ringVars, held, live, evictions, full_warned, osVars, client, locals>>

(* insert has probed all Cap slots: it returns false. *)
Full(t) ==
  /\ Goto(t, "insert", "full")
  /\ \A i \in Idx : Tracked(i)
  /\ Release
  /\ UNCHANGED <<table, ringVars, live, evictions, full_warned, osVars, client, locals>>

(* Mutant: the mapping is forgotten. *)
GiveBack_Leak(t) ==
  /\ Goto(t, "full", "fallback")
  /\ reg' = [reg EXCEPT ![t] = None]
  /\ UNCHANGED <<table, ringVars, held, live, evictions, full_warned, osVars, client, arg, at>>

(* coffin_alloc gives the mapping back... *)
GiveBack(t) ==
  /\ Goto(t, "full", "fallback")
  /\ Protect(Span[reg[t]], "free")
  /\ reg' = [reg EXCEPT ![t] = None]
  /\ UNCHANGED <<table, ringVars, held, live, evictions, full_warned, sys, client, arg, at>>

(* The first caller finds the flag clear, sets it and prints the warning.  *)
WarnFullOnce == full_warned' = TRUE

(* ...and, warned once, asks the System allocator, which returns a pointer *)
(* or null.                                                                *)
Fallback(t) ==
  /\ Goto(t, "fallback", "idle")
  /\ WarnFullOnce
  /\ \/ \E p \in SysPtr \ sys :
          /\ sys' = sys \cup {p}
          /\ owned' = owned \cup {p}
          /\ stale' = stale \ {p}
     \/ UNCHANGED <<sys, owned, stale>>
  /\ UNCHANGED <<table, ringVars, held, live, evictions, prot, locals>>
-----------------------------------------------------------------------------
(* coffin_dealloc *)

(* The program frees an allocation it holds, or one it has already freed,  *)
(* with the layout it was made with.  The check of the alignment padding   *)
(* writes nothing.                                                         *)
BeginFree(t, h) ==
  /\ Goto(t, "idle", "wantFree")
  /\ h \in owned \cup stale
  /\ owned' = owned \ {h}
  /\ stale' = IF DoubleFree THEN stale \cup {h} ELSE stale
  /\ arg' = [arg EXCEPT ![t] = h]
  /\ UNCHANGED <<table, ringVars, held, live, evictions, full_warned, osVars, reg, at>>

(* Mutant: the early return keeps the lock. *)
Miss_KeepLock(t) ==
  /\ Goto(t, "free", "miss")
  /\ NotFound(Address(arg[t]))
  /\ UNCHANGED <<table, ringVars, held, live, evictions, full_warned, osVars, client, locals>>

(* find_locked finds nothing: free returns None. *)
Miss(t) ==
  /\ Goto(t, "free", "miss")
  /\ NotFound(Address(arg[t]))
  /\ Release
  /\ UNCHANGED <<table, ringVars, live, evictions, full_warned, osVars, client, locals>>

(* coffin_dealloc forwards the pointer to the System allocator. *)
SysFree(t) ==
  /\ Goto(t, "miss", "idle")
  /\ sys' = sys \ {Address(arg[t])}
  /\ arg' = [arg EXCEPT ![t] = None]
  /\ UNCHANGED <<table, ringVars, held, live, evictions, full_warned, prot, client, reg, at>>

(* The slot is FREED already: free returns Some(false). *)
DoubleFreed(t) ==
  /\ Goto(t, "free", "idle")
  /\ \E i \in Idx : Found(Address(arg[t]), i) /\ state[i] = FREED
  /\ Release
  /\ arg' = [arg EXCEPT ![t] = None]
  /\ UNCHANGED <<table, ringVars, live, evictions, full_warned, osVars, client, reg, at>>

(* The pages free seals: from the base of the slot's region on, as many as *)
(* the layout the caller passes makes a region of.                         *)
Extent(i, h) == Base[entry[i]]..(Base[entry[i]] + Total[h] - 1)

(* mprotect stops at the first page that is not mapped... *)
Reached(range) ==
  {g \in Page \cap range : \A k \in range : k <= g => k \in Page /\ prot[k] # "free"}

(* ...and fails then; on some systems it has done nothing in that case.    *)
(* protect_none is not asked for its result.                               *)
ProtectNone(range) ==
  \/ Protect(Reached(range), "sealed")
  \/ Reached(range) # range /\ UNCHANGED prot

(* Mutant: the state of the slot is not checked. *)
Seal_Unchecked(t, i) ==
  /\ Goto(t, "free", "mark")
  /\ Found(Address(arg[t]), i)
  /\ ProtectNone(Extent(i, arg[t]))
  /\ at' = [at EXCEPT ![t] = i]
  /\ UNCHANGED <<table, ringVars, held, live, evictions, full_warned, sys, client, reg, arg>>

(* The slot is READY: its region, or what the caller takes for it, is made *)
(* inaccessible.                                                           *)
Seal(t, i) ==
  /\ Goto(t, "free", "mark")
  /\ Found(Address(arg[t]), i)
  /\ state[i] = READY
  /\ ProtectNone(Extent(i, arg[t]))
  /\ at' = [at EXCEPT ![t] = i]
  /\ UNCHANGED <<table, ringVars, held, live, evictions, full_warned, sys, client, reg, arg>>

(* Mutant: the live counter is not decremented. *)
MarkFreed_KeepLive(t) ==
  /\ Goto(t, "mark", "push")
  /\ state' = [state EXCEPT ![at[t]] = FREED]
  /\ UNCHANGED <<entry, ringVars, held, live, evictions, full_warned, osVars, client, locals>>

MarkFreed(t) ==
  /\ Goto(t, "mark", "push")
  /\ state' = [state EXCEPT ![at[t]] = FREED]
  /\ live' = live - 1
  /\ UNCHANGED <<entry, ringVars, held, evictions, full_warned, osVars, client, locals>>

(* Mutant: the position written is one too far. *)
Push_OffByOne(t) ==
  /\ Goto(t, "push", "pushed")
  /\ q_len # QCap
  /\ ring' = [ring EXCEPT ![(q_tail + q_len + 1) % QCap] = at[t]]
  /\ q_len' = q_len + 1
  /\ UNCHANGED <<table, q_tail, held, live, evictions, full_warned, osVars, client, locals>>

(* quarantine_push, the ring has room. *)
Push(t) ==
  /\ Goto(t, "push", "pushed")
  /\ q_len # QCap
  /\ ring' = [ring EXCEPT ![(q_tail + q_len) % QCap] = at[t]]
  /\ q_len' = q_len + 1
  /\ UNCHANGED <<table, q_tail, held, live, evictions, full_warned, osVars, client, locals>>

Victim == ring[q_tail]

(* Mutant: evict is given the new slot. *)
Unmap_Newest(t) ==
  /\ Goto(t, "push", "tomb")
  /\ q_len = QCap
  /\ Protect(Span[entry[at[t]]], "free")
  /\ UNCHANGED <<table, ringVars, held, live, evictions, full_warned, sys, client, locals>>

(* quarantine_push, the ring is full: evict unmaps the oldest region... *)
Unmap(t) ==
  /\ Goto(t, "push", "tomb")
  /\ q_len = QCap
  /\ Protect(Span[entry[Victim]], "free")
  /\ UNCHANGED <<table, ringVars, held, live, evictions, full_warned, sys, client, locals>>

(* Mutant: an evicted slot becomes EMPTY. *)
Entomb_Empty(t) ==
  /\ Goto(t, "tomb", "replace")
  /\ state' = [state EXCEPT ![Victim] = EMPTY]
  /\ evictions' = (evictions + 1) % Wrap
  /\ UNCHANGED <<entry, ringVars, held, live, full_warned, osVars, client, locals>>

(* Mutant: an evicted slot stays FREED. *)
Entomb_Keep(t) ==
  /\ Goto(t, "tomb", "replace")
  /\ evictions' = (evictions + 1) % Wrap
  /\ UNCHANGED <<table, ringVars, held, live, full_warned, osVars, client, locals>>

(* ...tombstones its slot... *)
Entomb(t) ==
  /\ Goto(t, "tomb", "replace")
  /\ state' = [state EXCEPT ![Victim] = TOMB]
  /\ evictions' = (evictions + 1) % Wrap
  /\ UNCHANGED <<entry, ringVars, held, live, full_warned, osVars, client, locals>>

(* Mutant: the tail does not move. *)
Replace_SameTail(t) ==
  /\ Goto(t, "replace", "pushed")
  /\ ring' = [ring EXCEPT ![q_tail] = at[t]]
  /\ UNCHANGED <<table, q_tail, q_len, held, live, evictions, full_warned, osVars, client, locals>>

(* ...and the new slot takes its place in the ring. *)
Replace(t) ==
  /\ Goto(t, "replace", "pushed")
  /\ ring' = [ring EXCEPT ![q_tail] = at[t]]
  /\ q_tail' = (q_tail + 1) % QCap
  /\ UNCHANGED <<table, q_len, held, live, evictions, full_warned, osVars, client, locals>>

(* free returns Some(true). *)
Pushed(t) ==
  /\ Goto(t, "pushed", "idle")
  /\ Release
  /\ arg' = [arg EXCEPT ![t] = None]
  /\ at' = [at EXCEPT ![t] = 0]
  /\ UNCHANGED <<table, ringVars, live, evictions, full_warned, osVars, client, reg>>
-----------------------------------------------------------------------------
Alloc(t) ==
  \/ \E i \in Idx : Fill(t, i)
  \/ Publish(t)
  \/ Inserted(t)
  \/ Full(t)
  \/ GiveBack(t)
  \/ Fallback(t)

Dealloc(t) ==
  \/ Miss(t)
  \/ SysFree(t)
  \/ DoubleFreed(t)
  \/ \E i \in Idx : Seal(t, i)
  \/ MarkFreed(t)
  \/ Push(t)
  \/ Unmap(t)
  \/ Entomb(t)
  \/ Replace(t)
  \/ Pushed(t)

Call(t) ==
  \/ \E r \in Region : Map(t, r)
  \/ \E h \in Handle : BeginFree(t, h)

Step(t) == Call(t) \/ Acquire(t) \/ Alloc(t) \/ Dealloc(t)

Next == \E t \in Threads : Step(t)

Spec == Init /\ [][Next]_vars

(* A thread that has called Coffin keeps running until the call returns.   *)
(* Taking the spinlock is only weakly fair: nothing in the code queues the *)
(* waiting threads.                                                        *)
Fairness ==
  /\ \A t \in Threads : WF_vars(Alloc(t) \/ Dealloc(t))
  /\ \A t \in Threads : WF_vars(Acquire(t))

FairSpec == Spec /\ Fairness
-----------------------------------------------------------------------------
(* Properties. *)

TypeOK ==
  /\ state \in [Idx -> {EMPTY, READY, FREED, TOMB}]
  /\ entry \in [Idx -> Region \cup {None}]
  /\ ring \in [RingPos -> Idx]
  /\ q_tail \in RingPos
  /\ q_len \in 0..QCap
  /\ held \in BOOLEAN
  /\ live \in Int
  /\ evictions \in 0..(Wrap - 1)
  /\ full_warned \in BOOLEAN
  /\ prot \in [Page -> {"free", "mapped", "sealed"}]
  /\ sys \in SUBSET SysPtr
  /\ owned \in SUBSET Handle
  /\ stale \in SUBSET Handle
  /\ pc \in [Threads -> PC]
  /\ reg \in [Threads -> Region \cup {None}]
  /\ arg \in [Threads -> Handle \cup {None}]
  /\ at \in [Threads -> Idx]

(* The spinlock is held exactly while one thread is between lock() and the *)
(* drop of its guard, so the table and the ring have one writer at a time. *)
MutualExclusion ==
  /\ held <=> \E t \in Threads : InCritical(t)
  /\ \A t, u \in Threads : InCritical(t) /\ InCritical(u) => t = u

(* Slot i is being evicted: its pages are gone, its state still FREED. *)
Dying(i) == i = Victim /\ \E t \in Threads : pc[t] = "tomb"

(* Slot i is in the table and its pages are mapped. *)
Holding(i) == Tracked(i) /\ ~Dying(i)

(* Thread t has mapped a region that is in no slot yet. *)
InFlight(t) == pc[t] \in {"wantInsert", "insert", "publish", "full"}

Apart(r, s) == Span[r] \cap Span[s] = {}

(* No page belongs to two regions, whether they are live, in quarantine or *)
(* just mapped by a thread that waits for the lock: the table never shows  *)
(* two owners of an address, although munmap and mmap race with it.        *)
NoOverlap ==
  /\ \A i, j \in Idx : i # j /\ Tracked(i) /\ Tracked(j) => Apart(entry[i], entry[j])
  /\ \A t \in Threads, i \in Idx : InFlight(t) /\ Holding(i) => Apart(reg[t], entry[i])
  /\ \A t, u \in Threads : t # u /\ InFlight(t) /\ InFlight(u) => Apart(reg[t], reg[u])

Sealing(i) == \E t \in Threads : pc[t] = "mark" /\ at[t] = i

(* A live region is accessible and a region in quarantine is not: the free *)
(* path never seals the pages of a region other than the one it frees, and *)
(* eviction never unmaps any but the oldest.  For programs that free each  *)
(* pointer once: a stale layout seals too much or too little.              *)
ReadyIsMapped ==
  \A i \in Idx : state[i] = READY /\ ~Sealing(i) =>
    \A g \in Span[entry[i]] : prot[g] = "mapped"

FreedIsSealed ==
  \A i \in Idx : state[i] = FREED /\ ~Dying(i) =>
    \A g \in Span[entry[i]] : prot[g] = "sealed"

(* Every mapped page can be reached from a slot or from a thread that is   *)
(* about to insert or return it: no path of alloc or dealloc leaks address *)
(* space.                                                                  *)
NoLeak ==
  \A g \in Page : prot[g] # "free" =>
    \/ \E i \in Idx : Holding(i) /\ g \in Span[entry[i]]
    \/ \E t \in Threads : InFlight(t) /\ g \in Span[reg[t]]

(* The ring positions in use. *)
RingDist(k) == IF k >= q_tail THEN k - q_tail ELSE k - q_tail + QCap

Occupied(k) == RingDist(k) < q_len

(* quarantine_push has been given slot i and has not put it in the ring. *)
Pending(i) == \E t \in Threads : pc[t] \in {"push", "tomb", "replace"} /\ at[t] = i

(* The victim is out of the table and still in the ring. *)
Replacing(k) == k = q_tail /\ \E t \in Threads : pc[t] = "replace"

(* The ring holds every FREED slot once, and nothing else, except while    *)
(* quarantine_push is moving the slot it was given into it: eviction never *)
(* reclaims a live region, nor the same one twice.                         *)
RingIsExact ==
  /\ \A k \in RingPos : Occupied(k) /\ ~Replacing(k) =>
       state[ring[k]] = FREED /\ ~Pending(ring[k])
  /\ \A k, l \in RingPos : Occupied(k) /\ Occupied(l) /\ k # l => ring[k] # ring[l]
  /\ \A i \in Idx : state[i] = FREED =>
       Pending(i) \/ \E k \in RingPos : Occupied(k) /\ ring[k] = i

(* The probe of find_locked reaches every region in the table: tombstones  *)
(* and reused slots never cut the chain of another pointer.                *)
LookupFinds == \A i \in Idx : Tracked(i) => Found(User[entry[i]], i)

(* A pointer the program holds is the System allocator's, or that of a     *)
(* region that is live, accessible and found by the probe.  For programs   *)
(* that free each pointer once.                                            *)
OwnedIsLive ==
  \A h \in owned :
    IF h \in SysPtr THEN h \in sys
    ELSE \E i \in Idx :
           /\ Found(Address(h), i)
           /\ entry[i] = h
           /\ state[i] = READY
           /\ \A g \in Span[h] : prot[g] = "mapped"

(* What reaches System.dealloc came from System.alloc, and what came from  *)
(* System.alloc never misses a slot of the table.  For programs that free  *)
(* each pointer once.                                                      *)
SystemFreesItsOwn == \A t \in Threads : pc[t] = "miss" => Address(arg[t]) \in sys

(* The counters agree with the table whenever no writer is at work. *)
CountersExact ==
  ~held =>
    /\ live = Cardinality({i \in Idx : state[i] = READY})
    /\ q_len = Cardinality({i \in Idx : state[i] = FREED})

(* COFFIN_MAX_LIVE bounds live and quarantined regions together, and only  *)
(* them: an allocation goes unfenced only when they fill the table.        *)
FallbackWhenFull == [][\A t \in Threads : Full(t) => live + q_len = Cap]_vars

(* A writer always finishes: the spinlock is released. *)
LockIsReleased == held ~> ~held

(* A thread that waits for the lock for ever is overtaken for ever: the    *)
(* lock is never lost on an early return.                                  *)
OnlyOvertaken ==
  \A t \in Threads :
    <>[](pc[t] \in {"wantInsert", "wantFree"}) =>
      []<>(\E u \in Threads : u # t /\ InCritical(u))
-----------------------------------------------------------------------------
(* The inductive invariant behind these properties: what each thread knows *)
(* of the slot, the region or the pointer it works on, and what it has     *)
(* left of the probe chains.                                               *)
EntriesAreRegions == \A i \in Idx : Tracked(i) => entry[i] \in Region

ChainsHold ==
  \A i \in Idx : Tracked(i) => \A j \in Before(User[entry[i]], i) : state[j] # EMPTY

(* The pages of a region in the table or in flight stay mapped, whatever   *)
(* their protection.                                                       *)
PagesStay ==
  /\ \A i \in Idx : Holding(i) => \A g \in Span[entry[i]] : prot[g] # "free"
  /\ \A t \in Threads : InFlight(t) => \A g \in Span[reg[t]] : prot[g] # "free"

(* Between map_region and the end of insert a thread has a region. *)
HasRegion ==
  \A t \in Threads : InFlight(t) \/ pc[t] = "inserted" => reg[t] \in Region

HasPointer ==
  \A t \in Threads : pc[t] \in {"wantFree", "free", "miss"} => arg[t] \in Handle

(* The slot insert has filled is the first free one of its probe. *)
FillInv ==
  \A t \in Threads : pc[t] = "publish" =>
    /\ ~Tracked(at[t])
    /\ entry[at[t]] = reg[t]
    /\ \A j \in Before(User[reg[t]], at[t]) : Tracked(j)

(* The slot free has sealed is still READY. *)
SealInv == \A t \in Threads : pc[t] = "mark" => state[at[t]] = READY

(* The slot quarantine_push has been given is FREED; evict runs when the   *)
(* ring is full, and its victim is gone once it returns.                   *)
PushInv ==
  \A t \in Threads :
    /\ pc[t] \in {"push", "tomb", "replace"} => state[at[t]] = FREED
    /\ pc[t] \in {"tomb", "replace"} => q_len = QCap
    /\ pc[t] = "replace" => state[Victim] = TOMB

IInv ==
  /\ TypeOK
  /\ MutualExclusion
  /\ EntriesAreRegions
  /\ HasRegion
  /\ HasPointer
  /\ FillInv
  /\ SealInv
  /\ PushInv
  /\ NoOverlap
  /\ PagesStay
  /\ RingIsExact
  /\ ChainsHold

(* Between MarkFreed and the move of the ring there is one region more     *)
(* FREED than q_len says.                                                  *)
Surplus == IF \E t \in Threads : pc[t] \in {"push", "tomb"} THEN 1 ELSE 0

CountInv ==
  /\ live = Cardinality({i \in Idx : state[i] = READY})
  /\ q_len + Surplus = Cardinality({i \in Idx : state[i] = FREED})

(* Between the call of dealloc and the store of FREED, or the call of the  *)
(* System allocator, the thread is the one that answers for the pointer.   *)
Freeing(t) == pc[t] \in {"wantFree", "free", "mark", "miss"}

(* Allocation h can still be freed: its pointer is the System allocator's, *)
(* or its region is live.                                                  *)
Good(h) ==
  IF h \in SysPtr THEN h \in sys
  ELSE \E i \in Idx : state[i] = READY /\ entry[i] = h

(* In a program that frees each pointer once, an allocation has one        *)
(* holder: the program, a thread that frees it, or the thread that is      *)
(* about to return it; and it is good until that thread has disposed of it.*)
OwnersInv ==
  /\ stale = {}
  /\ \A h \in owned : Good(h)
  /\ \A t \in Threads : Freeing(t) => arg[t] \notin owned
  /\ \A t, u \in Threads : t # u /\ Freeing(t) /\ Freeing(u) => arg[t] # arg[u]
  /\ \A t \in Threads :
       /\ pc[t] \in {"wantFree", "free"} => Good(arg[t])
       /\ pc[t] = "miss" => arg[t] \in sys
       /\ pc[t] = "mark" => entry[at[t]] = arg[t]
       /\ pc[t] = "inserted" =>
            /\ state[at[t]] = READY
            /\ entry[at[t]] = reg[t]
            /\ reg[t] \notin owned
            /\ \A u \in Threads : Freeing(u) => arg[u] # reg[t]

(* In such a program the length computed from the layout is that of the    *)
(* region, and the protection of every page follows.                       *)
InFlightIsMapped ==
  \A t \in Threads : InFlight(t) => \A g \in Span[reg[t]] : prot[g] = "mapped"

SealedIsSealed ==
  \A i \in Idx : Sealing(i) => \A g \in Span[entry[i]] : prot[g] = "sealed"

ProtInv == InFlightIsMapped /\ ReadyIsMapped /\ SealedIsSealed /\ FreedIsSealed

ClientInv == ~DoubleFree => OwnersInv /\ ProtInv

RegistryInv == IInv /\ NoLeak /\ CountInv /\ ClientInv
-----------------------------------------------------------------------------
(* The registry implements the fenced heap. *)

(* The regions in the ring, the oldest first. *)
Window == [k \in 1..q_len |-> entry[ring[(q_tail + k - 1) % QCap]]]

(* The slot on its way into the ring. *)
PendingSlot == CHOOSE i \in Idx : Pending(i)

Graveyard ==
  IF \A i \in Idx : ~Pending(i) THEN Window
  ELSE LET kept == IF \E t \in Threads : pc[t] \in {"tomb", "replace"}
                   THEN Tail(Window) ELSE Window
       IN  Append(kept, entry[PendingSlot])

Allocated == {entry[i] : i \in {j \in Idx : state[j] = READY}}

(* A region is reclaimed when it is unmapped; the counter follows. *)
Reclaims == (evictions + (IF \E t \in Threads : pc[t] = "tomb" THEN 1 ELSE 0)) % Wrap

Heap == INSTANCE FencedHeap WITH
  allocated <- Allocated,
  graveyard <- Graveyard,
  reclaims  <- Reclaims

(* Every step of the registry is a step of FencedHeap or leaves it alone:  *)
(* regions leave the quarantine in the order they were freed, each only    *)
(* when QCap younger ones are in it, and none is handed out before that.   *)
ImplementsHeap == Heap!Spec
=============================================================================
