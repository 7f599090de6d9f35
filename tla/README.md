# Coffin in TLA+

Coffin is a global allocator for Rust that gives every allocation pages of its
own with a guard page beside them, keeps freed regions sealed in a quarantine,
and explains the faults that follow. This directory holds a formal model of it:
specifications that TLC checks on small instances, and proofs that TLAPS checks
for every instance. Paths such as `registry.rs:249` are below `src/src/`.

## 1. The system

| Component | State | Operations | What is hard | What makes it correct |
|---|---|---|---|---|
| **Registry** (`registry.rs`) | slots (state, base, length, pointers, stacks), hash-probed; the quarantine ring with `q_tail`, `q_len`; a spinlock; counters | `insert`, `free`, `quarantine_push`, `evict`, `warn_full_once` | many writers; mmap outside the lock, munmap inside; tombstones reused by later inserts; ring and table at their limits | one writer at a time; every tracked region can be found; no page in two regions; the ring is exactly the freed slots, oldest first; live means accessible, quarantined means sealed |
| **Entry points** (`lib.rs`) | a thread-local reentrancy flag | `alloc`, `dealloc`, `enter`, `leave`, `force_guard`, fallback to the System allocator | every failure path; nested calls from a backtrace, a symbolizer or a panic; which allocator owns a pointer | a pointer goes back to the allocator it came from; nothing is leaked; the lock is released on every return; no thread waits for itself |
| **Fault handler** (`handler.rs`, `Arena::classify`) | the signal dispositions; what it has loaded of the slot | scan, classify, report, terminate | reads beside the writers without a lock, one field at a time; the holder of the lock may have stopped; the access runs again after the report | it always finishes; the report describes the region that faulted; no fault is let through |
| **Geometry and fence** (`region.rs`) | the bytes of a mapping | `geometry_for`, `map_region`, `check_padding`, `protect_none`, `unmap` | machine arithmetic at boundaries; padding filled and checked by two functions | alignment; the buffer touches the guard page; no stray byte is missed, no false alarm |
| **Configuration** (`config.rs`) | cached values of six environment variables | parsers | overflow, saturation and rounding; read lazily, at any moment | each value is what the text spells, and every reader sees one value |
| **Start-up** (`registry()`, `install`, `arm`) | `OnceLock`, `Once`, dispositions, alternate stack | first allocation, `arm` | several threads at once; panics and aborts inside the initialisation; the runtime's own handler | it ends; whoever has a fenced pointer has Coffin's handler |
| **Inspection API** (`lib.rs:199-220`) | none | `slot_state`, three counters | probes without the lock | is answered, and agrees with the table about every pointer that does not move meanwhile |
| **Output** (`report.rs`) | none | `write(2)`, integers to text | partial writes; fixed buffers | a number prints as itself |
| **Symbolization, annotations** (`handler.rs:241-351`) | none | formatting | allocates inside a handler, maybe one that interrupted a writer | never enters Coffin |

`coffin_alloc` computes a geometry, maps a region (no lock), and inserts it (lock);
if the table is full it unmaps the region and asks the System allocator.
`coffin_dealloc` checks the padding (no lock) and frees (lock): the slot is looked
up, the region is sealed, marked and pushed into the ring, which may evict the
oldest region (unmap, then tombstone). A pointer that is not found goes to the
System allocator. Both run with the thread's guard set, which sends any call of
the allocator from within to System. The first of them to reach `registry()`
runs `Arena::new`, which also installs the handler. The handler only reads the
slots, and forces the guard before it symbolizes. The hazards of this code are
listed, each at its line, in `PROJECT.json`.

## 2. The modules

| Module | What it is |
|---|---|
| `FencedHeap` | The abstract promise: regions handed out disjoint from everything live or quarantined; a FIFO quarantine of `QCap` regions. No table, ring or lock. |
| `Registry` | The registry and both entry points for any number of threads; implements `FencedHeap`. |
| `MCRegistry` | Its instances for TLC. |
| `RegistryProofs` | The inductive invariant of the table, the ring and the pages, and the theorems that follow. |
| `AccountingProofs` | EXTENDS `RegistryProofs`: no page is lost, the counters count. |
| `HeapProofs` | EXTENDS `AccountingProofs`: who holds a pointer, and the refinement of `FencedHeap`. |
| `Postmortem` | EXTENDS `Registry`: the program's faults, the handler's lock-free scan and report, the termination policies. |
| `MCPostmortem`, `PostmortemProofs` | Its instances, and its proofs, which extend `HeapProofs`. |
| `Inspect` | EXTENDS `Registry`: `slot_state` beside the writers, and the counters. |
| `MCInspect`, `InspectProofs` | Its instance, and its proofs, which extend `HeapProofs`. |
| `Process` | A process from its first allocation on: `OnceLock`, `install`, `arm`, the runtime's handler, the guard and nested calls, panics, handlers that allocate. The registry is reduced to its lock and the outcome of a call. |
| `MCProcess`, `ProcessProofs` | Its instances and its proofs. |
| `Settings` | The parsers, caches and sizes of the configuration, the integer formatters, for words of any width. |
| `MCSettings`, `SettingsProofs` | Its instance, with words of six bits, and its proofs. |
| `Geometry` | `round_up`, `align_down`, `geometry_for`, in arithmetic modulo `Word`. |
| `Fence` | EXTENDS `Geometry`: one allocation byte by byte, from `map_region` through stray writes to `check_padding` and beyond. |
| `MCFence`, `FenceProofs` | Its instances and its proofs. |

Operators named `X_Something` with a comment "Mutant" are variants of `X` with a
plausible bug; no specification uses them. `PROJECT.json` says which property
each of them breaks.

### Registry

One action is one step another thread can observe. Between two actions the lock
may be waited for, a page protection, a slot's state, the ring or a counter
changes, or a call returns.

| Code | Actions |
|---|---|
| `map_region` (`region.rs:110`) | `Map` |
| `SpinLock::lock`, drop of the guard | `Acquire`, and `Release` in the last step of each critical section |
| `Arena::insert` | `Fill` (first free slot of the probe, all fields), `Publish` (the Release store, `live`), `Inserted`; or `Full` |
| the fallback in `coffin_alloc` | `GiveBack` (munmap), `Fallback` (`warn_full_once`, `System.alloc`) |
| `coffin_dealloc`, `Arena::free` | `BeginFree`, then `Miss` and `SysFree`; or `DoubleFreed`; or `Seal`, `MarkFreed` and the push |
| `quarantine_push`, `evict` | `Push`; or, with the ring full, `Unmap`, `Entomb`, `Replace`; then `Pushed` |

The state variables carry the names of the fields. `entry[i]` stands for all the
fields of slot `i`: a `Region` of the model is one mapping, and base, length,
user pointer and guard address are functions of it (`Base`, `Total`, `User`).
`prot` is the page table; `owned` and `stale` are what the program holds and what
it has freed: an allocation with its layout (`Handle`), not only a pointer. `Hash`
is any function to slots, so nothing proved rests on the quality of the hash
function. A region is allowed to overlap others, and several may have one user
pointer: the operating system returns any region whose pages are all unmapped.

`dealloc` computes the length it seals from the layout its caller passes
(`lib.rs:186-188`, `registry.rs:319`), and takes the base from the slot (`Extent`).
For a program that frees each pointer once that is the region of the slot. A
program that frees a pointer again may find another region at the address, and
then too few of its pages are sealed, or pages of a third region, or pages that
are not mapped; at the first of those `mprotect` stops and fails (`ProtectNone`,
whose result nobody reads). What the page protections promise is therefore
claimed for `~DoubleFree` only; everything else about the table is claimed for
both kinds of program.

Abstractions. A probe sequence is evaluated in the step that uses its result; the
lock is held, so no writer can interleave, and readers see only the result. The
fields of a slot are stored in one step here; `Postmortem` is where that matters.
`mmap` and the `mprotect` of the guard are one step (nobody else has the address).
Failing `mmap` returns null and changes nothing. Assumed of the environment:
`mprotect` of mapped pages and `munmap` succeed (their results are ignored by the
code, `registry.rs:319`, `region.rs:203`); a pointer is freed with the layout it
was allocated with; the System allocator never returns an address equal to a user
pointer of Coffin's. The program may free twice (`DoubleFree`), and then long
after the address has found another owner, but not pointers it never had.

### Postmortem

A thread outside Coffin touches a page of `Touches[t]`; if it is sealed, unmapped
or a guard page, `Fault` starts the handler. `Skip`, `Visit`, `Outside`,
`Inside` and `Decide` are the loads of `classify`; `Report` prints, reading the
stacks by slot index (`ReadIps`) only then; `Exit`, or `RestoreDefault` followed
by `Die` or `Resume`, end it. Meanwhile the other threads take steps of
`Registry`.

The loads of a slot after the Acquire load of its state are relaxed. `window[t]`
is the set of regions any of them may return: the one the slot held at that
load, and every one stored in it since. `verdict` keeps the regions the fields of
the report were read from: base and length by name, and `rest` for the user
pointer, the guard address, the size, the alignment and the two stacks, whose
frames are loaded one by one. A region that a writer has filled and not published
is in no window of a new visit, because the state is loaded first.

`truth`, `calm` and `told` are history variables that only properties read. `truth`
is what the address was when the access faulted, and says so in other terms than
`classify` does: the region that the page tables and the table give the page to,
the place of the page in the layout of that region (`Place`), and whether the page
is sealed (`freed`: "under way" while `free` is between `protect_none` and the
store of FREED). The state word that `classify` reads has no part in it.

### Geometry and Fence

`&!(to - 1)` for a power of two `to` is rounding down to a multiple of `to`, and
sums wrap modulo `Word`. In `Fence` bytes are named by their offset from the user
pointer and hold POISON or something else. `Write` is any write of the program
to a byte of its mapping. The registry is reduced to its answers: a slot was
found or not, the region is quarantined or gone.

### Inspect

An inspector thread asks for a pointer and makes the two loads of `state_of` per
slot (`Load`, `Compare`) between the writers' steps. The load of the pointer is
relaxed, and the Acquire load of the state comes before it; a stale value it
returns is one the slot had at that load or later, so a comparison at some moment
between. `was` is what the table said when it asked, `calm` that neither that
nor the slots' claim to the pointer has changed since. While a pointer is freed,
evicted or allocated during the probe no answer is wrong in itself, with one
exception, which the behaviours contain and no property denies: the state of one
region with the pointer of the next (FREED for a live pointer).

`live_count()` and `quarantine_len()` are two relaxed loads. The inspector makes
one (`count` keeps the value), any number of steps of the writers may follow, and
then it makes the other; since nothing orders the two, in either order. A region
that is freed in between is counted as live and as quarantined.

### Process

| Code | Actions |
|---|---|
| `Coffin::alloc`, `coffin_alloc` | `AllocNested` (guard set); or `AllocBegin` (`enter`, geometry, mapping), `Ready` or `FirstCall`, `Lock`, `AllocEnd` (`insert` or the fallback, `leave`) |
| `Coffin::dealloc`, `coffin_dealloc` | `FreeNested`; or `FreeBegin`, `Ready` or `FirstCall`, `Lock`, `FreeEnd` |
| `registry()`, `Arena::new`, `install` | `FirstCall`, `New`, `CallOnce`, `Sigaction`; the others wait in `Ready` |
| `arm` | `Arm`, then the same; `install` once more |
| the assertions `region.rs:70` and `registry.rs:210` | `PanicEnd`: the process aborts, or the panic unwinds into the program and `leave` is never reached |
| `handle`, `report`, `dump_stack`, `emit_annotations` | `Fault` or `OverflowStack`, `Report`, `Symbolized`, `Annotated`, `OnFault`, `Again` |
| the Rust runtime | `RuntimeStart`: installs its handler and alternate stacks, or not |

The allocator may be called, any number of times, by the program, by
`capture_ips` under the lock (`backtrace` promises not to, Coffin guards against
it), by the symbolizer in the handler, and by the panic machinery: `Caller` is
the set of these places and `back[t]` the place a call returns to. A fault may
come from the program or from the walk of a stack under the lock. `by` and
`holder` say which allocator a pointer is from and who may free it. The history
variable `stuck` names the threads whose guard a handler or a panic has left set:
the code cannot avoid these (`force_guard` is "irreversible", `lib.rs:82`), and
`GuardIsBalanced` and `NestedFreesAreSystems` say that there are no others.
`restored`, `shadowed` and `silent` are history variables as well.

`config` is what the environment has made of three settings, and whether the
arena's table can be mapped. With `COFFIN_MAX_LIVE` too large for the table,
`expect` panics in the initialisation; if `arm()` started it, the guard is clear,
the panic's message is allocated through Coffin, and the thread waits for the
initialisation it is running. `NoSelfWait` and `InitialisationEnds` leave out
this setting, and say so.

### Settings

A numeral is a sequence of digits and other characters. `ScanDigits` is the loop
of `parse_usize_env` and of `on_fault`; `NextPow2` shifts by an amount modulo the
word size, as a release build does. `Get` fills the cache of a setting, `NewArena`
computes the sizes of table and ring, at any moment and in any order, and the
program may remove variables meanwhile. The reference definitions are `Spelt`,
the number (`Number`, in any base) that the leading digits of a text spell, and
`Least` of the powers of two. The loops are recursive functions over positions
or numbers, as the code's are, so that they can be proved about.

## 3. What is checked

Runs that pass:

| Run | Question and bounds |
|---|---|
| `registry_safety` | Do lock, table, ring, mapped pages and counters agree, and can a page get two owners? Two threads, 4 regions of one and two pages on 4 pages, some overlapping, two with one user pointer; 1 System pointer, 2 slots, a ring of 1, a program that frees twice. A layout of two pages passed for a region of one seals a page of its neighbour, and the other way round leaves one accessible. Full table, eviction, slot reuse, collisions and wrap-around of the probe all occur with two slots; the ring of one position evicts on every free but the first and cannot wrap, which is left to the next run. `RegistryInv` is everything the proofs know of the registry. |
| `registry_chains` | Are lookups right, is what the program holds accessible and what it freed sealed, is the ring exact, and is the quarantine the one `FencedHeap` promises? 4 slots, a ring of 2 that wraps, all hashes in the last two slots: chains of four that wrap; regions of one and two pages; the eviction counter modulo 3. The program frees once; for programs that free again after an eviction ownership and protection cannot hold. |
| `inspect` | Is `slot_state` answered, and rightly? Do the counters make sense, each alone and one after the other? Does System get back its own pointers and no others? Is the lock always released, and is waiting for ever only due to being overtaken for ever? 2 writers, 3 one-page regions in 2 slots, a ring of 1: chains with tombstones that are refilled under the probe, and a table that fills, so that `Full`, `Fallback`, `Miss` and `SysFree` happen. `InspectInv` contains `RegistryInv`, here for a program that frees once (`ClientInv`). |
| `postmortem` | Is a report whole and right, what may go through after it, and does a fault always end the process? Both threads may fault and write, one on a page that is a guard of one region and inside another, one on a page that is only ever inside; guards above (`COFFIN_PROTECT=above`), regions that share a slot and overlap; 6 pages, both policies. Underflows, which need guards below, are covered by the theorem only. |
| `process` | Does anybody wait for itself, does a handler wait, is the guard balanced, is a fenced pointer always watched? 2 threads, 2 pointers, 6 environments: symbols, annotations or neither, exit or abort, an arena that fits, is too large or cannot be mapped. |
| `settings` | Is every variable what its text spells, and every size what the variables say? 6-bit words; all numerals up to two digits and some of three, with garbage: below, at and above half the range, the largest word, and beyond. An exit status modulo 16, an `i32` up to 31. |
| `fence` | Placement and detection for sizes 0 to 9, alignments 1 to 8, both modes, pages of 4 bytes, 6-bit words: less than, exactly and more than one and two pages, aligned and not, and one over-aligned request. |

In every run each thread makes any number of calls; the state space is finite
because regions, pages and pointers are, and because `evictions` counts modulo
`Wrap`. The bounds are small because the hazards are: one ring position and two
slots already evict, collide and reuse, and two positions wrap; two threads
already race for the lock, the table, the pages and the initialisation. `Process`
gains nothing from a third thread (the proofs hold for any number).

`ReportIsWhole` and `KindIsRight` are claimed while no eviction is under way
during the scan (`calm`): allocation, freeing, sealing and marking by other
threads do not disturb a report. What `KindIsRight` says is as much as the code
gives: "FAULT INSIDE LIVE REGION", which should not happen (`registry.rs:180`),
does happen to an access that meets `free` between its two steps, and to no other.
With an eviction a report may be wrong altogether, as these runs show.

Runs that find what a comment or document rules out:

| Run | Finding |
|---|---|
| `postmortem_wild` | `registry.rs:13-14` says a reader never observes a torn entry, and `registry.rs:404` that a torn read at worst misclassifies as Wild. A thread touches page 3, which is nobody's, while its handler's slot holds the region of pages 1 and 2; the slot is evicted and refilled with that of pages 2 to 4, and `classify` takes the new base and the old length: the report names pages 2 and 3, a region that never existed. |
| `postmortem_continue` | `handler.rs:92-94` says a guard-page fault cannot be resumed. A thread hits the guard page of a live region; before its access is re-executed another thread has freed that region, evicted it with the next free, and had the page mapped again in a new buffer. The access goes through, into the memory of another owner, and the process runs on without a handler. |
| `fence_check` | `region.rs:152` wants `check_padding` called for live regions of Coffin's; `coffin_dealloc` calls it first (`lib.rs:184`), also for System-fallback buffers, whose surroundings were never poisoned (a false report), and for quarantined regions, whose padding is sealed (a double free faults inside `dealloc` before it is detected). |
| `process_stack` | `handler.rs:10-11` says the handler survives even a stack overflow; `sigaltstack` is per thread and called by the first one only (`handler.rs:34`, `handler.rs:48`), so another thread's overflow dies without a report. |
| `settings_pow2` | `README.md:87` says slots are "rounded up to a power of two"; above half the range of a word `next_pow2` shifts by the word size (`config.rs:55`) and a release build gets one slot. |

One limit is by design and no finding: `COFFIN_MAX_LIVE` bounds the live and the
quarantined regions together (`config.rs:124`). With a quarantine as large as the
table, which nothing prevents, a program ends up unfenced for good.

Fairness. `Registry!FairSpec` is weakly fair to each thread inside Coffin, which the
scheduler gives, and only weakly fair to `Acquire`: the compare-and-swap loop of
`registry.rs:80-90` queues nobody, so a thread may lose for ever, and no property
claims otherwise. `Inspect!FairInspection` adds weak fairness of the inspector, a
running thread that waits for nobody. `Postmortem!FairHandlers` is fair to
handlers only: every other thread may stop for ever, also inside the critical
section. `Process!PrFairSpec` is weakly fair to a thread inside Coffin or the
handler while the process lives, as the scheduler is, and to no call of the
program. Deadlock is checked in the registry runs and in `inspect`; in the others
the process, the allocation or the configuration ends.

## 4. What is proved

Every safety property that a passing run checks is also a theorem; what is left
to TLC alone is liveness. `PROJECT.json` lists each theorem with its property.

### Registry

For every number of threads, slots, ring positions and regions, every layout of
regions on pages and every hash function, under the ASSUMEs of `Registry`
(capacities positive; a region is not empty; regions with one user pointer
overlap; `None` is neither a region nor a pointer), and for programs that free
twice, with layouts that no longer fit, as well as for those that do not:

- `Invariance`: `IInv` is invariant. From it `TypeCorrect`, `OneWriter`,
  `RegionsAreDisjoint`, `QuarantineIsExact` and `LookupIsComplete`.
- `NothingLeaks`, `CountInvariance`, `BooksBalance`, `OnlyFullFallsBack`.
- `RegistryInvariance`: the conjunction `RegistryInv`. From it, for programs that
  free each pointer once (`ASSUME ~DoubleFree`), `HeldPointersAreGood`,
  `LiveIsAccessible`, `QuarantineIsSealed` and `ForwardedIsSystems`.
- `RegistryImplementsHeap`: `Spec` implies `Heap!Spec`.

None of the first is inductive alone. `IInv` adds what each thread knows of the
slot it works on (`FillInv`, `SealInv`, `PushInv`), that the pages of a mapping in
the table or on its way there are not free (`PagesStay`), and that no slot between
the start of a probe and a tracked slot is EMPTY (`ChainsHold`). The argument for
`NoOverlap` turns on page states: no page of a mapping in flight or tracked is
free, so `mmap`, which takes free pages, cannot touch them, and a `protect_none`
of the wrong length, which changes mapped pages to sealed ones and frees none,
does no harm here; the one exception, a slot whose pages have just been unmapped
(`Dying`), exists only while its evictor holds the lock, so nobody can insert
beside it. `LookupFinds` then needs that no two tracked slots have one user
pointer: such regions would overlap. The proof has a lemma for each conjunct
(`TypeStep`, `MutexStep`, `OverlapStep`, `PagesStayStep`, `RingStep`...) with a case
for each action that can disturb it, and `Others` for all that a step leaves alone
in the other threads.

`NoLeak` is inductive beside `IInv`: a page changes hands only in steps whose
region `IInv` knows. The counters lag behind the slots inside a critical section:
`CountInv` says that there are as many FREED slots as `q_len` says and one more
while the lock holder is between marking and pushing (`Surplus`; there is one at
most, by `MutualExclusion`). `OnlyFullFallsBack` follows: a probe that finds no
free slot has seen `Cap` of them, and a READY or FREED slot is counted.

Whether `dealloc` gives each pointer back to where it came from depends on the
program. `OwnersInv` is the discipline of one that frees once: a pointer has one
holder, the program, a thread that frees it, or the thread about to return it;
and it is good (System's, or of a live slot) until that thread has disposed of
it. From that the slot `free` finds is that of the allocation it was given
(`entry[at[t]] = arg[t]`), the length sealed is that of the region, and the
protection of every page follows (`ProtInv`). These theorems have the hypothesis
`~DoubleFree`; without it they are false: a pointer freed again after its region
was evicted is not in the table, and goes to System (`lib.rs:191`), or it is there
with another region, and the wrong pages are sealed.

The refinement maps `allocated` to the regions of READY slots and `graveyard` to
the ring's, oldest first, with the one on its way into the ring at the end and
the one on its way out already gone (`Graveyard`). Three steps of the registry are
steps of the heap: `Publish` allocates, `MarkFreed` frees, `Unmap` reclaims; the
others stutter, which takes most of the proof (`GraveyardStays`, `PushStutters`),
because the window slides around a ring that is written and counted in
different steps.

### Inspect and Postmortem

`InspectionOnlyReads` and `HandlersOnlyRead` show that with an inspector or with
handlers at work the program does what `Registry` says, so all of the above holds
there too. On top of that:

- `InspectInvariance`, and from it `AnswersAreRight` and `CountersMakeSense`.
  While nothing happens to the pointer asked for, its slot is not behind the probe
  (`ProbeInv`); that the probe does not stop before it is `ChainsHold`, which
  every writer preserves at every step, not only when it releases the lock. Two
  counters read one after the other fit in the table when `q_len` comes first,
  because it never decreases (`QuarantineGrows`), and when `live` does as long as
  nothing was quarantined since; else a region may be counted twice.
- `PostmortemInvariance`, on top of `RegistryInvariance`, and from it
  `ReportsAreWhole`, `KindsAreRight` and `DeathsAreReported`; and the action
  property `ResumedWasEvicted`. While no eviction is under way (`Quiet`), a fault
  of Coffin's has a witness (`WitnessInv`): a slot that still holds the region,
  which the scan has not passed yet; and every field loaded so far is that of the
  region in the slot under the scan (`ScanInv`), because the window of a load has
  one member. `KindsAreRight`, for programs that free once, compares the report
  with the layout and the page protections at the fault: by `ProtInv` a sealed
  page is in a FREED slot, or in one that `free` is about to mark
  (`WitnessFreed`). An access that faulted and goes through contradicts the
  witness, whose page is sealed or a guard.

They assume in addition that pages are numbers, that the span of a region runs
from its base over its length and contains its guard and its user page, which
differ (`LayoutAssumption`, which `Placement` justifies).

### Fence

For every page size, word size, layout and protection mode, under `FenceAssumption`
(an alignment up to the page divides it; Rust's bound on layouts; a word holds at
least four pages):

- `AlignmentIsSacred`: `Placement`. The buffer is aligned, ends (with less padding
  than its alignment) or starts at the guard page, and nothing wraps.
- `FenceIsExact` and `CorrectIsUndisturbed`: `NothingSilent` and `NoFalseAlarm`. The
  invariant behind both (`WitnessInv`): what has been overwritten on the fenced
  side of a live buffer is padding without POISON, and an innocent program has
  left the padding alone.

`Placement` is also what justifies the assumption of `Registry` that a region
contains its user pointer.

### Process

For every number of threads and pointers and every set of environments, under
`ProcessAssumption` (the main thread is a thread; `NoThread` and `NoPtr` are
not values):

- `PrIInvHolds`: `PrIInv` is invariant. From it `GuardHolds`, `NoSelfWaitHolds`,
  `HandlerHolds`, `NestedFreesHold` and `WatchedHolds`.

`GuardIsBalanced` needs to know who is in the initialisation and why: `GuardOf`
tells a call of `registry()` under the guard from one by `arm()`, and `InitOf`
ties the thread to the OnceLock it runs. That a handler never waits follows
because the only callers that enter Coffin are the program and a panic (`BackOf`),
and a handler that symbolizes has the guard set. `NestedFreesAreSystems` rests on
`HeapInv`: what Coffin's callees hold is System's. The proof has a
lemma for each conjunct with a case for each action (`OwnStep` for the thread that
acts, `OtherStep` for what its action leaves alone in the others).

### Settings

For every width of a word, every text, every default and every size of a region,
under the ASSUMEs of `Settings` (the defaults fit in a word; the environment
holds texts; an exit status has fewer values than an `i32`, whose largest is
not a multiple of them):

- `SettingsInvariance`: `SettingsInv` is invariant: what is cached is what the
  variable spelt when it was first asked for, and an arena in use was computed
  from what is cached. From it `NumeralsAreRead`, `SlotsAreEnough`, `ArenasAreWhole`,
  `ExitsAreSeen` and `NumbersPrintBack`.

What the loops compute is proved by induction over data. The induction theorems
of the prover's library take an operator as a parameter, which no installed
backend can instantiate; `Induction` and `StrongInduction` here are about a set of
numbers instead, and follow from the well-foundedness of `<`. A recursive function
is a CHOOSE, so its equation holds only if such a function exists: `Recursion`
builds one, `Agreement` shows that two are equal, and `NumberStep`, `ScanIs`,
`DecExists` use them. `AccumulateIs` is the step of the parser: saturating the
saturated number is saturating the exact one. Of powers of two the provers know
nothing but that they are integers; `PowerIsCount` identifies 2^n with the number of
subsets of 1..n, and `PowerDoubles` follows by counting. `WriteHexIs` shows that the
digits written so far are the number shifted right by the nibbles that remain.

### Only model-checked

Liveness under fairness, which is beyond the prover: `LockIsReleased`,
`OnlyOvertaken`, `AskIsAnswered`, `FaultIsFatal` and `InitialisationEnds`.

## 5. Plan

Modules: a variant of `Registry` in which `mprotect` and `munmap` may fail (their
results are ignored) would tell what a process near `vm.max_map_count` may still
rely on. All other parts of the system are modelled as far as is planned.

Next theorems: what an eviction during the scan may still not do to a report (that
each field comes from some region in the window of its load), and invariants of
`FencedHeap` itself, which the registry then inherits.

Not modelled, and not planned: the text of reports and annotations and the choice
of a user frame (formatting, with another crate), partial writes (what is lost is
text), weak-memory effects beyond the stale fields of `window` (all other shared
state is under the lock or ordered by the Acquire and Release of a slot's state),
signals other than the two, `fork`, `getenv` beside `setenv`, and physical
memory. The examples are client programs, and the programs of the models are any
programs.
