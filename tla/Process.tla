------------------------------- MODULE Process -------------------------------
(***************************************************************************)
(* A process that uses Coffin, from its first allocation on: the OnceLock  *)
(* of the registry and what its initialisation does (src/registry.rs), the *)
(* dispositions of SIGSEGV and SIGBUS and the alternate stack              *)
(* (src/handler.rs), arm(), and the thread-local guard that sends nested   *)
(* calls to the System allocator (src/lib.rs).                             *)
(*                                                                         *)
(* Registry.tla says what happens under the spinlock.  Here a thread that  *)
(* holds it may call the allocator again (a backtrace is captured there),  *)
(* may fault, and its handler may call the allocator too.                  *)
(***************************************************************************)
EXTENDS Integers

CONSTANTS
  Threads,     \* threads of the process
  Main,        \* the one that runs before main()
  Ptr,         \* addresses of allocations
  NoThread,    \* nobody
  NoPtr,       \* no pointer
  OverAlign,   \* whether the program asks for more alignment than a page
  Configs      \* the environments it is run in

(* What the COFFIN_ variables make of the handler, and of the arena.        *)
Settings == [symbolize : BOOLEAN, annotate : BOOLEAN, on_fault : {"exit", "abort"},
             arena : {"fits", "too large", "no memory"}]

ASSUME ProcessAssumption ==
  /\ Main \in Threads
  /\ NoThread \notin Threads
  /\ NoPtr \notin Ptr
  /\ OverAlign \in BOOLEAN
  /\ Configs \subseteq Settings

VARIABLES
  pc,          \* where each thread is
  guard,       \* IN_COFFIN of each thread
  back,        \* where its call of the allocator returns to
  from,        \* where its call of registry() was made, while it initialises
  resume,      \* what its handler has interrupted
  arg,         \* the pointer it is freeing
  reg,         \* REGISTRY: "uninit", "running" or "ready"
  initBy,      \* the thread that runs Arena::new
  lock,        \* the holder of the spinlock
  once,        \* ALT_STACK has run
  altstack,    \* the threads that have an alternate signal stack
  disp,        \* the disposition of SIGSEGV and SIGBUS
  alive,       \* the process has not terminated
  started,     \* the runtime has started, main() runs
  config,      \* symbolize, annotate, on_fault; whether the arena can be mapped
  by,          \* the allocator each allocated pointer is from
  holder,      \* who may free it: the program, or what Coffin calls
  stuck,       \* history: threads whose guard a handler or a panic has left set
  crossed,     \* history: threads that gave a fenced pointer to System
  restored,    \* history: a handler has restored the default disposition
  shadowed,    \* history: the runtime has replaced the handler, arm() not run
  silent       \* history: a stack overflow could not be reported

threadVars == <<guard, back, from, resume, arg>>
initVars   == <<reg, initBy, once, altstack>>
heapVars   == <<by, holder>>
history    == <<stuck, crossed, restored, shadowed, silent>>
processVars == <<pc, threadVars, initVars, lock, disp, alive, started, config,
                 heapVars, history>>

(* Calling registry(), holding the lock, in the handler.                   *)
RegistryPC == {"mapped", "checked", "arm"}
LockedPC   == {"insert", "free"}
HandlerPC  == {"report", "stacks", "annotate", "policy", "again"}

(* Between enter() and leave(), the initialisation and the panic apart. *)
InsidePC == {"mapped", "checked", "wantInsert", "wantFree"} \cup LockedPC

InitPC == {"new", "install", "sigaction"}

PC == {"user", "arm", "panic"} \cup InsidePC \cup InitPC \cup HandlerPC

(* From where the allocator is called: the program, capture_ips, the       *)
(* symbolizer, and the panic machinery.                                    *)
Caller == {"user", "stacks", "annotate", "panic"} \cup LockedPC

PrInit ==
  /\ pc = [t \in Threads |-> "user"]
  /\ guard = [t \in Threads |-> FALSE]
  /\ back = [t \in Threads |-> "user"]
  /\ from = [t \in Threads |-> "arm"]
  /\ resume = [t \in Threads |-> "user"]
  /\ arg = [t \in Threads |-> NoPtr]
  /\ reg = "uninit"
  /\ initBy = NoThread
  /\ lock = NoThread
  /\ once = FALSE
  /\ altstack = {}
  /\ disp = "default"
  /\ alive = TRUE
  /\ started = FALSE
  /\ config \in Configs
  /\ by = [p \in Ptr |-> "none"]
  /\ holder = [p \in Ptr |-> "none"]
  /\ stuck = {}
  /\ crossed = {}
  /\ restored = FALSE
  /\ shadowed = FALSE
  /\ silent = FALSE

Goto(t, to) == pc' = [pc EXCEPT ![t] = to]

Die == alive' = FALSE

(* Before main() only the main thread runs. *)
Running(t) == started \/ t = Main

-----------------------------------------------------------------------------
(* GlobalAlloc for Coffin *)

(* enter() *)
Enter(t) ==
  /\ ~guard[t]
  /\ guard' = [guard EXCEPT ![t] = TRUE]

(* leave() *)
Leave(t) == guard' = [guard EXCEPT ![t] = FALSE]

(* The pointer p is handed out by allocator a to whoever calls at c. *)
HandOut(p, a, c) ==
  /\ by[p] = "none"
  /\ by' = [by EXCEPT ![p] = a]
  /\ holder' = [holder EXCEPT ![p] = IF c = "user" THEN "program" ELSE "coffin"]

(* alloc, nested: the System allocator serves it. *)
AllocNested(t, p) ==
  /\ pc[t] \in Caller
  /\ guard[t]
  /\ HandOut(p, "system", pc[t])
  /\ UNCHANGED <<pc, threadVars, initVars, lock, disp, alive, started, config, history>>

(* alloc: region_geometry and map_region; an over-aligned layout panics in *)
(* the former.  When mmap fails the call returns null: a stuttering step.  *)
AllocBegin(t) ==
  /\ pc[t] \in Caller
  /\ Running(t)
  /\ Enter(t)
  /\ back' = [back EXCEPT ![t] = pc[t]]
  /\ \/ Goto(t, "mapped")
     \/ pc[t] = "user" /\ OverAlign /\ Goto(t, "panic")
  /\ UNCHANGED <<from, resume, arg, initVars, lock, disp, alive, started, config,
                 heapVars, history>>

(* dealloc, nested: whatever the pointer, System.dealloc gets it.          *)
FreeNested(t, p) ==
  /\ pc[t] \in Caller
  /\ guard[t]
  /\ holder[p] = IF pc[t] = "user" THEN "program" ELSE "coffin"
  /\ by' = [by EXCEPT ![p] = "none"]
  /\ holder' = [holder EXCEPT ![p] = "none"]
  /\ crossed' = IF by[p] = "coffin" THEN crossed \cup {t} ELSE crossed
  /\ UNCHANGED <<pc, threadVars, initVars, lock, disp, alive, started, config,
                 stuck, restored, shadowed, silent>>

(* dealloc: check_padding, region_geometry. *)
FreeBegin(t, p) ==
  /\ pc[t] = "user"
  /\ Running(t)
  /\ holder[p] = "program"
  /\ Enter(t)
  /\ back' = [back EXCEPT ![t] = "user"]
  /\ arg' = [arg EXCEPT ![t] = p]
  /\ holder' = [holder EXCEPT ![p] = "none"]
  /\ Goto(t, "checked")
  /\ UNCHANGED <<from, resume, initVars, lock, disp, alive, started, config, by, history>>

(* Mutant: leave() comes before the critical section.  *)
Lock_LeaveEarly(t) ==
  /\ lock = NoThread
  /\ lock' = t
  /\ \/ pc[t] = "wantInsert" /\ Goto(t, "insert")
     \/ pc[t] = "wantFree" /\ Goto(t, "free")
  /\ Leave(t)
  /\ UNCHANGED <<back, from, resume, arg, initVars, disp, alive, started, config, heapVars, history>>

(* SpinLock::lock returns. *)
Lock(t) ==
  /\ lock = NoThread
  /\ lock' = t
  /\ \/ pc[t] = "wantInsert" /\ Goto(t, "insert")
     \/ pc[t] = "wantFree" /\ Goto(t, "free")
  /\ UNCHANGED <<threadVars, initVars, disp, alive, started, config, heapVars, history>>

(* Mutant: the fallback returns without leave(). *)
AllocEnd_Stay(t) ==
  /\ pc[t] = "insert"
  /\ lock' = NoThread
  /\ \E p \in Ptr :
       \/ HandOut(p, "coffin", back[t]) /\ Leave(t)
       \/ HandOut(p, "system", back[t]) /\ UNCHANGED guard
  /\ Goto(t, back[t])
  /\ back' = [back EXCEPT ![t] = "user"]
  /\ UNCHANGED <<from, resume, arg, initVars, disp, alive, started, config, history>>

(* insert returns and the lock is released: the region is handed out, or   *)
(* the table is full and the System allocator serves the request or not.   *)
AllocEnd(t) ==
  /\ pc[t] = "insert"
  /\ lock' = NoThread
  /\ \/ \E p \in Ptr, a \in {"coffin", "system"} : HandOut(p, a, back[t])
     \/ UNCHANGED heapVars
  /\ Leave(t)
  /\ Goto(t, back[t])
  /\ back' = [back EXCEPT ![t] = "user"]
  /\ UNCHANGED <<from, resume, arg, initVars, disp, alive, started, config, history>>

(* free returns and the lock is released: a fenced pointer is in           *)
(* quarantine, another one goes to the System allocator.                   *)
FreeEnd(t) ==
  /\ pc[t] = "free"
  /\ lock' = NoThread
  /\ by' = [by EXCEPT ![arg[t]] = "none"]
  /\ arg' = [arg EXCEPT ![t] = NoPtr]
  /\ Leave(t)
  /\ Goto(t, back[t])
  /\ UNCHANGED <<back, from, resume, initVars, disp, alive, started, config, holder, history>>

-----------------------------------------------------------------------------
(* registry(), Arena::new and install *)

(* The registry is there. *)
Ready(t) ==
  /\ pc[t] \in RegistryPC
  /\ reg = "ready"
  /\ Goto(t, CASE pc[t] = "mapped" -> "wantInsert" [] pc[t] = "checked" -> "wantFree"
                  [] pc[t] = "arm" -> "install")
  /\ UNCHANGED <<threadVars, initVars, lock, disp, alive, started, config, heapVars, history>>

(* Mutant: a registry that is not there yet is made, by every caller. *)
FirstCall_Unsynchronised(t) ==
  /\ pc[t] \in RegistryPC
  /\ reg # "ready"
  /\ reg' = "running"
  /\ initBy' = t
  /\ from' = [from EXCEPT ![t] = pc[t]]
  /\ Goto(t, "new")
  /\ UNCHANGED <<guard, back, resume, arg, once, altstack, lock, disp, alive, started, config,
                 heapVars, history>>

(* The first caller of get_or_init runs the closure; the others wait. *)
FirstCall(t) ==
  /\ pc[t] \in RegistryPC
  /\ reg = "uninit"
  /\ reg' = "running"
  /\ initBy' = t
  /\ from' = [from EXCEPT ![t] = pc[t]]
  /\ Goto(t, "new")
  /\ UNCHANGED <<guard, back, resume, arg, once, altstack, lock, disp, alive, started, config,
                 heapVars, history>>

(* Mutant: the failure to map the arena is reported by a message that is   *)
(* formatted, which allocates.                                             *)
New_Format(t) ==
  /\ pc[t] = "new"
  /\ Goto(t, CASE config.arena = "fits" -> "install" [] config.arena = "too large" -> "panic"
                  [] config.arena = "no memory" -> "mapped")
  /\ UNCHANGED <<threadVars, initVars, lock, disp, alive, started, config, heapVars, history>>

(* Arena::new up to install: the size of the table overflows and expect    *)
(* panics; or it cannot be mapped, and the process aborts; or it is.       *)
New(t) ==
  /\ pc[t] = "new"
  /\ \/ config.arena = "fits" /\ Goto(t, "install") /\ UNCHANGED alive
     \/ config.arena = "too large" /\ Goto(t, "panic") /\ UNCHANGED alive
     \/ config.arena = "no memory" /\ Die /\ UNCHANGED pc
  /\ UNCHANGED <<threadVars, initVars, lock, disp, started, config, heapVars, history>>

(* ALT_STACK.call_once: the first thread to get here, and no other, gets   *)
(* an alternate stack, if one can be mapped.                               *)
CallOnce(t) ==
  /\ pc[t] = "install"
  /\ once' = TRUE
  /\ \/ ~once /\ altstack' = altstack \cup {t}
     \/ UNCHANGED altstack
  /\ Goto(t, "sigaction")
  /\ UNCHANGED <<threadVars, reg, initBy, lock, disp, alive, started, config, heapVars, history>>

Initialising(t) == reg = "running" /\ initBy = t

(* Mutant: the dispositions are set by the first call only. *)
Sigaction_First(t) ==
  /\ pc[t] = "sigaction"
  /\ disp' = IF Initialising(t) THEN "coffin" ELSE disp
  /\ shadowed' = (shadowed /\ Initialising(t))
  /\ reg' = "ready"
  /\ initBy' = NoThread
  /\ Goto(t, IF Initialising(t) THEN from[t] ELSE "user")
  /\ from' = [from EXCEPT ![t] = "arm"]
  /\ UNCHANGED <<guard, back, resume, arg, once, altstack, lock, alive, started, config, heapVars,
                 stuck, crossed, restored, silent>>

(* The dispositions are set, on every call; Arena::new returns, or arm.    *)
Sigaction(t) ==
  /\ pc[t] = "sigaction"
  /\ disp' = "coffin"
  /\ shadowed' = FALSE
  /\ reg' = "ready"
  /\ initBy' = NoThread
  /\ Goto(t, IF Initialising(t) THEN from[t] ELSE "user")
  /\ from' = [from EXCEPT ![t] = "arm"]
  /\ UNCHANGED <<guard, back, resume, arg, once, altstack, lock, alive, started, config, heapVars,
                 stuck, crossed, restored, silent>>

(* arm() *)
Arm(t) ==
  /\ pc[t] = "user"
  /\ started
  /\ Goto(t, "arm")
  /\ UNCHANGED <<threadVars, initVars, lock, disp, alive, started, config, heapVars, history>>

(* The panic ends.  It cannot leave alloc in an orderly way: the process   *)
(* aborts, or it unwinds into the program and leave() is never reached.    *)
(* The OnceLock is uninitialised again.                                    *)
PanicEnd(t) ==
  /\ pc[t] = "panic"
  /\ \/ /\ guard[t]
        /\ Die
        /\ UNCHANGED <<pc, reg, initBy, from, back, stuck>>
     \/ /\ Goto(t, "user")
        /\ reg' = IF Initialising(t) THEN "uninit" ELSE reg
        /\ initBy' = IF Initialising(t) THEN NoThread ELSE initBy
        /\ from' = [from EXCEPT ![t] = "arm"]
        /\ back' = [back EXCEPT ![t] = "user"]
        /\ stuck' = IF guard[t] THEN stuck \cup {t} ELSE stuck
        /\ UNCHANGED alive
  /\ UNCHANGED <<guard, resume, arg, once, altstack, lock, disp, started, config, heapVars,
                 crossed, restored, shadowed, silent>>

(* The runtime starts.  It may install a handler of its own, with an       *)
(* alternate stack for every thread.                                       *)
RuntimeStart ==
  /\ ~started
  /\ pc[Main] = "user"
  /\ started' = TRUE
  /\ \/ disp' = "std" /\ altstack' = Threads /\ shadowed' = (reg = "ready")
     \/ UNCHANGED <<disp, altstack, shadowed>>
  /\ UNCHANGED <<pc, threadVars, reg, initBy, once, lock, alive, config, heapVars,
                 stuck, crossed, restored, silent>>

-----------------------------------------------------------------------------
(* The handler *)

(* An access of the program faults, or capture_ips walks a broken stack.   *)
Fault(t) ==
  /\ pc[t] \in {"user"} \cup LockedPC
  /\ Running(t)
  /\ \/ disp = "coffin" /\ Goto(t, "report") /\ resume' = [resume EXCEPT ![t] = pc[t]]
                        /\ UNCHANGED alive
     \/ disp # "coffin" /\ Die /\ UNCHANGED <<pc, resume>>
  /\ UNCHANGED <<guard, back, from, arg, initVars, lock, disp, started, config, heapVars, history>>

(* The program overflows its stack: the kernel can only run the handler on *)
(* an alternate one.                                                       *)
OverflowStack(t) ==
  /\ pc[t] = "user"
  /\ Running(t)
  /\ \/ /\ disp = "coffin"
        /\ t \in altstack
        /\ Goto(t, "report")
        /\ resume' = [resume EXCEPT ![t] = "overflow"]
        /\ UNCHANGED <<alive, silent>>
     \/ /\ ~(disp = "coffin" /\ t \in altstack)
        /\ Die
        /\ silent' = (disp = "coffin")
        /\ UNCHANGED <<pc, resume>>
  /\ UNCHANGED <<guard, back, from, arg, initVars, lock, disp, started, config, heapVars,
                 stuck, crossed, restored, shadowed>>

(* Mutant: annotations do not force the guard. *)
Forced_SymbolizeOnly == config.symbolize

Forced == config.symbolize \/ config.annotate

(* report up to the stacks: force_guard, the report, the scan, for which   *)
(* try_get waits for nobody.                                               *)
Report(t) ==
  /\ pc[t] = "report"
  /\ guard' = IF Forced THEN [guard EXCEPT ![t] = TRUE] ELSE guard
  /\ stuck' = IF Forced THEN stuck \cup {t} ELSE stuck
  /\ Goto(t, IF config.symbolize THEN "stacks" ELSE IF config.annotate THEN "annotate" ELSE "policy")
  /\ UNCHANGED <<back, from, resume, arg, initVars, lock, disp, alive, started, config, heapVars,
                 crossed, restored, shadowed, silent>>

(* symbolize_ip has resolved the last address; it has called the allocator *)
(* as often as it liked.                                                   *)
Symbolized(t) ==
  /\ pc[t] = "stacks"
  /\ Goto(t, IF config.annotate THEN "annotate" ELSE "policy")
  /\ UNCHANGED <<threadVars, initVars, lock, disp, alive, started, config, heapVars, history>>

(* emit_annotations is done, and so has it. *)
Annotated(t) ==
  /\ pc[t] = "annotate"
  /\ Goto(t, "policy")
  /\ UNCHANGED <<threadVars, initVars, lock, disp, alive, started, config, heapVars, history>>

(* The termination policy. *)
OnFault(t) ==
  /\ pc[t] = "policy"
  /\ \/ config.on_fault = "exit" /\ Die /\ UNCHANGED <<pc, disp, restored>>
     \/ /\ config.on_fault = "abort"
        /\ disp' = "default"
        /\ restored' = TRUE
        /\ Goto(t, "again")
        /\ UNCHANGED alive
  /\ UNCHANGED <<threadVars, initVars, lock, started, config, heapVars,
                 stuck, crossed, shadowed, silent>>

(* The access runs again: it faults, into the handler if arm() has set it  *)
(* again, or succeeds, if it was one to memory.                            *)
Again(t) ==
  /\ pc[t] = "again"
  /\ \/ disp = "coffin" /\ Goto(t, "report") /\ UNCHANGED alive
     \/ disp # "coffin" /\ Die /\ UNCHANGED pc
     \/ resume[t] = "user" /\ Goto(t, "user") /\ UNCHANGED alive
  /\ UNCHANGED <<threadVars, initVars, lock, disp, started, config, heapVars, history>>

-----------------------------------------------------------------------------
(* What a thread does without the program asking for it. *)
Proceed(t) ==
  \/ Lock(t) \/ AllocEnd(t) \/ FreeEnd(t)
  \/ Ready(t) \/ FirstCall(t) \/ New(t) \/ CallOnce(t) \/ Sigaction(t) \/ PanicEnd(t)
  \/ Report(t) \/ Symbolized(t) \/ Annotated(t) \/ OnFault(t) \/ Again(t)

Call(t) ==
  \/ \E p \in Ptr : AllocNested(t, p) \/ FreeNested(t, p) \/ FreeBegin(t, p)
  \/ AllocBegin(t) \/ Arm(t) \/ Fault(t) \/ OverflowStack(t)

PrNext ==
  /\ alive
  /\ \/ \E t \in Threads : Proceed(t) \/ Call(t)
     \/ RuntimeStart

PrSpec == PrInit /\ [][PrNext]_processVars

(* A thread inside Coffin, or in the handler, keeps running. *)
PrFairSpec == PrSpec /\ \A t \in Threads : WF_processVars(alive /\ Proceed(t))
-----------------------------------------------------------------------------
(* Properties. *)

PrTypeOK ==
  /\ pc \in [Threads -> PC]
  /\ guard \in [Threads -> BOOLEAN]
  /\ back \in [Threads -> Caller]
  /\ from \in [Threads -> RegistryPC]
  /\ resume \in [Threads -> {"user", "overflow"} \cup LockedPC]
  /\ arg \in [Threads -> Ptr \cup {NoPtr}]
  /\ reg \in {"uninit", "running", "ready"}
  /\ initBy \in Threads \cup {NoThread}
  /\ lock \in Threads \cup {NoThread}
  /\ once \in BOOLEAN
  /\ altstack \in SUBSET Threads
  /\ disp \in {"default", "std", "coffin"}
  /\ alive \in BOOLEAN
  /\ started \in BOOLEAN
  /\ config \in Configs
  /\ by \in [Ptr -> {"none", "coffin", "system"}]
  /\ holder \in [Ptr -> {"none", "program", "coffin"}]
  /\ stuck \in SUBSET Threads
  /\ crossed \in SUBSET Threads
  /\ restored \in BOOLEAN
  /\ shadowed \in BOOLEAN
  /\ silent \in BOOLEAN

Balanced(t) ==
  /\ pc[t] \in InsidePC => guard[t]
  /\ pc[t] = "user" /\ guard[t] => t \in stuck

(* The guard is set wherever Coffin holds or may take its lock, and clear  *)
(* whenever the program runs, unless a handler that symbolizes or a panic  *)
(* has left it set.                                                        *)
GuardIsBalanced == \A t \in Threads : Balanced(t)

(* No thread waits for itself: neither for the spinlock it holds, when     *)
(* capture_ips or a symbolizer called under the lock allocates, nor for    *)
(* the initialisation it runs, unless that panics because COFFIN_MAX_LIVE  *)
(* is too large (the panic of an initialisation by arm() allocates).       *)
NoSelfWait ==
  \A t \in Threads :
    /\ lock = t => pc[t] \notin {"wantInsert", "wantFree"}
    /\ Initialising(t) /\ config.arena # "too large" => pc[t] \notin RegistryPC

(* The handler never waits, neither for the lock nor for the registry: no  *)
(* call its symbolizer makes of the allocator enters Coffin.               *)
HandlerNeverWaits ==
  \A t \in Threads :
    pc[t] \in {"mapped", "checked", "wantInsert", "wantFree"} =>
      back[t] \notin {"stacks", "annotate"}

(* lib.rs:138: a pointer given to System.dealloc without a lookup is       *)
(* System's, except from a thread whose guard was left set.                *)
NestedFreesAreSystems == crossed \subseteq stuck

(* Once the program holds a fenced pointer its faults reach the handler,   *)
(* until a handler restores the default disposition; only the runtime can  *)
(* take that away, and only until arm() has run.                           *)
FencedIsWatched ==
  (\E p \in Ptr : by[p] = "coffin") /\ ~restored /\ ~shadowed => disp = "coffin"

(* A thread that calls registry() gets it, or the process ends: there is   *)
(* no cycle between the initialisation, the handler and the lock.          *)
InitialisationEnds ==
  \A t \in Threads :
    config.arena # "too large" /\ pc[t] \in RegistryPC ~> pc[t] \notin RegistryPC \/ ~alive

(* handler.rs:10: the handler "survives even a stack-overflow fault".      *)
OverflowIsReported == ~silent
-----------------------------------------------------------------------------
(* The inductive invariant behind these properties: what is known of each  *)
(* thread, and of what the threads share.                                  *)

(* A thread runs the initialisation from its call of registry() to its     *)
(* end; only its panic may call the allocator, and then waits for itself.  *)
InitOf(t) ==
  /\ Initialising(t) =>
       \/ pc[t] \in InitPC
       \/ config.arena = "too large" /\ pc[t] \in {"panic", "mapped"}
  /\ pc[t] \in InitPC => Initialising(t) \/ (pc[t] # "new" /\ reg = "ready")
  /\ pc[t] = "panic" => guard[t] \/ Initialising(t)

(* The callers of Coffin proper are the program and the panic machinery,   *)
(* the latter only to wait.                                                *)
BackOf(t) ==
  /\ back[t] \in {"user", "panic"}
  /\ back[t] = "panic" => pc[t] = "mapped" /\ Initialising(t)

(* The initialisation that t runs is inside a call of the allocator. *)
Inside(t) == Initialising(t) /\ from[t] \in {"mapped", "checked"}

(* Inside a call the guard is set; outside of one, only if stuck. *)
GuardOf(t) ==
  /\ pc[t] \in InitPC /\ Inside(t) => guard[t]
  /\ pc[t] \in InitPC /\ ~Inside(t) /\ guard[t] => t \in stuck
  /\ pc[t] = "arm" /\ guard[t] => t \in stuck
  /\ pc[t] \in HandlerPC /\ resume[t] = "user" /\ guard[t] => t \in stuck
  /\ pc[t] \in {"stacks", "annotate"} => guard[t]

(* The lock is held inside insert and free, and by a handler that has      *)
(* interrupted one of them.                                                *)
InLocked(t) == pc[t] \in LockedPC \/ (pc[t] \in HandlerPC /\ resume[t] \in LockedPC)

LockOf(t) == lock = t <=> InLocked(t)

(* The registry is there once a thread wants its lock. *)
ReadyOf(t) == pc[t] \in {"wantInsert", "wantFree"} \/ InLocked(t) => reg = "ready"

ThreadInv(t) ==
  Balanced(t) /\ InitOf(t) /\ BackOf(t) /\ GuardOf(t) /\ LockOf(t) /\ ReadyOf(t)

OnceInv == reg = "running" <=> initBy # NoThread

(* Whoever has a fenced pointer has the registry, and the handler with it. *)
ReadyInv ==
  /\ \A p \in Ptr : by[p] = "coffin" => reg = "ready"
  /\ reg = "ready" /\ ~restored /\ ~shadowed => disp = "coffin"

(* What Coffin's own callees hold is System's; a pointer that is being     *)
(* freed is nobody's, and not free yet.                                    *)
HeapInv ==
  /\ \A p \in Ptr : holder[p] # "none" => by[p] # "none"
  /\ \A p \in Ptr : holder[p] = "coffin" => by[p] = "system"
  /\ \A t \in Threads :
       arg[t] # NoPtr => holder[arg[t]] = "none" /\ by[arg[t]] # "none"
  /\ \A t, u \in Threads : t # u /\ arg[t] # NoPtr => arg[t] # arg[u]

PrIInv ==
  /\ PrTypeOK
  /\ \A t \in Threads : ThreadInv(t)
  /\ OnceInv
  /\ ReadyInv
  /\ HeapInv
  /\ NestedFreesAreSystems
=============================================================================
