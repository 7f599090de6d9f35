----------------------------- MODULE Postmortem -----------------------------
(***************************************************************************)
(* The fault handler (src/handler.rs) and its lock-free scan of the        *)
(* registry (Arena::classify), beside the threads that write the registry. *)
(*                                                                         *)
(* A thread of the program touches a page it may not touch; its handler    *)
(* walks the slots without the lock, reports, and then either exits or     *)
(* restores the default disposition and lets the access run again.  The    *)
(* fields of a slot are loaded one by one, relaxed, after one Acquire load *)
(* of its state: each of them is that of the region the slot held at that  *)
(* load or of any region stored in the slot since (window).                *)
(***************************************************************************)
EXTENDS Registry

CONSTANTS
  Guard,    \* Guard[r]: the guard page of region r
  Policies, \* values of COFFIN_ON_FAULT
  Touches   \* Touches[t]: the pages thread t of the program accesses

ASSUME LayoutAssumption ==
  /\ \A r \in Region :
       /\ Guard[r] \in Span[r]
       /\ User[r] \in Span[r]
       /\ User[r] # Guard[r]
  /\ Policies \subseteq {"exit", "abort"}
  /\ Touches \in [Threads -> SUBSET Page]

VARIABLES
  hpc,       \* where the handler of each thread is; "run": not in the handler
  addr,      \* the fault address
  slot,      \* the slot classify is at
  st,        \* the state loaded from that slot
  window,    \* the regions whose fields the loads from that slot may return
  verdict,   \* FaultInfo: the kind, the regions its base and its length were
             \* read from, and those all other fields and the stacks were
  alive,     \* the process has not terminated
  policy,    \* config::on_fault()
  disp,      \* the disposition of SIGSEGV and SIGBUS
  truth,     \* history: what the address was when the access faulted
  calm,      \* history: no eviction has been under way since
  told       \* history: a report has been completed

scanVars == <<addr, slot, st, window, verdict>>
history  == <<truth, calm, told>>
hvars    == <<hpc, scanVars, alive, policy, disp, history>>

NoVerdict == [kind |-> "Wild", base |-> None, len |-> None, rest |-> {}]

NoTruth == [region |-> None, place |-> "Wild", freed |-> "no"]

-----------------------------------------------------------------------------
(* Page g is the guard page of a mapped region. *)
Guarded(g) ==
  \/ \E i \in Idx : Holding(i) /\ Guard[entry[i]] = g
  \/ \E t \in Threads : InFlight(t) /\ Guard[reg[t]] = g

(* An access to page g faults. *)
Faults(g) == prot[g] # "mapped" \/ Guarded(g)

(* The kind classify gives to page g in a slot whose state was s, its user *)
(* pointer that of region u and its guard address that of region d.        *)
KindOf(s, g, u, d) ==
  CASE s = FREED -> "UseAfterFree"
    [] s # FREED /\ g = Guard[d] /\ Guard[d] >= User[u] -> "Overflow"
    [] s # FREED /\ g = Guard[d] /\ Guard[d] < User[u] -> "Underflow"
    [] OTHER -> "LiveRegion"

(* What an access to page g of region r is while the region is live: past  *)
(* the end of the buffer, before its start, or inside.                     *)
Place(r, g) ==
  CASE g = Guard[r] /\ g > User[r] -> "Overflow"
    [] g = Guard[r] /\ g < User[r] -> "Underflow"
    [] g # Guard[r] -> "LiveRegion"

(* Whether the region of slot i has been freed, as its page g shows: it is *)
(* sealed first, and the thread that seals it then says so in the slot.    *)
Freed(i, g) ==
  CASE prot[g] # "sealed" -> "no"
    [] prot[g] = "sealed" /\ Sealing(i) -> "under way"
    [] prot[g] = "sealed" /\ ~Sealing(i) -> "yes"

(* What page g is: the region of the table it belongs to, where in it, and *)
(* whether that has been freed.  The state the handler will read in the    *)
(* slot has no part in it.                                                 *)
TruthOf(g) ==
  LET owners == {i \in Idx : Holding(i) /\ g \in Span[entry[i]]}
  IN  IF owners = {} THEN NoTruth
      ELSE LET i == CHOOSE j \in owners : TRUE
           IN  [region |-> entry[i], place |-> Place(entry[i], g), freed |-> Freed(i, g)]

HInit ==
  /\ hpc = [t \in Threads |-> "run"]
  /\ addr = [t \in Threads |-> None]
  /\ slot = [t \in Threads |-> 0]
  /\ st = [t \in Threads |-> EMPTY]
  /\ window = [t \in Threads |-> {}]
  /\ verdict = [t \in Threads |-> NoVerdict]
  /\ alive = TRUE
  /\ policy \in Policies
  /\ disp = "coffin"
  /\ truth = [t \in Threads |-> NoTruth]
  /\ calm = [t \in Threads |-> TRUE]
  /\ told = FALSE

PInit == Init /\ HInit

HGoto(t, from, to) ==
  /\ hpc[t] = from
  /\ hpc' = [hpc EXCEPT ![t] = to]

(* Any access of the program that faults while the handler is installed. *)
Fault(t, g) ==
  /\ pc[t] = "idle"
  /\ Faults(g)
  /\ disp = "coffin"
  /\ HGoto(t, "run", "scan")
  /\ addr' = [addr EXCEPT ![t] = g]
  /\ slot' = [slot EXCEPT ![t] = 0]
  /\ truth' = [truth EXCEPT ![t] = TruthOf(g)]
  /\ calm' = [calm EXCEPT ![t] = \A u \in Threads : pc[u] # "tomb"]
  /\ UNCHANGED <<st, window, verdict, alive, policy, disp, told>>

(* A fault under the default disposition terminates the process. *)
Kill(t, g) ==
  /\ pc[t] = "idle"
  /\ hpc[t] = "run"
  /\ Faults(g)
  /\ disp = "default"
  /\ alive' = FALSE
  /\ UNCHANGED <<hpc, scanVars, policy, disp, history>>

-----------------------------------------------------------------------------
(* Arena::classify *)

(* Mutant: the index runs past the last slot. *)
NextSlot_NoWrap(t) ==
  /\ slot' = [slot EXCEPT ![t] = @ + 1]
  /\ hpc' = [hpc EXCEPT ![t] = IF slot[t] + 1 = Cap THEN "report" ELSE "scan"]
  /\ window' = [window EXCEPT ![t] = {}]
  /\ st' = [st EXCEPT ![t] = EMPTY]
  /\ UNCHANGED <<addr, verdict, alive, policy, disp, history>>

(* On to the next slot; after the last one the verdict is Wild. *)
NextSlot(t) ==
  /\ slot' = [slot EXCEPT ![t] = IF @ + 1 = Cap THEN 0 ELSE @ + 1]
  /\ hpc' = [hpc EXCEPT ![t] = IF slot[t] + 1 = Cap THEN "report" ELSE "scan"]
  /\ window' = [window EXCEPT ![t] = {}]
  /\ st' = [st EXCEPT ![t] = EMPTY]
  /\ UNCHANGED <<addr, verdict, alive, policy, disp, history>>

(* Mutant: the regions in quarantine are skipped too. *)
Skip_Freed(t) ==
  /\ hpc[t] = "scan"
  /\ state[slot[t]] # READY
  /\ NextSlot(t)

(* The state is loaded: anything but READY and FREED is skipped. *)
Skip(t) ==
  /\ hpc[t] = "scan"
  /\ ~Tracked(slot[t])
  /\ NextSlot(t)

(* Mutant: the handler waits for the spinlock. *)
Visit_Locked(t) ==
  /\ HGoto(t, "scan", "range")
  /\ ~held
  /\ Tracked(slot[t])
  /\ st' = [st EXCEPT ![t] = state[slot[t]]]
  /\ window' = [window EXCEPT ![t] = {entry[slot[t]]}]
  /\ UNCHANGED <<addr, slot, verdict, alive, policy, disp, history>>

(* A READY or FREED slot is looked into. *)
Visit(t) ==
  /\ HGoto(t, "scan", "range")
  /\ Tracked(slot[t])
  /\ st' = [st EXCEPT ![t] = state[slot[t]]]
  /\ window' = [window EXCEPT ![t] = {entry[slot[t]]}]
  /\ UNCHANGED <<addr, slot, verdict, alive, policy, disp, history>>

(* Mutant: the end of the region is taken to be inside. *)
InRange_Closed(t, b, n) == addr[t] \in Base[b]..(Base[b] + Total[n])

(* The range test, on a base and a length that may be of two regions. *)
InRange(t, b, n) == addr[t] \in Base[b]..(Base[b] + Total[n] - 1)

Outside(t) ==
  /\ hpc[t] = "range"
  /\ \E b, n \in window[t] : ~InRange(t, b, n)
  /\ NextSlot(t)

Inside(t) ==
  /\ HGoto(t, "range", "kind")
  /\ \E b, n \in window[t] :
       /\ InRange(t, b, n)
       /\ verdict' = [verdict EXCEPT ![t].base = b, ![t].len = n]
  /\ UNCHANGED <<addr, slot, st, window, alive, policy, disp, history>>

(* The user pointer and the guard address, which decide the kind, are      *)
(* loaded, then the size and the alignment.                                *)
Decide(t) ==
  /\ HGoto(t, "kind", "report")
  /\ \E u, d, s, a \in window[t] :
       verdict' = [verdict EXCEPT ![t].kind = KindOf(st[t], addr[t], u, d),
                                  ![t].rest = {u, d, s, a}]
  /\ UNCHANGED <<addr, slot, st, window, alive, policy, disp, history>>

-----------------------------------------------------------------------------
(* report and handle *)

(* read_ips: the frames of a stack are loaded one by one, and may be those *)
(* of several regions.                                                     *)
ReadIps(t) == SUBSET window[t] \ {{}}

(* The report is printed; the stacks of the slot, of its allocation and of *)
(* its free, are read only now.                                            *)
Report(t) ==
  /\ HGoto(t, "report", "policy")
  /\ \/ /\ verdict[t].kind = "Wild"
        /\ UNCHANGED verdict
     \/ /\ verdict[t].kind # "Wild"
        /\ \E s \in ReadIps(t) : verdict' = [verdict EXCEPT ![t].rest = @ \cup s]
  /\ st' = [st EXCEPT ![t] = EMPTY]
  /\ window' = [window EXCEPT ![t] = {}]
  /\ told' = TRUE
  /\ UNCHANGED <<addr, slot, alive, policy, disp, truth, calm>>

(* OnFault::Exit *)
Exit(t) ==
  /\ policy = "exit"
  /\ hpc[t] = "policy"
  /\ alive' = FALSE
  /\ UNCHANGED <<hpc, scanVars, policy, disp, history>>

(* Mutant: the handler restores the default and returns before the report. *)
RestoreDefault_Early(t) ==
  /\ policy = "abort"
  /\ HGoto(t, "report", "again")
  /\ disp' = "default"
  /\ UNCHANGED <<scanVars, alive, policy, history>>

(* OnFault::AbortWithSignal *)
RestoreDefault(t) ==
  /\ policy = "abort"
  /\ HGoto(t, "policy", "again")
  /\ disp' = "default"
  /\ UNCHANGED <<scanVars, alive, policy, history>>

(* The handler has returned and the access runs again: it kills...         *)
Die(t) ==
  /\ hpc[t] = "again"
  /\ Faults(addr[t])
  /\ alive' = FALSE
  /\ UNCHANGED <<hpc, scanVars, policy, disp, history>>

(* ...or succeeds. *)
Resume(t) ==
  /\ HGoto(t, "again", "run")
  /\ ~Faults(addr[t])
  /\ addr' = [addr EXCEPT ![t] = None]
  /\ slot' = [slot EXCEPT ![t] = 0]
  /\ verdict' = [verdict EXCEPT ![t] = NoVerdict]
  /\ truth' = [truth EXCEPT ![t] = NoTruth]
  /\ calm' = [calm EXCEPT ![t] = TRUE]
  /\ UNCHANGED <<st, window, alive, policy, disp, told>>

Handler(t) ==
  \/ Skip(t)
  \/ Visit(t)
  \/ Outside(t)
  \/ Inside(t)
  \/ Decide(t)
  \/ Report(t)
  \/ Exit(t)
  \/ RestoreDefault(t)
  \/ Die(t)
  \/ Resume(t)

(* A thread outside the handler takes a step of the registry: the readers  *)
(* of a slot it refills may see the new fields from now on.                *)
Program(t) ==
  /\ hpc[t] = "run"
  /\ Step(t)
  /\ window' = [u \in Threads |->
       IF window[u] # {} /\ entry'[slot[u]] # entry[slot[u]]
       THEN window[u] \cup {entry'[slot[u]]} ELSE window[u]]
  /\ calm' = [u \in Threads |-> calm[u] /\ ~(Unmap(t) /\ hpc[u] # "run")]
  /\ UNCHANGED <<hpc, addr, slot, st, verdict, alive, policy, disp, truth, told>>

HandlerStep(t) == alive /\ Handler(t) /\ UNCHANGED vars

PNext ==
  \E t \in Threads :
    \/ HandlerStep(t)
    \/ alive /\ Program(t)
    \/ \E g \in Touches[t] : alive /\ (Fault(t, g) \/ Kill(t, g)) /\ UNCHANGED vars

PSpec == PInit /\ [][PNext]_<<vars, hvars>>

(* A handler keeps running; nothing is assumed of the other threads, which *)
(* may stop anywhere, the holder of the spinlock included.                 *)
FairHandlers == PSpec /\ \A t \in Threads : WF_<<vars, hvars>>(HandlerStep(t))
-----------------------------------------------------------------------------
(* Properties. *)

Kinds == {"Overflow", "Underflow", "UseAfterFree", "LiveRegion", "Wild"}

MaybeRegion == Region \cup {None}

PTypeOK ==
  /\ TypeOK
  /\ hpc \in [Threads -> {"run", "scan", "range", "kind", "report", "policy", "again"}]
  /\ addr \in [Threads -> Page \cup {None}]
  /\ slot \in [Threads -> Idx]
  /\ st \in [Threads -> {EMPTY, READY, FREED}]
  /\ window \in [Threads -> SUBSET Region]
  /\ verdict \in [Threads -> [kind : Kinds, base : MaybeRegion, len : MaybeRegion,
                              rest : SUBSET Region]]
  /\ alive \in BOOLEAN
  /\ policy \in Policies
  /\ disp \in {"coffin", "default"}
  /\ truth \in [Threads -> [region : MaybeRegion, place : Kinds \ {"UseAfterFree"},
                            freed : {"no", "under way", "yes"}]]
  /\ calm \in [Threads -> BOOLEAN]
  /\ told \in BOOLEAN

Reported(t) == hpc[t] \in {"policy", "again"}

(* The regions the fields of a verdict were read from. *)
SeenBy(t) == {verdict[t].base, verdict[t].len} \cup verdict[t].rest

(* Unless an eviction is under way meanwhile, a report describes one       *)
(* region, the one that contains the fault address, with its own size,     *)
(* alignment and stacks: threads that allocate and free during the scan do *)
(* not confuse it.                                                         *)
ReportIsWhole ==
  \A t \in Threads : Reported(t) /\ calm[t] /\ verdict[t].kind # "Wild" =>
    \E r \in Region :
      /\ SeenBy(t) = {r}
      /\ addr[t] \in Span[r]
      /\ truth[t].place # "Wild" => r = truth[t].region

(* Unless an eviction is under way meanwhile, an overflow is reported as   *)
(* one, or as a use after free if the buffer has been freed since; a use   *)
(* after free always as such; and "inside live region (unexpected)" is     *)
(* printed only of an access that met free between protect_none and the    *)
(* store of FREED.  For programs that free each pointer once.              *)
KindIsRight ==
  \A t \in Threads : Reported(t) /\ calm[t] /\ truth[t].place # "Wild" =>
    /\ verdict[t].kind \in {truth[t].place, "UseAfterFree"}
    /\ truth[t].freed = "yes" => verdict[t].kind = "UseAfterFree"
    /\ verdict[t].kind = "LiveRegion" => truth[t].freed = "under way"
    /\ verdict[t].kind = "UseAfterFree" =>
         \E i \in Idx : entry[i] = truth[t].region /\ state[i] = FREED

(* The process never dies of a fault before a report has been completed.   *)
NoSilentDeath == ~alive => told

(* A fault ends the process, whatever the other threads do or hold, unless *)
(* the policy is to return and the access then goes through.               *)
FaultIsFatal ==
  \A t \in Threads : hpc[t] # "run" ~> ~alive \/ (policy = "abort" /\ hpc[t] = "run")

(* An access that faulted goes through in the end only if its page was not *)
(* Coffin's, or the region it was in has been evicted: no access to a live *)
(* guard page or to a region in quarantine is ever let through.            *)
OnlyEvictedResumes ==
  [][\A t \in Threads : Resume(t) => ~calm[t] \/ truth[t].place = "Wild"]_<<vars, hvars>>

(* registry.rs:13: a reader "never observes a torn entry", and :404: "a    *)
(* torn read at worst misclassifies as Wild": the base and the length a    *)
(* report prints are those of a region that contains the fault address.    *)
TornIsWild ==
  \A t \in Threads : Reported(t) /\ verdict[t].kind # "Wild" =>
    \E r \in Region :
      /\ addr[t] \in Span[r]
      /\ Base[verdict[t].base] = Base[r]
      /\ Total[verdict[t].len] = Total[r]

(* handler.rs:92: there is no "continue", a guard-page fault cannot be     *)
(* resumed (the memory genuinely isn't there).                             *)
NoContinue ==
  [][\A t \in Threads : Resume(t) => truth[t].place \notin {"Overflow", "Underflow"}]_<<vars, hvars>>
-----------------------------------------------------------------------------
(* The inductive invariant behind the properties that need no fairness; it *)
(* rests on that of Registry.tla, which the handlers leave alone.          *)

(* The handler of thread t runs, and no region has been evicted since the  *)
(* access faulted.                                                         *)
Quiet(t) == hpc[t] # "run" /\ calm[t]

(* Nobody dies, and the disposition is not restored, before the report.    *)
ToldInv ==
  /\ \A t \in Threads : Reported(t) => told
  /\ disp = "default" => told
  /\ NoSilentDeath

NoneEvicted == \A t, u \in Threads : Quiet(t) => pc[u] # "tomb"

(* Slot i still has the region that the address of thread t was in when    *)
(* the access faulted, the access still faults, and the scan has not gone  *)
(* past the slot.                                                          *)
Witness(t, i) ==
  /\ Tracked(i)
  /\ entry[i] = truth[t].region
  /\ addr[t] \in Span[entry[i]]
  /\ Guard[entry[i]] = addr[t] \/ prot[addr[t]] = "sealed"
  /\ truth[t].place = Place(entry[i], addr[t])
  /\ hpc[t] \in {"scan", "range", "kind"} => slot[t] <= i

(* In a program that frees each pointer once, if the region had been freed *)
(* when the access faulted its slot said so.                               *)
WitnessFreed(t, i) ==
  /\ truth[t].freed = "yes" => state[i] = FREED
  /\ truth[t].freed = "yes" /\ hpc[t] \in {"range", "kind"} /\ slot[t] = i => st[t] = FREED
  /\ truth[t].freed = "no" => truth[t].place # "LiveRegion"

WitnessInv ==
  \A t \in Threads : Quiet(t) /\ truth[t].place # "Wild" =>
    \E i \in Idx : Witness(t, i) /\ (~DoubleFree => WitnessFreed(t, i))

(* The fields loaded so far are those of the region in the slot, and the   *)
(* state loaded first is still true if it was FREED.                       *)
LoadedFrom(t, fields) ==
  /\ Tracked(slot[t])
  /\ window[t] = {entry[slot[t]]}
  /\ fields \subseteq {entry[slot[t]]}
  /\ fields # {} => addr[t] \in Span[entry[slot[t]]]

(* What the verdict says of the region in slot i. *)
Judged(t, i) ==
  /\ verdict[t].kind \in {truth[t].place, "UseAfterFree"}
  /\ verdict[t].kind = "UseAfterFree" => state[i] = FREED
  /\ ~DoubleFree =>
       /\ truth[t].freed = "yes" => verdict[t].kind = "UseAfterFree"
       /\ verdict[t].kind = "LiveRegion" => truth[t].freed = "under way"

ScanInv ==
  \A t \in Threads :
    /\ hpc[t] \in {"run", "scan", "range"} => verdict[t] = NoVerdict
    /\ Quiet(t) /\ hpc[t] = "range" => LoadedFrom(t, {})
    /\ Quiet(t) /\ hpc[t] = "kind" => LoadedFrom(t, {verdict[t].base, verdict[t].len})
    /\ Quiet(t) /\ hpc[t] \in {"range", "kind"} /\ st[t] = FREED => state[slot[t]] = FREED
    /\ Quiet(t) /\ hpc[t] = "report" /\ verdict[t].kind # "Wild" => LoadedFrom(t, SeenBy(t))
    /\ Quiet(t) /\ hpc[t] \in {"report", "policy", "again"} /\ truth[t].place # "Wild" =>
         \E i \in Idx : entry[i] = truth[t].region /\ Judged(t, i)

PostmortemInv ==
  /\ PTypeOK
  /\ ToldInv
  /\ NoneEvicted
  /\ WitnessInv
  /\ ScanInv
  /\ ReportIsWhole
  /\ ~DoubleFree => KindIsRight
=============================================================================
