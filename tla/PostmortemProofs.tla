--------------------------- MODULE PostmortemProofs ---------------------------
(***************************************************************************)
(* The fault handler, proved for any number of threads, any table and any  *)
(* layout of the regions: the process does not die unreported, and beside  *)
(* every step of the program but an eviction the report is right.          *)
(***************************************************************************)
EXTENDS Postmortem, HeapProofs

(* The handlers write nothing of the registry: with them the program does  *)
(* what it does without.                                                   *)
THEOREM HandlersOnlyRead == PSpec => Spec
<1>1. PInit => Init
  BY DEF PInit
<1>2. [PNext]_<<vars, hvars>> => [Next]_vars
  BY DEF PNext, HandlerStep, Program, Next
<1>3. QED
  BY <1>1, <1>2, PTL DEF PSpec, Spec
-----------------------------------------------------------------------------
(* Lemmas about the operators. *)

(* A page belongs to one slot of the table at most.                        *)
LEMMA SameSlot ==
  ASSUME IInv, NEW i \in Idx, NEW j \in Idx, Tracked(i), Tracked(j),
         NEW g, g \in Span[entry[i]], g \in Span[entry[j]]
  PROVE  i = j
BY DEF IInv, NoOverlap, Apart

(* What classify finds in a slot is never Wild.                            *)
LEMMA KindType ==
  ASSUME NEW s, NEW g, NEW u, NEW d
  PROVE  KindOf(s, g, u, d) \in Kinds \ {"Wild"}
BY DEF KindOf, Kinds

LEMMA KindOfFreed ==
  ASSUME NEW g, NEW u, NEW d
  PROVE  KindOf(FREED, g, u, d) = "UseAfterFree"
BY DEF KindOf

(* The guard page of a region and its user pointer are two pages of it.    *)
LEMMA Layout ==
  ASSUME NEW r \in Region
  PROVE  /\ Guard[r] \in Span[r] /\ User[r] \in Span[r]
         /\ Guard[r] \in Nat /\ User[r] \in Nat /\ Guard[r] # User[r]
<1>1. Guard[r] \in Span[r] /\ User[r] \in Span[r] /\ User[r] # Guard[r]
  BY LayoutAssumption
<1>2. Span[r] \subseteq Nat
  BY SpanFacts, GeometryAssumption
<1>3. QED
  BY <1>1, <1>2

LEMMA PlaceType ==
  ASSUME NEW r \in Region, NEW g
  PROVE  Place(r, g) \in {"Overflow", "Underflow", "LiveRegion"}
BY Layout DEF Place

(* An access inside is one that does not hit the guard page.               *)
LEMMA PlaceInside ==
  ASSUME NEW r \in Region, Place(r, Guard[r]) = "LiveRegion"
  PROVE  FALSE
BY Layout DEF Place

(* Of a region that is not freed, classify says what is the case.          *)
LEMMA KindOfLive ==
  ASSUME NEW r \in Region, NEW g, NEW s, s # FREED
  PROVE  KindOf(s, g, r, r) = Place(r, g)
<1>1. Guard[r] \in Nat /\ User[r] \in Nat /\ Guard[r] # User[r]
  BY Layout
<1>2. CASE g # Guard[r]
  BY <1>2 DEF KindOf, Place
<1>3. CASE g = Guard[r] /\ Guard[r] > User[r]
  <2>1. Guard[r] >= User[r] /\ ~(Guard[r] < User[r])
    BY <1>1, <1>3
  <2>2. QED
    BY <1>3, <2>1 DEF KindOf, Place
<1>4. CASE g = Guard[r] /\ Guard[r] < User[r]
  <2>1. ~(Guard[r] >= User[r]) /\ ~(Guard[r] > User[r])
    BY <1>1, <1>4
  <2>2. QED
    BY <1>4, <2>1 DEF KindOf, Place
<1>5. QED
  BY <1>1, <1>2, <1>3, <1>4

LEMMA TruthOfIs ==
  ASSUME NEW g
  PROVE  \/ TruthOf(g) = NoTruth
         \/ \E i \in Idx :
              /\ Holding(i) /\ g \in Span[entry[i]]
              /\ TruthOf(g) = [region |-> entry[i], place |-> Place(entry[i], g), freed |-> Freed(i, g)]
<1>1. DEFINE owners == {i \in Idx : Holding(i) /\ g \in Span[entry[i]]}
<1>2. CASE owners = {}
  BY <1>2 DEF TruthOf
<1>3. CASE owners # {}
  <2>1. PICK i \in owners : i = CHOOSE j \in owners : TRUE
    BY <1>3
  <2>2. TruthOf(g) = [region |-> entry[i], place |-> Place(entry[i], g), freed |-> Freed(i, g)]
    BY <1>3, <2>1 DEF TruthOf
  <2>3. QED
    BY <2>1, <2>2
<1>4. QED
  BY <1>2, <1>3

LEMMA FreedType ==
  ASSUME NEW i, NEW g
  PROVE  Freed(i, g) \in {"no", "under way", "yes"}
BY DEF Freed

Verdicts ==
  [kind : Kinds, base : MaybeRegion, len : MaybeRegion, rest : SUBSET Region]

Truths ==
  [region : MaybeRegion, place : Kinds \ {"UseAfterFree"}, freed : {"no", "under way", "yes"}]

LEMMA NothingYet ==
  NoVerdict \in Verdicts /\ NoTruth \in Truths /\ 0 \in Idx
BY ConstantsAssumption DEF NoVerdict, NoTruth, Verdicts, Truths, Kinds, MaybeRegion, Idx

(* The types of what a handler keeps, and nothing else. *)
LEMMA Types ==
  ASSUME PTypeOK
  PROVE  /\ hpc \in [Threads -> {"run", "scan", "range", "kind", "report", "policy", "again"}]
         /\ addr \in [Threads -> Page \cup {None}]
         /\ slot \in [Threads -> Idx]
         /\ st \in [Threads -> {EMPTY, READY, FREED}]
         /\ window \in [Threads -> SUBSET Region]
         /\ verdict \in [Threads -> Verdicts]
         /\ truth \in [Threads -> Truths]
         /\ calm \in [Threads -> BOOLEAN]
BY DEF PTypeOK, Verdicts, Truths
-----------------------------------------------------------------------------
(* Type correctness, action by action. *)

LEMMA NextSlotType ==
  ASSUME PTypeOK, NEW t \in Threads, NextSlot(t), UNCHANGED vars
  PROVE  PTypeOK'
<1>1. TypeOK'
  BY DEF PTypeOK, TypeOK, vars
<1>2. slot[t] \in Idx /\ Cap \in Nat \ {0}
  BY ConstantsAssumption DEF PTypeOK
<1>3. (IF slot[t] + 1 = Cap THEN 0 ELSE slot[t] + 1) \in Idx
  BY <1>2 DEF Idx
<1>4. QED
  BY <1>1, <1>3 DEF PTypeOK, NextSlot, history

LEMMA InsideIs ==
  ASSUME PTypeOK, NEW t \in Threads, Inside(t)
  PROVE  \E b, n \in window[t] :
           /\ InRange(t, b, n)
           /\ verdict' \in [Threads -> Verdicts]
           /\ verdict'[t] = [verdict[t] EXCEPT !.base = b, !.len = n]
           /\ \A u \in Threads : u # t => verdict'[u] = verdict[u]
<1>1. PICK b \in window[t], n \in window[t] :
        InRange(t, b, n) /\ verdict' = [verdict EXCEPT ![t].base = b, ![t].len = n]
  BY DEF Inside
<1>2. verdict \in [Threads -> Verdicts] /\ verdict[t] \in Verdicts /\ b \in MaybeRegion /\ n \in MaybeRegion
  BY Types DEF PTypeOK, MaybeRegion
<1>3. [verdict[t] EXCEPT !.base = b, !.len = n] \in Verdicts
  BY <1>2 DEF Verdicts
<1>4. verdict' = [verdict EXCEPT ![t] = [verdict[t] EXCEPT !.base = b, !.len = n]]
  BY <1>1, <1>2
<1>5. QED
  BY <1>1, <1>2, <1>3, <1>4

LEMMA DecideIs ==
  ASSUME PTypeOK, NEW t \in Threads, Decide(t)
  PROVE  \E u, d, s, a \in window[t] :
           /\ verdict' \in [Threads -> Verdicts]
           /\ verdict'[t].kind = KindOf(st[t], addr[t], u, d)
           /\ verdict'[t].rest = {u, d, s, a}
           /\ verdict'[t].base = verdict[t].base /\ verdict'[t].len = verdict[t].len
           /\ \A w \in Threads : w # t => verdict'[w] = verdict[w]
<1>1. PICK u \in window[t], d \in window[t], s \in window[t], a \in window[t] :
        verdict' = [verdict EXCEPT ![t].kind = KindOf(st[t], addr[t], u, d), ![t].rest = {u, d, s, a}]
  BY DEF Decide
<1>2. PICK k \in Kinds : k = KindOf(st[t], addr[t], u, d)
  BY KindType
<1>3. PICK f \in SUBSET Region : f = {u, d, s, a}
  BY Types
<1>4. verdict \in [Threads -> Verdicts] /\ verdict[t] \in Verdicts
  BY Types
<1>5. [verdict[t] EXCEPT !.kind = k, !.rest = f] \in Verdicts
  BY <1>4 DEF Verdicts
<1>6. verdict' = [verdict EXCEPT ![t] = [verdict[t] EXCEPT !.kind = k, !.rest = f]]
  BY <1>1, <1>2, <1>3, <1>4
<1>7. /\ verdict'[t].kind = k /\ verdict'[t].rest = f
      /\ verdict'[t].base = verdict[t].base /\ verdict'[t].len = verdict[t].len
  BY <1>4, <1>6 DEF Verdicts
<1>8. verdict' \in [Threads -> Verdicts] /\ \A w \in Threads : w # t => verdict'[w] = verdict[w]
  BY <1>4, <1>5, <1>6
<1>9. QED
  BY <1>2, <1>3, <1>7, <1>8

LEMMA ReportIs ==
  ASSUME PTypeOK, NEW t \in Threads, Report(t)
  PROVE  /\ verdict' \in [Threads -> Verdicts]
         /\ \A w \in Threads : w # t => verdict'[w] = verdict[w]
         /\ \/ verdict[t].kind = "Wild" /\ verdict'[t] = verdict[t]
            \/ \E s \in SUBSET window[t] : verdict'[t] = [verdict[t] EXCEPT !.rest = verdict[t].rest \cup s]
<1>1. verdict \in [Threads -> Verdicts] /\ verdict[t] \in Verdicts
  BY Types
<1>2. CASE verdict[t].kind = "Wild" /\ UNCHANGED verdict
  BY <1>1, <1>2
<1>3. ASSUME NEW s \in ReadIps(t), verdict' = [verdict EXCEPT ![t].rest = @ \cup s]
      PROVE  /\ verdict' \in [Threads -> Verdicts]
             /\ \A w \in Threads : w # t => verdict'[w] = verdict[w]
             /\ s \in SUBSET window[t]
             /\ verdict'[t] = [verdict[t] EXCEPT !.rest = verdict[t].rest \cup s]
  <2>1. s \in SUBSET window[t] /\ s \subseteq Region
    BY Types DEF ReadIps
  <2>2. PICK f \in SUBSET Region : f = verdict[t].rest \cup s
    BY <1>1, <2>1 DEF Verdicts
  <2>3. [verdict[t] EXCEPT !.rest = f] \in Verdicts
    BY <1>1 DEF Verdicts
  <2>4. verdict' = [verdict EXCEPT ![t] = [verdict[t] EXCEPT !.rest = f]]
    BY <1>1, <1>3, <2>2
  <2>5. QED
    BY <1>1, <2>1, <2>2, <2>3, <2>4
<1>4. QED
  BY <1>2, <1>3 DEF Report

LEMMA HandlerType ==
  ASSUME PTypeOK, IInv, NEW t \in Threads, HandlerStep(t)
  PROVE  PTypeOK'
<1>0. UNCHANGED vars /\ slot[t] \in Idx /\ TypeOK'
  BY DEF HandlerStep, PTypeOK, TypeOK, vars
<1>1. CASE Skip(t) \/ Outside(t)
  BY <1>0, <1>1, NextSlotType DEF Skip, Outside
<1>2. CASE Visit(t)
  <2>1. entry[slot[t]] \in Region /\ state[slot[t]] \in {EMPTY, READY, FREED}
    BY <1>0, <1>2 DEF Visit, IInv, EntriesAreRegions, Tracked
  <2>2. QED
    BY <1>0, <1>2, <2>1 DEF Visit, HGoto, PTypeOK, history
<1>3. CASE Inside(t)
  BY <1>0, <1>3, InsideIs DEF Inside, HGoto, PTypeOK, history, Verdicts
<1>4. CASE Decide(t)
  BY <1>0, <1>4, DecideIs DEF Decide, HGoto, PTypeOK, history, Verdicts
<1>5. CASE Report(t)
  BY <1>0, <1>5, ReportIs DEF Report, HGoto, PTypeOK, Verdicts
<1>6. CASE Exit(t) \/ RestoreDefault(t) \/ Die(t)
  BY <1>0, <1>6 DEF Exit, RestoreDefault, Die, HGoto, PTypeOK, history, scanVars
<1>7. CASE Resume(t)
  BY <1>0, <1>7, NothingYet DEF Resume, HGoto, PTypeOK, Verdicts, Truths
<1>8. QED
  BY <1>1, <1>2, <1>3, <1>4, <1>5, <1>6, <1>7 DEF HandlerStep, Handler

LEMMA FaultType ==
  ASSUME PTypeOK, IInv, NEW t \in Threads, NEW g \in Touches[t], Fault(t, g) \/ Kill(t, g), UNCHANGED vars
  PROVE  PTypeOK'
<1>1. TypeOK' /\ g \in Page /\ 0 \in Idx
  BY LayoutAssumption, NothingYet DEF PTypeOK, TypeOK, vars
<1>2. TruthOf(g) \in Truths
  <2>1. ASSUME NEW i \in Idx, Holding(i)
        PROVE  [region |-> entry[i], place |-> Place(entry[i], g), freed |-> Freed(i, g)] \in Truths
    <3>1. entry[i] \in Region
      BY <2>1 DEF Holding, IInv, EntriesAreRegions
    <3>2. PICK k \in Kinds \ {"UseAfterFree"} : k = Place(entry[i], g)
      BY <3>1, PlaceType DEF Kinds
    <3>3. PICK f \in {"no", "under way", "yes"} : f = Freed(i, g)
      BY FreedType
    <3>4. QED
      BY <3>1, <3>2, <3>3 DEF Truths, MaybeRegion
  <2>2. QED
    BY <2>1, TruthOfIs, NothingYet
<1>3. CASE Fault(t, g)
  BY <1>1, <1>2, <1>3 DEF Fault, HGoto, PTypeOK, Truths
<1>4. CASE Kill(t, g)
  BY <1>1, <1>4 DEF Kill, PTypeOK, history, scanVars
<1>5. QED
  BY <1>3, <1>4

LEMMA ProgramType ==
  ASSUME PTypeOK, IInv, NEW t \in Threads, Program(t)
  PROVE  PTypeOK'
<1>0. Step(t) /\ TypeOK' /\ slot \in [Threads -> Idx] /\ window \in [Threads -> SUBSET Region]
  <2>1. Step(t)
    BY DEF Program
  <2>2. QED
    BY <2>1, TypeStep DEF PTypeOK, IInv
<1>1. ASSUME NEW i \in Idx, entry'[i] # entry[i] PROVE entry'[i] \in Region
  <2>1. PICK j \in Idx : Fill(t, j)
    BY <1>0, <1>1, Frame
  <2>2. reg[t] \in Region
    BY <2>1 DEF Fill, Goto, IInv, HasRegion, InFlight
  <2>3. QED
    BY <1>1, <2>1, <2>2 DEF Fill, IInv, TypeOK
<1>2. ASSUME NEW u \in Threads
      PROVE  (IF window[u] # {} /\ entry'[slot[u]] # entry[slot[u]]
              THEN window[u] \cup {entry'[slot[u]]} ELSE window[u]) \in SUBSET Region
  BY <1>0, <1>1
<1>3. window' \in [Threads -> SUBSET Region]
  BY <1>2 DEF Program
<1>4. calm' \in [Threads -> BOOLEAN]
  BY DEF Program
<1>5. QED
  BY <1>0, <1>3, <1>4 DEF Program, PTypeOK
-----------------------------------------------------------------------------
(* What the invariant says of one thread. *)
ReportWhole(t) ==
  Reported(t) /\ calm[t] /\ verdict[t].kind # "Wild" =>
    \E r \in Region :
      /\ SeenBy(t) = {r}
      /\ addr[t] \in Span[r]
      /\ truth[t].place # "Wild" => r = truth[t].region

KindRight(t) ==
  Reported(t) /\ calm[t] /\ truth[t].place # "Wild" =>
    /\ verdict[t].kind \in {truth[t].place, "UseAfterFree"}
    /\ truth[t].freed = "yes" => verdict[t].kind = "UseAfterFree"
    /\ verdict[t].kind = "LiveRegion" => truth[t].freed = "under way"
    /\ verdict[t].kind = "UseAfterFree" =>
         \E i \in Idx : entry[i] = truth[t].region /\ state[i] = FREED

JudgedRight(t) ==
  Quiet(t) /\ hpc[t] \in {"report", "policy", "again"} /\ truth[t].place # "Wild" =>
    \E i \in Idx : entry[i] = truth[t].region /\ Judged(t, i)

Scanned(t) ==
  /\ hpc[t] \in {"run", "scan", "range"} => verdict[t] = NoVerdict
  /\ Quiet(t) /\ hpc[t] = "range" => LoadedFrom(t, {})
  /\ Quiet(t) /\ hpc[t] = "kind" => LoadedFrom(t, {verdict[t].base, verdict[t].len})
  /\ Quiet(t) /\ hpc[t] \in {"range", "kind"} /\ st[t] = FREED => state[slot[t]] = FREED
  /\ Quiet(t) /\ hpc[t] = "report" /\ verdict[t].kind # "Wild" => LoadedFrom(t, SeenBy(t))

Known(t, i) == Witness(t, i) /\ (~DoubleFree => WitnessFreed(t, i))

ThreadInv(t) ==
  /\ Quiet(t) => \A u \in Threads : pc[u] # "tomb"
  /\ Quiet(t) /\ truth[t].place # "Wild" => \E i \in Idx : Known(t, i)
  /\ Scanned(t)
  /\ JudgedRight(t)
  /\ ReportWhole(t)

LEMMA InvIs ==
  PostmortemInv <=> PTypeOK /\ ToldInv /\ \A t \in Threads : ThreadInv(t)
<1>1. \A t \in Threads : JudgedRight(t) /\ ~DoubleFree => KindRight(t)
  BY DEF JudgedRight, Judged, KindRight, Reported, Quiet
<1>2. KindIsRight <=> \A t \in Threads : KindRight(t)
  BY DEF KindIsRight, KindRight
<1>3. WitnessInv <=> \A t \in Threads : Quiet(t) /\ truth[t].place # "Wild" => \E i \in Idx : Known(t, i)
  BY DEF WitnessInv, Known
<1>4. ScanInv <=> \A t \in Threads : Scanned(t) /\ JudgedRight(t)
  BY DEF ScanInv, Scanned, JudgedRight
<1>5. ReportIsWhole <=> \A t \in Threads : ReportWhole(t)
  BY DEF ReportIsWhole, ReportWhole
<1>6. QED
  BY <1>1, <1>2, <1>3, <1>4, <1>5 DEF PostmortemInv, NoneEvicted, ThreadInv

(* Whatever leaves a thread and the registry alone preserves it.           *)
Same(t) ==
  /\ hpc'[t] = hpc[t] /\ addr'[t] = addr[t] /\ slot'[t] = slot[t] /\ st'[t] = st[t]
  /\ window'[t] = window[t] /\ verdict'[t] = verdict[t]
  /\ truth'[t] = truth[t] /\ calm'[t] = calm[t]

LEMMA SameKnown ==
  ASSUME UNCHANGED <<state, entry, prot>>, NEW t \in Threads, NEW i \in Idx,
         addr'[t] = addr[t], truth'[t] = truth[t], Known(t, i),
         hpc'[t] \in {"scan", "range", "kind"} => slot'[t] <= i,
         hpc'[t] \in {"range", "kind"} /\ slot'[t] = i =>
           \/ st'[t] = state[i]
           \/ hpc[t] \in {"range", "kind"} /\ slot[t] = i /\ st'[t] = st[t]
  PROVE  Known(t, i)'
<1>1. Witness(t, i)'
  BY DEF Known, Witness, Tracked
<1>2. ASSUME WitnessFreed(t, i) PROVE WitnessFreed(t, i)'
  BY <1>2 DEF WitnessFreed
<1>3. QED
  BY <1>1, <1>2 DEF Known

LEMMA SameThread ==
  ASSUME NEW t \in Threads, ThreadInv(t), UNCHANGED vars, Same(t)
  PROVE  ThreadInv(t)'
<1>0. UNCHANGED <<state, entry, prot, pc>>
  BY DEF vars
<1>1. (Quiet(t)' <=> Quiet(t)) /\ SeenBy(t)' = SeenBy(t)
  BY DEF Quiet, SeenBy, Same
<1>2. ASSUME NEW i \in Idx, Known(t, i) PROVE Known(t, i)'
  BY <1>0, <1>2 DEF Known, Witness, WitnessFreed, Tracked, Same
<1>3. Scanned(t)'
  BY <1>0, <1>1 DEF ThreadInv, Scanned, LoadedFrom, Tracked, Same
<1>4. ReportWhole(t)'
  BY <1>1 DEF ThreadInv, ReportWhole, Reported, Same
<1>5. JudgedRight(t)'
  BY <1>0, <1>1 DEF ThreadInv, JudgedRight, Judged, Same
<1>6. QED
  BY <1>0, <1>1, <1>2, <1>3, <1>4, <1>5 DEF ThreadInv, Same

(* A handler writes what is its own. *)
LEMMA HandlerLocal ==
  ASSUME PTypeOK, NEW t \in Threads, NEW u \in Threads, u # t,
         HandlerStep(t) \/ \E g \in Touches[t] : Fault(t, g) \/ Kill(t, g)
  PROVE  Same(u)
<1>1. CASE Skip(t) \/ Outside(t)
  BY <1>1, Types DEF Skip, Outside, NextSlot, history, Same
<1>2. CASE Visit(t)
  BY <1>2, Types DEF Visit, HGoto, history, Same
<1>3. CASE Inside(t)
  BY <1>3, Types, InsideIs DEF Inside, HGoto, history, Same
<1>4. CASE Decide(t)
  BY <1>4, Types, DecideIs DEF Decide, HGoto, history, Same
<1>5. CASE Report(t)
  BY <1>5, Types, ReportIs DEF Report, HGoto, Same
<1>6. CASE Exit(t) \/ RestoreDefault(t) \/ Die(t)
  BY <1>6, Types DEF Exit, RestoreDefault, Die, HGoto, history, scanVars, Same
<1>7. CASE Resume(t)
  BY <1>7, Types DEF Resume, HGoto, Same
<1>8. ASSUME NEW g \in Touches[t], Fault(t, g) PROVE Same(u)
  BY <1>8, Types DEF Fault, HGoto, Same
<1>9. ASSUME NEW g \in Touches[t], Kill(t, g) PROVE Same(u)
  BY <1>9 DEF Kill, history, scanVars, Same
<1>10. QED
  BY <1>1, <1>2, <1>3, <1>4, <1>5, <1>6, <1>7, <1>8, <1>9 DEF HandlerStep, Handler
-----------------------------------------------------------------------------
(* The steps of classify. *)

(* The scan leaves a slot that does not hold the address.                  *)
LEMMA NextSlotStep ==
  ASSUME PTypeOK, NEW t \in Threads, ThreadInv(t), UNCHANGED vars, NextSlot(t),
         hpc[t] \in {"scan", "range"},
         Quiet(t) => ~(Tracked(slot[t]) /\ addr[t] \in Span[entry[slot[t]]])
  PROVE  ThreadInv(t)'
<1>0. /\ UNCHANGED <<state, entry, prot, pc>>
      /\ addr'[t] = addr[t] /\ verdict'[t] = verdict[t] /\ verdict[t] = NoVerdict
      /\ truth'[t] = truth[t] /\ calm'[t] = calm[t]
      /\ slot'[t] = IF slot[t] + 1 = Cap THEN 0 ELSE slot[t] + 1
      /\ hpc'[t] = IF slot[t] + 1 = Cap THEN "report" ELSE "scan"
      /\ slot[t] \in Idx /\ Cap \in Nat \ {0}
      /\ Quiet(t)' <=> Quiet(t)
  BY Types, ConstantsAssumption DEF NextSlot, vars, history, ThreadInv, Scanned, Quiet
<1>1. ASSUME Quiet(t), NEW i \in Idx, Known(t, i) PROVE slot[t] + 1 <= i /\ Known(t, i)'
  <2>1. slot[t] <= i /\ i # slot[t]
    BY <1>1 DEF Known, Witness
  <2>2. slot[t] + 1 <= i /\ slot[t] + 1 # Cap
    BY <1>0, <2>1 DEF Idx
  <2>3. QED
    BY <1>0, <1>1, <2>2, SameKnown
<1>2. ASSUME Quiet(t), truth[t].place # "Wild"
      PROVE  slot[t] + 1 # Cap /\ \E i \in Idx : Known(t, i)'
  <2>1. PICK i \in Idx : Known(t, i)
    BY <1>2 DEF ThreadInv
  <2>2. slot[t] + 1 <= i
    BY <1>1, <1>2, <2>1
  <2>3. QED
    BY <1>0, <1>1, <1>2, <2>1, <2>2 DEF Idx
<1>3. Scanned(t)' /\ JudgedRight(t)'
  <2>1. verdict'[t].kind = "Wild"
    BY <1>0 DEF NoVerdict
  <2>2. QED
    BY <1>0, <1>2, <2>1 DEF Scanned, JudgedRight
<1>4. ~Reported(t)'
  BY <1>0 DEF Reported
<1>5. QED
  BY <1>0, <1>2, <1>3, <1>4 DEF ThreadInv, ReportWhole

LEMMA VisitStep ==
  ASSUME PTypeOK, IInv, NEW t \in Threads, ThreadInv(t), UNCHANGED vars, Visit(t)
  PROVE  ThreadInv(t)'
<1>0. /\ UNCHANGED <<state, entry, prot, pc>>
      /\ addr'[t] = addr[t] /\ verdict'[t] = verdict[t] /\ verdict[t] = NoVerdict
      /\ truth'[t] = truth[t] /\ calm'[t] = calm[t] /\ slot'[t] = slot[t]
      /\ hpc[t] = "scan" /\ hpc'[t] = "range" /\ Tracked(slot[t])
      /\ st'[t] = state[slot[t]] /\ window'[t] = {entry[slot[t]]}
      /\ Quiet(t)' <=> Quiet(t)
  BY Types DEF Visit, HGoto, vars, history, ThreadInv, Scanned, Quiet
<1>1. ASSUME NEW i \in Idx, Known(t, i) PROVE Known(t, i)'
  <2>1. slot[t] <= i
    BY <1>0, <1>1 DEF Known, Witness
  <2>2. QED
    BY <1>0, <1>1, <2>1, SameKnown
<1>2. Scanned(t)' /\ JudgedRight(t)'
  BY <1>0 DEF Scanned, LoadedFrom, Tracked, JudgedRight
<1>3. ~Reported(t)'
  BY <1>0 DEF Reported
<1>4. QED
  BY <1>0, <1>1, <1>2, <1>3 DEF ThreadInv, ReportWhole

LEMMA InsideStep ==
  ASSUME PTypeOK, IInv, NEW t \in Threads, ThreadInv(t), UNCHANGED vars, Inside(t)
  PROVE  ThreadInv(t)'
<1>0. /\ UNCHANGED <<state, entry, prot, pc>>
      /\ addr'[t] = addr[t] /\ truth'[t] = truth[t] /\ calm'[t] = calm[t]
      /\ slot'[t] = slot[t] /\ st'[t] = st[t] /\ window'[t] = window[t]
      /\ hpc[t] = "range" /\ hpc'[t] = "kind"
      /\ Quiet(t)' <=> Quiet(t)
  BY Types DEF Inside, HGoto, vars, history, Quiet
<1>1. PICK b \in window[t], n \in window[t] :
        InRange(t, b, n) /\ verdict'[t] = [verdict[t] EXCEPT !.base = b, !.len = n]
  BY InsideIs
<1>2. verdict'[t].base = b /\ verdict'[t].len = n
  BY <1>1, Types DEF Verdicts
<1>3. ASSUME NEW i \in Idx, Known(t, i) PROVE Known(t, i)'
  BY <1>0, <1>3, SameKnown DEF Known, Witness
<1>4. Quiet(t) => /\ LoadedFrom(t, {}) /\ b = entry[slot[t]] /\ n = entry[slot[t]]
                  /\ addr[t] \in Span[entry[slot[t]]]
  <2>1. SUFFICES ASSUME Quiet(t)
                 PROVE  /\ LoadedFrom(t, {}) /\ b = entry[slot[t]] /\ n = entry[slot[t]]
                        /\ addr[t] \in Span[entry[slot[t]]]
    OBVIOUS
  <2>2. LoadedFrom(t, {})
    BY <1>0, <2>1 DEF ThreadInv, Scanned
  <2>3. b = entry[slot[t]] /\ n = entry[slot[t]]
    BY <1>1, <2>2 DEF LoadedFrom
  <2>4. entry[slot[t]] \in Region
    BY <2>2, Types DEF LoadedFrom, IInv, EntriesAreRegions
  <2>5. QED
    BY <1>1, <2>2, <2>3, <2>4, SpanFacts DEF InRange
<1>5. Scanned(t)' /\ JudgedRight(t)'
  BY <1>0, <1>2, <1>4 DEF ThreadInv, Scanned, LoadedFrom, Tracked, JudgedRight
<1>6. ~Reported(t)'
  BY <1>0 DEF Reported
<1>7. QED
  BY <1>0, <1>3, <1>5, <1>6 DEF ThreadInv, ReportWhole

LEMMA DecideStep ==
  ASSUME PTypeOK, IInv, NEW t \in Threads, ThreadInv(t), UNCHANGED vars, Decide(t)
  PROVE  ThreadInv(t)'
<1>0. /\ UNCHANGED <<state, entry, prot, pc>>
      /\ addr'[t] = addr[t] /\ truth'[t] = truth[t] /\ calm'[t] = calm[t]
      /\ slot'[t] = slot[t] /\ st'[t] = st[t] /\ window'[t] = window[t]
      /\ hpc[t] = "kind" /\ hpc'[t] = "report"
      /\ st[t] \in {EMPTY, READY, FREED} /\ slot[t] \in Idx
      /\ Quiet(t)' <=> Quiet(t)
  BY Types DEF Decide, HGoto, vars, history, Quiet
<1>1. PICK u \in window[t], d \in window[t], s \in window[t], a \in window[t] :
        /\ verdict'[t].kind = KindOf(st[t], addr[t], u, d)
        /\ verdict'[t].rest = {u, d, s, a}
        /\ verdict'[t].base = verdict[t].base /\ verdict'[t].len = verdict[t].len
  BY DecideIs
<1>2. ASSUME NEW i \in Idx, Known(t, i) PROVE Known(t, i)'
  BY <1>0, <1>2, SameKnown
<1>3. Quiet(t) => /\ LoadedFrom(t, {verdict[t].base, verdict[t].len})
                  /\ u = entry[slot[t]] /\ d = entry[slot[t]] /\ s = entry[slot[t]] /\ a = entry[slot[t]]
                  /\ st[t] = FREED => state[slot[t]] = FREED
  BY <1>0 DEF ThreadInv, Scanned, LoadedFrom
<1>4. JudgedRight(t)'
  <2>0. SUFFICES ASSUME Quiet(t), truth[t].place # "Wild"
                 PROVE  entry'[slot[t]] = truth'[t].region /\ Judged(t, slot[t])'
    BY <1>0 DEF JudgedRight
  <2>1. PICK i \in Idx : Known(t, i)
    BY <2>0 DEF ThreadInv
  <2>2. i = slot[t] /\ entry[i] \in Region
    BY <1>0, <1>3, <2>0, <2>1, SameSlot DEF Known, Witness, LoadedFrom, IInv, EntriesAreRegions
  <2>3. /\ entry[i] = truth[t].region /\ truth[t].place = Place(entry[i], addr[t])
        /\ ~DoubleFree => /\ truth[t].freed = "yes" => st[t] = FREED
                          /\ truth[t].freed = "no" => truth[t].place # "LiveRegion"
    BY <1>0, <2>1, <2>2 DEF Known, Witness, WitnessFreed
  <2>4. CASE st[t] = FREED
    <3>1. verdict'[t].kind = "UseAfterFree" /\ state'[slot[t]] = FREED
      BY <1>0, <1>1, <1>3, <2>0, <2>4, KindOfFreed
    <3>2. QED
      BY <1>0, <2>2, <2>3, <3>1 DEF Judged
  <2>5. CASE st[t] # FREED
    <3>1. verdict'[t].kind = truth[t].place /\ truth[t].place \in {"Overflow", "Underflow", "LiveRegion"}
      BY <1>1, <1>3, <2>0, <2>2, <2>3, <2>5, KindOfLive, PlaceType
    <3>2. truth[t].freed \in {"no", "under way", "yes"}
      BY Types DEF Truths
    <3>3. QED
      BY <1>0, <2>2, <2>3, <2>5, <3>1, <3>2 DEF Judged
  <2>6. QED
    BY <2>4, <2>5
<1>5. Scanned(t)'
  <2>1. SUFFICES ASSUME Quiet(t) PROVE LoadedFrom(t, SeenBy(t))'
    BY <1>0 DEF Scanned
  <2>2. SeenBy(t)' = {verdict[t].base, verdict[t].len, entry[slot[t]]}
    BY <1>1, <1>3, <2>1 DEF SeenBy
  <2>3. QED
    BY <1>0, <1>3, <2>1, <2>2 DEF LoadedFrom, Tracked
<1>6. ~Reported(t)'
  BY <1>0 DEF Reported
<1>7. QED
  BY <1>0, <1>2, <1>4, <1>5, <1>6 DEF ThreadInv, ReportWhole
-----------------------------------------------------------------------------
(* The report, the end of the handler and the next fault. *)

LEMMA ReportStep ==
  ASSUME PTypeOK, IInv, NEW t \in Threads, ThreadInv(t), UNCHANGED vars, Report(t)
  PROVE  ThreadInv(t)'
<1>0. /\ UNCHANGED <<state, entry, prot, pc>>
      /\ addr'[t] = addr[t] /\ truth'[t] = truth[t] /\ calm'[t] = calm[t]
      /\ slot'[t] = slot[t]
      /\ hpc[t] = "report" /\ hpc'[t] = "policy"
      /\ Quiet(t)' <=> Quiet(t)
  BY Types DEF Report, HGoto, vars, Quiet
<1>1. PICK f \in SUBSET window[t] :
        /\ verdict'[t].kind = verdict[t].kind
        /\ verdict[t].kind # "Wild" => SeenBy(t)' = SeenBy(t) \cup f
  <2>1. ASSUME NEW f \in SUBSET window[t], verdict'[t] = [verdict[t] EXCEPT !.rest = verdict[t].rest \cup f]
        PROVE  verdict'[t].kind = verdict[t].kind /\ SeenBy(t)' = SeenBy(t) \cup f
    <3>1. /\ verdict'[t].kind = verdict[t].kind
          /\ verdict'[t].base = verdict[t].base /\ verdict'[t].len = verdict[t].len
          /\ verdict'[t].rest = verdict[t].rest \cup f
      BY <2>1, Types DEF Verdicts
    <3>2. QED
      BY <3>1 DEF SeenBy
  <2>2. QED
    BY <2>1, ReportIs
<1>2. ASSUME NEW i \in Idx, Known(t, i) PROVE Known(t, i)'
  BY <1>0, <1>2, SameKnown
<1>3. ReportWhole(t)'
  <2>1. SUFFICES ASSUME Quiet(t), verdict[t].kind # "Wild"
                 PROVE  /\ entry[slot[t]] \in Region
                        /\ SeenBy(t)' = {entry[slot[t]]}
                        /\ addr[t] \in Span[entry[slot[t]]]
                        /\ truth[t].place # "Wild" => entry[slot[t]] = truth[t].region
    BY <1>0, <1>1 DEF ReportWhole, Quiet
  <2>2. LoadedFrom(t, SeenBy(t)) /\ verdict[t].base \in SeenBy(t)
    BY <1>0, <2>1 DEF ThreadInv, Scanned, SeenBy
  <2>3. entry[slot[t]] \in Region
    BY <2>2, Types DEF LoadedFrom, IInv, EntriesAreRegions
  <2>4. SeenBy(t)' = {entry[slot[t]]}
    BY <1>1, <2>1, <2>2 DEF LoadedFrom
  <2>5. addr[t] \in Span[entry[slot[t]]]
    BY <2>2 DEF LoadedFrom
  <2>6. ASSUME truth[t].place # "Wild" PROVE entry[slot[t]] = truth[t].region
    <3>1. PICK i \in Idx : Known(t, i)
      BY <2>1, <2>6 DEF ThreadInv
    <3>2. i = slot[t]
      BY <2>2, <2>5, <3>1, SameSlot, Types DEF Known, Witness, LoadedFrom
    <3>3. QED
      BY <3>1, <3>2 DEF Known, Witness
  <2>7. QED
    BY <2>3, <2>4, <2>5, <2>6
<1>4. JudgedRight(t)'
  BY <1>0, <1>1 DEF ThreadInv, JudgedRight, Judged
<1>5. Scanned(t)'
  BY <1>0 DEF Scanned
<1>6. QED
  BY <1>0, <1>2, <1>3, <1>4, <1>5 DEF ThreadInv

LEMMA RestoreStep ==
  ASSUME PTypeOK, NEW t \in Threads, ThreadInv(t), UNCHANGED vars, RestoreDefault(t)
  PROVE  ThreadInv(t)'
<1>0. /\ UNCHANGED <<state, entry, prot, pc>>
      /\ addr'[t] = addr[t] /\ truth'[t] = truth[t] /\ calm'[t] = calm[t]
      /\ slot'[t] = slot[t] /\ verdict'[t] = verdict[t]
      /\ hpc[t] = "policy" /\ hpc'[t] = "again"
      /\ Quiet(t)' <=> Quiet(t)
  BY Types DEF RestoreDefault, HGoto, vars, Quiet, scanVars, history
<1>1. ASSUME NEW i \in Idx, Known(t, i) PROVE Known(t, i)'
  BY <1>0, <1>1, SameKnown
<1>2. Scanned(t)'
  BY <1>0 DEF Scanned
<1>3. ReportWhole(t)'
  BY <1>0 DEF ThreadInv, ReportWhole, Reported, SeenBy
<1>4. JudgedRight(t)'
  BY <1>0 DEF ThreadInv, JudgedRight, Judged
<1>5. QED
  BY <1>0, <1>1, <1>2, <1>3, <1>4 DEF ThreadInv

LEMMA ResumeStep ==
  ASSUME PTypeOK, NEW t \in Threads, UNCHANGED vars, Resume(t)
  PROVE  ThreadInv(t)'
<1>1. hpc'[t] = "run" /\ verdict'[t] = NoVerdict
  BY Types DEF Resume, HGoto
<1>2. QED
  BY <1>1 DEF ThreadInv, Quiet, Scanned, JudgedRight, ReportWhole, Reported

(* What is known of a faulting access from the start: the slot its page    *)
(* belongs to, and that nothing but an eviction can make the page one that *)
(* the access may touch.                                                   *)
FaultKnown(g, i) ==
  /\ Tracked(i)
  /\ entry[i] = TruthOf(g).region
  /\ g \in Span[entry[i]]
  /\ Guard[entry[i]] = g \/ prot[g] = "sealed"
  /\ TruthOf(g).place = Place(entry[i], g)
  /\ ~DoubleFree => /\ TruthOf(g).freed = "yes" => state[i] = FREED
                    /\ TruthOf(g).freed = "no" => TruthOf(g).place # "LiveRegion"

LEMMA FaultWitness ==
  ASSUME RegistryInv, NEW g, Faults(g), TruthOf(g).place # "Wild"
  PROVE  \E i \in Idx : FaultKnown(g, i)
<1>0. IInv /\ (~DoubleFree => ReadyIsMapped)
  BY DEF RegistryInv, ClientInv, ProtInv
<1>1. PICK i \in Idx :
        /\ Holding(i) /\ g \in Span[entry[i]]
        /\ TruthOf(g) = [region |-> entry[i], place |-> Place(entry[i], g), freed |-> Freed(i, g)]
  BY TruthOfIs DEF NoTruth
<1>2. Tracked(i) /\ entry[i] \in Region
  BY <1>0, <1>1 DEF Holding, IInv, EntriesAreRegions
<1>3. prot[g] \in {"mapped", "sealed"}
  <2>1. prot[g] # "free" /\ g \in Page
    BY <1>0, <1>1, <1>2, HeldPages, SpanFacts
  <2>2. QED
    BY <1>0, <2>1 DEF IInv, TypeOK
<1>4. ASSUME prot[g] = "mapped" PROVE Guard[entry[i]] = g
  <2>2. ASSUME NEW j \in Idx, Holding(j), Guard[entry[j]] = g PROVE Guard[entry[i]] = g
    <3>1. entry[j] \in Region /\ Tracked(j)
      BY <1>0, <2>2 DEF Holding, IInv, EntriesAreRegions
    <3>2. g \in Span[entry[j]]
      BY <2>2, <3>1, Layout
    <3>3. QED
      BY <1>0, <1>1, <1>2, <2>2, <3>1, <3>2, SameSlot
  <2>3. ASSUME NEW u \in Threads, InFlight(u), Guard[reg[u]] = g PROVE FALSE
    <3>1. reg[u] \in Region /\ Span[reg[u]] \cap Span[entry[i]] = {}
      BY <1>0, <1>1, <2>3 DEF IInv, HasRegion, NoOverlap, Apart
    <3>2. QED
      BY <1>1, <2>3, <3>1, Layout
  <2>4. QED
    BY <1>4, <2>2, <2>3 DEF Faults, Guarded
<1>5. ASSUME ~DoubleFree, Freed(i, g) = "yes" PROVE state[i] = FREED
  <2>1. prot[g] = "sealed" /\ ~Sealing(i)
    BY <1>3, <1>5 DEF Freed
  <2>2. state[i] # READY
    BY <1>0, <1>1, <1>5, <2>1 DEF ReadyIsMapped
  <2>3. QED
    BY <1>2, <2>2 DEF Tracked
<1>6. ASSUME Freed(i, g) = "no" PROVE Place(entry[i], g) # "LiveRegion"
  <2>1. prot[g] = "mapped"
    BY <1>3, <1>6 DEF Freed
  <2>2. QED
    BY <1>2, <1>4, <2>1, PlaceInside
<1>7. QED
  BY <1>1, <1>2, <1>3, <1>4, <1>5, <1>6 DEF FaultKnown

LEMMA FaultStep ==
  ASSUME PTypeOK, RegistryInv, NEW t \in Threads, ThreadInv(t), UNCHANGED vars,
         NEW g \in Touches[t], Fault(t, g)
  PROVE  ThreadInv(t)'
<1>0. /\ UNCHANGED <<state, entry, prot, pc>>
      /\ addr'[t] = g /\ truth'[t] = TruthOf(g)
      /\ calm'[t] = \A u \in Threads : pc[u] # "tomb"
      /\ slot'[t] = 0 /\ verdict'[t] = verdict[t] /\ verdict[t] = NoVerdict
      /\ hpc'[t] = "scan" /\ Faults(g)
  BY Types DEF Fault, HGoto, vars, ThreadInv, Scanned
<1>1. Quiet(t)' <=> \A u \in Threads : pc[u] # "tomb"
  BY <1>0 DEF Quiet
<1>2. ASSUME truth'[t].place # "Wild" PROVE \E i \in Idx : Known(t, i)'
  <2>1. PICK i \in Idx : FaultKnown(g, i)
    BY <1>0, <1>2, FaultWitness
  <2>2. 0 <= i
    BY DEF Idx
  <2>3. Witness(t, i)'
    BY <1>0, <2>1, <2>2 DEF FaultKnown, Witness, Tracked
  <2>4. ~DoubleFree => WitnessFreed(t, i)'
    BY <1>0, <2>1 DEF FaultKnown, WitnessFreed
  <2>5. QED
    BY <2>3, <2>4 DEF Known
<1>3. Scanned(t)' /\ JudgedRight(t)' /\ ~Reported(t)'
  BY <1>0 DEF Scanned, JudgedRight, Reported
<1>4. QED
  BY <1>0, <1>1, <1>2, <1>3 DEF ThreadInv, ReportWhole
-----------------------------------------------------------------------------
(* A step of another thread's program. *)

(* Without an eviction, what the table holds it keeps, and what is sealed  *)
(* of it stays sealed.                                                     *)
LEMMA TableKeeps ==
  ASSUME IInv, NEW t \in Threads, Step(t), ~Unmap(t), \A u \in Threads : pc[u] # "tomb",
         NEW i \in Idx, Tracked(i)
  PROVE  /\ Tracked(i)' /\ entry'[i] = entry[i]
         /\ state[i] = FREED => state'[i] = FREED
         /\ \A g \in Span[entry[i]] : prot[g] = "sealed" => prot'[g] = "sealed"
<1>0. Holding(i) /\ entry[i] \in Region
  BY DEF Holding, Dying, IInv, EntriesAreRegions
<1>1. Tracked(i)' /\ entry'[i] = entry[i]
  BY <1>0, HoldingStays DEF Holding
<1>2. ASSUME state[i] = FREED PROVE state'[i] = FREED
  <2>0. state \in [Idx -> {EMPTY, READY, FREED, TOMB}] /\ ~Entomb(t)
    BY DEF IInv, TypeOK, Entomb, Goto
  <2>1. CASE Publish(t)
    BY <1>2, <2>0, <2>1 DEF Publish, Goto, IInv, FillInv, Tracked
  <2>2. CASE MarkFreed(t) \/ UNCHANGED state
    BY <1>2, <2>0, <2>2 DEF MarkFreed
  <2>3. QED
    BY <2>0, <2>1, <2>2, Frame
<1>3. ASSUME NEW g \in Span[entry[i]], prot[g] = "sealed" PROVE prot'[g] = "sealed"
  <2>0. g \in Page
    BY <1>0, <1>3, SpanFacts
  <2>1. ASSUME NEW r \in Region, Map(t, r) PROVE prot'[g] = "sealed"
    BY <1>3, <2>0, <2>1 DEF Map, Protect
  <2>2. CASE GiveBack(t)
    <3>1. InFlight(t) /\ Span[reg[t]] \cap Span[entry[i]] = {}
      BY <1>0, <2>2 DEF GiveBack, Goto, InFlight, IInv, NoOverlap, Apart
    <3>2. QED
      BY <1>3, <2>0, <2>2, <3>1 DEF GiveBack, Protect
  <2>3. ASSUME NEW j \in Idx, Seal(t, j) PROVE prot'[g] = "sealed"
    BY <1>3, <2>0, <2>3, SealKeeps DEF IInv
  <2>4. QED
    BY <1>3, <2>1, <2>2, <2>3, Frame
<1>4. QED
  BY <1>1, <1>2, <1>3

LEMMA ProgramStep ==
  ASSUME PTypeOK, IInv, NEW t \in Threads, Program(t), NEW u \in Threads, ThreadInv(u)
  PROVE  ThreadInv(u)'
<1>0. /\ Step(t)
      /\ UNCHANGED <<hpc, addr, slot, st, verdict, truth>>
      /\ window'[u] = IF window[u] # {} /\ entry'[slot[u]] # entry[slot[u]]
                      THEN window[u] \cup {entry'[slot[u]]} ELSE window[u]
      /\ calm'[u] <=> calm[u] /\ ~(Unmap(t) /\ hpc[u] # "run")
      /\ slot[u] \in Idx
  BY Types DEF Program
<1>1. Quiet(u)' => Quiet(u) /\ ~Unmap(t) /\ \A v \in Threads : pc[v] # "tomb"
  BY <1>0 DEF Quiet, ThreadInv
<1>2. Quiet(u)' => \A v \in Threads : pc'[v] # "tomb"
  BY <1>0, <1>1, Arrivals, Others DEF IInv
<1>3. ASSUME Quiet(u)', NEW i \in Idx, Known(u, i) PROVE Known(u, i)'
  <2>1. /\ Tracked(i)' /\ entry'[i] = entry[i]
        /\ state[i] = FREED => state'[i] = FREED
        /\ addr[u] \in Span[entry[i]] /\ (prot[addr[u]] = "sealed" => prot'[addr[u]] = "sealed")
    BY <1>0, <1>1, <1>3, TableKeeps DEF Known, Witness
  <2>2. Witness(u, i)'
    BY <1>0, <1>3, <2>1 DEF Known, Witness
  <2>3. ASSUME WitnessFreed(u, i) PROVE WitnessFreed(u, i)'
    BY <1>0, <2>1, <2>3 DEF WitnessFreed
  <2>4. QED
    BY <1>3, <2>2, <2>3 DEF Known
<1>4. ASSUME Quiet(u)', Tracked(slot[u]), window[u] = {entry[slot[u]]}
      PROVE  Tracked(slot[u])' /\ window'[u] = {entry'[slot[u]]} /\ entry'[slot[u]] = entry[slot[u]]
  BY <1>0, <1>1, <1>4, TableKeeps
<1>5. Scanned(u)'
  <2>1. hpc[u] \in {"run", "scan", "range"} => verdict[u] = NoVerdict
    BY DEF ThreadInv, Scanned
  <2>2. ASSUME Quiet(u)', hpc[u] = "range" PROVE LoadedFrom(u, {})'
    <3>1. LoadedFrom(u, {})
      BY <1>1, <2>2 DEF ThreadInv, Scanned
    <3>2. QED
      BY <1>0, <1>4, <2>2, <3>1 DEF LoadedFrom, Tracked
  <2>3. ASSUME Quiet(u)', hpc[u] = "kind"
        PROVE  LoadedFrom(u, {verdict[u].base, verdict[u].len})'
    <3>1. LoadedFrom(u, {verdict[u].base, verdict[u].len})
      BY <1>1, <2>3 DEF ThreadInv, Scanned
    <3>2. QED
      BY <1>0, <1>4, <2>3, <3>1 DEF LoadedFrom, Tracked
  <2>4. ASSUME Quiet(u)', hpc[u] = "report", verdict[u].kind # "Wild"
        PROVE  LoadedFrom(u, SeenBy(u))'
    <3>1. LoadedFrom(u, SeenBy(u)) /\ SeenBy(u)' = SeenBy(u)
      BY <1>0, <1>1, <2>4 DEF ThreadInv, Scanned, SeenBy
    <3>2. QED
      BY <1>0, <1>4, <2>4, <3>1 DEF LoadedFrom, Tracked
  <2>5. ASSUME Quiet(u)', hpc[u] \in {"range", "kind"}, st[u] = FREED PROVE state'[slot[u]] = FREED
    <3>1. state[slot[u]] = FREED
      BY <1>1, <2>5 DEF ThreadInv, Scanned
    <3>2. QED
      BY <1>0, <1>1, <2>5, <3>1, TableKeeps DEF Tracked
  <2>6. QED
    BY <1>0, <2>1, <2>2, <2>3, <2>4, <2>5 DEF Scanned
<1>6. JudgedRight(u)'
  <2>1. SUFFICES ASSUME Quiet(u)', hpc[u] \in {"report", "policy", "again"}, truth[u].place # "Wild"
                 PROVE  \E i \in Idx : entry'[i] = truth[u].region /\ Judged(u, i)'
    BY <1>0 DEF JudgedRight
  <2>2. PICK i \in Idx : entry[i] = truth[u].region /\ Judged(u, i)
    BY <1>1, <2>1 DEF ThreadInv, JudgedRight
  <2>3. CASE state[i] = FREED
    <3>1. state'[i] = FREED /\ entry'[i] = entry[i]
      BY <1>0, <1>1, <2>1, <2>3, TableKeeps DEF Tracked
    <3>2. QED
      BY <1>0, <2>2, <3>1 DEF Judged
  <2>4. CASE state[i] # FREED
    <3>1. PICK j \in Idx : Known(u, j)
      BY <1>1, <2>1 DEF ThreadInv
    <3>2. entry'[j] = truth[u].region
      BY <1>0, <1>3, <2>1, <3>1 DEF Known, Witness
    <3>3. QED
      BY <1>0, <2>2, <2>4, <3>2 DEF Judged
  <2>5. QED
    BY <2>3, <2>4
<1>7. ReportWhole(u)'
  BY <1>0 DEF ThreadInv, ReportWhole, Reported, SeenBy
<1>8. QED
  BY <1>0, <1>1, <1>2, <1>3, <1>5, <1>6, <1>7 DEF ThreadInv
-----------------------------------------------------------------------------
(* The history of the reports. *)
LEMMA ToldStep ==
  ASSUME PTypeOK, ToldInv, NEW t \in Threads,
         HandlerStep(t) \/ Program(t) \/ \E g \in Touches[t] : Fault(t, g) \/ Kill(t, g)
  PROVE  ToldInv'
<1>0. hpc \in [Threads -> {"run", "scan", "range", "kind", "report", "policy", "again"}]
  BY Types
<1>1. CASE Skip(t) \/ Outside(t)
  BY <1>0, <1>1 DEF Skip, Outside, NextSlot, history, ToldInv, NoSilentDeath, Reported
<1>2. CASE Visit(t) \/ Inside(t) \/ Decide(t)
  BY <1>0, <1>2 DEF Visit, Inside, Decide, HGoto, history, ToldInv, NoSilentDeath, Reported
<1>3. CASE Report(t)
  BY <1>3 DEF Report, ToldInv, NoSilentDeath
<1>4. CASE Exit(t) \/ RestoreDefault(t) \/ Die(t)
  BY <1>0, <1>4 DEF Exit, RestoreDefault, Die, HGoto, history, ToldInv, NoSilentDeath, Reported
<1>5. CASE Resume(t)
  BY <1>0, <1>5 DEF Resume, HGoto, ToldInv, NoSilentDeath, Reported
<1>6. ASSUME NEW g \in Touches[t], Fault(t, g) \/ Kill(t, g) PROVE ToldInv'
  BY <1>0, <1>6 DEF Fault, Kill, HGoto, history, ToldInv, NoSilentDeath, Reported
<1>7. CASE Program(t)
  BY <1>7 DEF Program, ToldInv, NoSilentDeath, Reported
<1>8. QED
  BY <1>1, <1>2, <1>3, <1>4, <1>5, <1>6, <1>7 DEF HandlerStep, Handler

(* Each thread keeps its invariant when another one, or itself, moves.     *)
LEMMA ThreadStep ==
  ASSUME PTypeOK, RegistryInv, NEW t \in Threads, NEW u \in Threads, ThreadInv(t), ThreadInv(u),
         HandlerStep(t) \/ Program(t) \/ \E g \in Touches[t] : (Fault(t, g) \/ Kill(t, g)) /\ UNCHANGED vars
  PROVE  ThreadInv(u)'
<1>0. IInv
  BY DEF RegistryInv
<1>1. CASE Program(t)
  BY <1>0, <1>1, ProgramStep
<1>2. CASE u # t /\ ~Program(t)
  <2>1. Same(u) /\ UNCHANGED vars
    BY <1>2, HandlerLocal DEF HandlerStep
  <2>2. QED
    BY <2>1, SameThread
<1>3. CASE u = t /\ HandlerStep(t)
  <2>0. UNCHANGED vars
    BY <1>3 DEF HandlerStep
  <2>1. CASE Skip(t) \/ Outside(t)
    <3>1. Quiet(t) => ~(Tracked(slot[t]) /\ addr[t] \in Span[entry[slot[t]]])
      <4>1. CASE Skip(t)
        BY <4>1 DEF Skip
      <4>2. CASE Outside(t)
        <5>1. SUFFICES ASSUME Quiet(t) PROVE addr[t] \notin Span[entry[slot[t]]]
          OBVIOUS
        <5>2. LoadedFrom(t, {})
          BY <4>2, <5>1 DEF Outside, ThreadInv, Scanned
        <5>3. ~InRange(t, entry[slot[t]], entry[slot[t]])
          BY <4>2, <5>2 DEF Outside, LoadedFrom
        <5>4. entry[slot[t]] \in Region
          BY <1>0, <5>2, Types DEF LoadedFrom, IInv, EntriesAreRegions
        <5>5. QED
          BY <5>3, <5>4, SpanFacts DEF InRange
      <4>3. QED
        BY <2>1, <4>1, <4>2
    <3>2. NextSlot(t) /\ hpc[t] \in {"scan", "range"}
      BY <2>1 DEF Skip, Outside
    <3>3. QED
      BY <1>3, <2>0, <3>1, <3>2, NextSlotStep
  <2>2. CASE Visit(t)
    BY <1>0, <1>3, <2>0, <2>2, VisitStep
  <2>3. CASE Inside(t)
    BY <1>0, <1>3, <2>0, <2>3, InsideStep
  <2>4. CASE Decide(t)
    BY <1>0, <1>3, <2>0, <2>4, DecideStep
  <2>5. CASE Report(t)
    BY <1>0, <1>3, <2>0, <2>5, ReportStep
  <2>6. CASE Exit(t) \/ Die(t)
    <3>1. Same(t)
      BY <2>6 DEF Exit, Die, scanVars, history, Same
    <3>2. QED
      BY <1>3, <2>0, <3>1, SameThread
  <2>7. CASE RestoreDefault(t)
    BY <1>3, <2>0, <2>7, RestoreStep
  <2>8. CASE Resume(t)
    BY <1>3, <2>0, <2>8, ResumeStep
  <2>9. QED
    BY <1>3, <2>1, <2>2, <2>3, <2>4, <2>5, <2>6, <2>7, <2>8 DEF HandlerStep, Handler
<1>4. ASSUME u = t, NEW g \in Touches[t], Fault(t, g), UNCHANGED vars PROVE ThreadInv(u)'
  BY <1>4, FaultStep
<1>5. ASSUME u = t, NEW g \in Touches[t], Kill(t, g), UNCHANGED vars PROVE ThreadInv(u)'
  <2>1. Same(t)
    BY <1>5 DEF Kill, scanVars, history, Same
  <2>2. QED
    BY <1>5, <2>1, SameThread
<1>6. QED
  BY <1>1, <1>2, <1>3, <1>4, <1>5

LEMMA PostmortemInit ==
  ASSUME PInit
  PROVE  PostmortemInv
<1>0. HInit /\ TypeOK
  BY InitIInv DEF PInit, IInv
<1>2. PTypeOK
  BY <1>0, NothingYet DEF HInit, PTypeOK, Verdicts, Truths
<1>3. ToldInv
  BY <1>0 DEF HInit, ToldInv, NoSilentDeath, Reported
<1>4. \A t \in Threads : ThreadInv(t)
  BY <1>0 DEF HInit, ThreadInv, Quiet, Scanned, JudgedRight, ReportWhole, Reported
<1>5. QED
  BY <1>2, <1>3, <1>4, InvIs

LEMMA PostmortemStep ==
  ASSUME RegistryInv, PostmortemInv, [PNext]_<<vars, hvars>>
  PROVE  PostmortemInv'
<1>0. IInv /\ PTypeOK /\ ToldInv /\ \A t \in Threads : ThreadInv(t)
  BY InvIs DEF RegistryInv
<1>1. ASSUME NEW t \in Threads,
             \/ HandlerStep(t)
             \/ Program(t)
             \/ \E g \in Touches[t] : (Fault(t, g) \/ Kill(t, g)) /\ UNCHANGED vars
      PROVE  PTypeOK' /\ ToldInv' /\ \A u \in Threads : ThreadInv(u)'
  <2>1. PTypeOK'
    BY <1>0, <1>1, HandlerType, ProgramType, FaultType
  <2>2. ToldInv'
    BY <1>0, <1>1, ToldStep
  <2>3. \A u \in Threads : ThreadInv(u)'
    BY <1>0, <1>1, ThreadStep
  <2>4. QED
    BY <2>1, <2>2, <2>3
<1>2. ASSUME UNCHANGED <<vars, hvars>>
      PROVE  PTypeOK' /\ ToldInv' /\ \A u \in Threads : ThreadInv(u)'
  <2>1. /\ UNCHANGED vars
        /\ UNCHANGED <<hpc, addr, slot, st, window, verdict, alive, policy, disp, truth, calm, told>>
    BY <1>2 DEF hvars, scanVars, history
  <2>2. PTypeOK'
    BY <1>0, <2>1 DEF PTypeOK, TypeOK, vars
  <2>3. ToldInv'
    BY <1>0, <2>1 DEF ToldInv, NoSilentDeath, Reported
  <2>4. \A u \in Threads : ThreadInv(u)'
    BY <1>0, <2>1, SameThread DEF Same
  <2>5. QED
    BY <2>2, <2>3, <2>4
<1>3. PTypeOK' /\ ToldInv' /\ \A u \in Threads : ThreadInv(u)'
  BY <1>1, <1>2 DEF PNext
<1>4. (PostmortemInv <=> PTypeOK /\ ToldInv /\ \A t \in Threads : ThreadInv(t))'
  BY InvIs, PTL
<1>5. QED
  BY <1>3, <1>4
-----------------------------------------------------------------------------
(* The scan of classify and what the handlers know hold in every reachable *)
(* state (handle of src/handler.rs, classify of src/registry.rs).          *)
THEOREM PostmortemInvariance == PSpec => []PostmortemInv
<1>1. PSpec => []RegistryInv
  BY HandlersOnlyRead, RegistryInvariance, PTL
<1>2. PInit => PostmortemInv
  BY PostmortemInit
<1>3. RegistryInv /\ PostmortemInv /\ [PNext]_<<vars, hvars>> => PostmortemInv'
  BY PostmortemStep
<1>4. QED
  BY <1>1, <1>2, <1>3, PTL DEF PSpec

(* Unless a region is evicted meanwhile, a report describes the one region *)
(* that contains the fault address, although the fields are loaded one by  *)
(* one without the lock (classify and read_ips of src/registry.rs).        *)
THEOREM ReportsAreWhole == PSpec => []ReportIsWhole
<1>1. PostmortemInv => ReportIsWhole
  BY DEF PostmortemInv
<1>2. QED
  BY <1>1, PostmortemInvariance, PTL

(* In a program that frees each pointer once, unless a region is evicted   *)
(* meanwhile: what the layout of the region makes of the fault address,    *)
(* and whether its pages had been sealed and its slot marked, decide what  *)
(* is reported.  An overflow is called an overflow, or a use after free if *)
(* the slot says FREED by now; a use after free is never called anything   *)
(* else; and a live region is blamed only between protect_none and the     *)
(* store of FREED (classify of src/registry.rs).                           *)
THEOREM KindsAreRight ==
  ASSUME ~DoubleFree
  PROVE  PSpec => []KindIsRight
<1>1. PostmortemInv => KindIsRight
  BY DEF PostmortemInv
<1>2. QED
  BY <1>1, PostmortemInvariance, PTL

(* The process does not die of a fault before a report is complete, with   *)
(* any number of threads in the handler (handle of src/handler.rs).        *)
THEOREM DeathsAreReported == PSpec => []NoSilentDeath
<1>1. PostmortemInv => NoSilentDeath
  BY DEF PostmortemInv, ToldInv
<1>2. QED
  BY <1>1, PostmortemInvariance, PTL

(* An access that faulted goes through in the end only if the page was not *)
(* Coffin's or a region has been evicted since (OnFault::AbortWithSignal). *)
THEOREM ResumedWasEvicted == PSpec => OnlyEvictedResumes
<1>1. IInv /\ PostmortemInv /\ [PNext]_<<vars, hvars>>
        => [\A t \in Threads : Resume(t) => ~calm[t] \/ truth[t].place = "Wild"]_<<vars, hvars>>
  <2>1. SUFFICES ASSUME IInv, PostmortemInv, NEW t \in Threads, Resume(t), calm[t], truth[t].place # "Wild"
                 PROVE  FALSE
    BY Types DEF PostmortemInv
  <2>2. hpc[t] = "again" /\ ~Faults(addr[t]) /\ Quiet(t)
    BY <2>1 DEF Resume, HGoto, Quiet
  <2>3. PICK i \in Idx : Witness(t, i)
    BY <2>1, <2>2 DEF PostmortemInv, WitnessInv
  <2>4. \A u \in Threads : pc[u] # "tomb"
    BY <2>1, <2>2 DEF PostmortemInv, NoneEvicted
  <2>5. Holding(i)
    BY <2>3, <2>4 DEF Witness, Holding, Dying
  <2>6. Guard[entry[i]] = addr[t] \/ prot[addr[t]] = "sealed"
    BY <2>3 DEF Witness
  <2>7. QED
    BY <2>2, <2>5, <2>6 DEF Faults, Guarded
<1>2. PSpec => []IInv
  BY HandlersOnlyRead, Invariance, PTL
<1>3. QED
  BY <1>1, <1>2, PostmortemInvariance, PTL DEF PSpec, OnlyEvictedResumes
=============================================================================
