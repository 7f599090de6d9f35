----------------------------- MODULE FencedHeap -----------------------------
(***************************************************************************)
(* What Coffin promises about fenced memory, with no table, ring or lock:  *)
(*                                                                         *)
(*   - a region is handed out only when its pages overlap no region that   *)
(*     is live and no region that is in quarantine;                        *)
(*   - a freed region joins the end of the quarantine;                     *)
(*   - regions leave the quarantine oldest first, one for every free past  *)
(*     the cap, so the last QCap freed regions always stay quarantined.    *)
(*                                                                         *)
(* Registry.tla implements this specification: see Heap there.             *)
(***************************************************************************)
EXTENDS Integers, Sequences

CONSTANTS
  Region,   \* the mappings the operating system may return
  Span,     \* Span[r] is the set of pages of region r
  QCap,     \* COFFIN_QUARANTINE
  Wrap      \* the eviction counter counts modulo Wrap

VARIABLES
  allocated,   \* regions handed out and not freed
  graveyard,   \* freed regions, the oldest first
  reclaims     \* regions that left the quarantine, modulo Wrap

heapVars == <<allocated, graveyard, reclaims>>

Buried == {graveyard[k] : k \in 1..Len(graveyard)}

Disjoint(r, s) == Span[r] \cap Span[s] = {}

Init ==
  /\ allocated = {}
  /\ graveyard = <<>>
  /\ reclaims = 0

Fence(r) ==
  /\ \A s \in allocated \cup Buried : Disjoint(r, s)
  /\ allocated' = allocated \cup {r}
  /\ UNCHANGED <<graveyard, reclaims>>

(* A free makes room afterwards: the quarantine holds QCap + 1 regions     *)
(* until the oldest is reclaimed.                                          *)
Bury(r) ==
  /\ r \in allocated
  /\ Len(graveyard) <= QCap
  /\ allocated' = allocated \ {r}
  /\ graveyard' = Append(graveyard, r)
  /\ UNCHANGED reclaims

Reclaim ==
  /\ Len(graveyard) = QCap + 1
  /\ graveyard' = Tail(graveyard)
  /\ reclaims' = (reclaims + 1) % Wrap
  /\ UNCHANGED allocated

Next ==
  \/ \E r \in Region : Fence(r) \/ Bury(r)
  \/ Reclaim

Spec == Init /\ [][Next]_heapVars
=============================================================================
