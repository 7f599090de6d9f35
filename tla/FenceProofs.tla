----------------------------- MODULE FenceProofs -----------------------------
EXTENDS Fence, TLAPS

(* Division with remainder. *)
LEMMA DivMod ==
  ASSUME NEW d \in Nat \ {0}, NEW x \in Int
  PROVE  /\ x % d \in 0..(d - 1)
         /\ x \div d \in Int
         /\ x = d * (x \div d) + (x % d)
BY SMT

(* The remainder is unique: a multiple of d leaves none. *)
LEMMA MultipleMod ==
  ASSUME NEW d \in Nat \ {0}, NEW k \in Int
  PROVE  (d * k) % d = 0
<1> DEFINE x == d * k
           q == x \div d
           r == x % d
           m == k - q
<1>1. x \in Int
  OBVIOUS
<1> HIDE DEF x
<1>2. r \in 0..(d - 1) /\ q \in Int /\ x = d * q + r
  BY <1>1, DivMod
<1> HIDE DEF q, r
<1>3. m \in Int /\ d * m = d * k - d * q
  BY <1>2
<1>4. r = d * m
  BY <1>2, <1>3 DEF x
<1> HIDE DEF m
<1>5. m <= 0
  BY <1>2, <1>3, <1>4
<1>6. m >= 0
  BY <1>2, <1>3, <1>4
<1>7. QED
  BY <1>3, <1>4, <1>5, <1>6 DEF r, x

(* Multiples of d are closed under sums and differences. *)
LEMMA ModClosed ==
  ASSUME NEW d \in Nat \ {0}, NEW x \in Int, NEW y \in Int, x % d = 0, y % d = 0
  PROVE  (x + y) % d = 0 /\ (x - y) % d = 0
<1> DEFINE j == x \div d
           k == y \div d
<1>1. j \in Int /\ x = d * j /\ k \in Int /\ y = d * k
  BY DivMod
<1> HIDE DEF j, k
<1>2. x + y = d * (j + k) /\ x - y = d * (j - k) /\ j + k \in Int /\ j - k \in Int
  BY <1>1
<1>3. (d * (j + k)) % d = 0 /\ (d * (j - k)) % d = 0
  BY <1>2, MultipleMod
<1>4. QED
  BY <1>2, <1>3

(* A multiple of a multiple of d is a multiple of d. *)
LEMMA ModTransitive ==
  ASSUME NEW d \in Nat \ {0}, NEW p \in Nat \ {0}, NEW x \in Int, p % d = 0, x % p = 0
  PROVE  x % d = 0
<1> DEFINE j == p \div d
           k == x \div p
<1>1. j \in Int /\ p = d * j
  BY DivMod
<1>2. k \in Int /\ x = p * k
  BY DivMod
<1> HIDE DEF j, k
<1>3. j * k \in Int /\ x = d * (j * k)
  BY <1>1, <1>2
<1>4. (d * (j * k)) % d = 0
  BY <1>3, MultipleMod
<1>5. QED
  BY <1>3, <1>4

(* align_down returns the multiple of d that is less than d below x. *)
LEMMA AlignDownBelow ==
  ASSUME NEW d \in Nat \ {0}, NEW x \in Nat
  PROVE  /\ AlignDown(x, d) \in 0..x
         /\ AlignDown(x, d) % d = 0
         /\ x - AlignDown(x, d) \in 0..(d - 1)
<1> DEFINE q == x \div d
           r == x % d
<1>1. r \in 0..(d - 1) /\ q \in Int /\ x = d * q + r
  BY DivMod
<1>2. AlignDown(x, d) = x - r
  BY DEF AlignDown
<1> HIDE DEF q, r
<1>3. q >= 0
  <2>1. SUFFICES ASSUME q <= -1 PROVE FALSE
    BY <1>1
  <2>2. d * q <= -d
    BY <1>1, <2>1
  <2>3. QED
    BY <1>1, <2>2
<1>4. d * q >= 0
  BY <1>1, <1>3
<1>5. (d * q) % d = 0
  BY <1>1, MultipleMod
<1>6. QED
  BY <1>1, <1>2, <1>4, <1>5

(* round_up returns the first multiple of d from x on, unless it wraps. *)
LEMMA RoundUpAbove ==
  ASSUME NEW d \in Nat \ {0}, NEW x \in Nat, Word \in Nat, x + d - 1 < Word
  PROVE  /\ RoundUp(x, d) \in x..(x + d - 1)
         /\ RoundUp(x, d) % d = 0
<1>1. (x + d - 1) % Word = x + d - 1
  BY SMT
<1>2. x + d - 1 \in Nat
  BY SMT
<1>3. AlignDown(x + d - 1, d) \in 0..(x + d - 1) /\ AlignDown(x + d - 1, d) % d = 0
      /\ (x + d - 1) - AlignDown(x + d - 1, d) \in 0..(d - 1)
  BY <1>2, AlignDownBelow
<1>4. QED
  BY <1>1, <1>3 DEF RoundUp

(* What Placement says of the geometry of a layout that Rust accepts and   *)
(* the assertion lets through.                                             *)
Sound(l, m, b, g) ==
  LET size == AtLeastOne(l.size) IN
  /\ g.map_len \in 0..Word /\ g.guard_off \in 0..Word /\ g.user_off \in 0..Word /\ g.pad \in 0..Word
  /\ (b + g.user_off) % l.align = 0
  /\ g.guard_off % PageSize = 0
  /\ g.guard_off + PageSize <= g.map_len
  /\ g.map_len < Word
  /\ m = "above" =>
       /\ g.user_off >= 0
       /\ g.user_off + size + g.pad = g.guard_off
       /\ g.pad \in 0..(l.align - 1)
       /\ size % l.align = 0 => g.pad = 0
  /\ m = "below" =>
       /\ g.user_off = g.guard_off + PageSize
       /\ g.user_off + size <= g.map_len

(* geometry_for is sound for every page size, alignment and size. *)
LEMMA GeometryIsSound ==
  ASSUME NEW l \in Layouts, l.align <= PageSize, NEW m \in {"above", "below"}, NEW b \in Bases
  PROVE  Sound(l, m, b, GeometryFor(l, m))
<1> DEFINE S == AtLeastOne(l.size)
           A == l.align
           D == RoundUp(S, PageSize)
           U == AlignDown(D - S, A)
<1>1. /\ l.size \in Nat /\ A \in Nat \ {0} /\ A <= PageSize /\ PageSize % A = 0
      /\ 2 * (l.size + A) <= Word /\ b \in Nat /\ b % PageSize = 0
  BY FenceAssumption
<1>2. PageSize \in Nat \ {0} /\ Word \in Nat /\ 4 * PageSize <= Word
  BY FenceAssumption
<1>3. S \in Nat \ {0} /\ S + 2 * PageSize <= Word
  BY <1>1, <1>2 DEF AtLeastOne
<1> HIDE DEF S, A, D, U
<1>4. D \in S..(S + PageSize - 1) /\ D % PageSize = 0
  BY <1>2, <1>3, RoundUpAbove DEF D
<1>5. D - S \in Nat /\ D \in Nat
  BY <1>3, <1>4
<1>6. U \in 0..(D - S) /\ U % A = 0 /\ (D - S) - U \in 0..(A - 1)
  BY <1>1, <1>5, AlignDownBelow DEF U
<1>7. D % A = 0 /\ b % A = 0
  BY <1>1, <1>2, <1>4, <1>5, ModTransitive
<1>8. (b + U) % A = 0 /\ (b + PageSize) % A = 0
  <2>1. A \in Nat \ {0} /\ b \in Int /\ U \in Int /\ PageSize \in Int
    BY <1>1, <1>2, <1>5, <1>6
  <2>2. b % A = 0 /\ U % A = 0 /\ PageSize % A = 0
    BY <1>1, <1>6, <1>7
  <2>3. (b + U) % A = 0
    BY <2>1, <2>2, ModClosed
  <2>4. (b + PageSize) % A = 0
    BY <2>1, <2>2, ModClosed
  <2>5. QED
    BY <2>3, <2>4
<1>9. ASSUME S % A = 0 PROVE (D - S) - U = 0
  <2>1. (D - S) % A = 0
    <3>1. A \in Nat \ {0} /\ D \in Int /\ S \in Int
      BY <1>1, <1>3, <1>5
    <3>2. QED
      BY <1>7, <1>9, <3>1, ModClosed
  <2>2. QED
    BY <1>5, <2>1 DEF U, AlignDown
<1>10. 0 % PageSize = 0
  BY <1>2
<1>11. CASE m = "above"
  <2>1. GeometryFor(l, m) = [map_len |-> D + PageSize, guard_off |-> D, user_off |-> U, pad |-> D - U - S]
    BY <1>11 DEF GeometryFor, S, A, D, U
  <2>2. QED
    BY <1>1, <1>2, <1>3, <1>4, <1>5, <1>6, <1>8, <1>9, <1>11, <2>1 DEF Sound, S, A
<1>12. CASE m = "below"
  <2>1. GeometryFor(l, m) = [map_len |-> PageSize + D, guard_off |-> 0, user_off |-> PageSize, pad |-> 0]
    BY <1>12 DEF GeometryFor, S, D
  <2>2. QED
    BY <1>1, <1>2, <1>3, <1>4, <1>5, <1>8, <1>10, <1>12, <2>1 DEF Sound, S, A
<1>13. QED
  BY <1>11, <1>12

(* What the state remembers of a fenced region is what map_region made. *)
FInv ==
  /\ mode \in {"above", "below"}
  /\ layout = NoLayout <=> phase \in {"start", "panicked"}
  /\ layout # NoLayout => layout \in Layouts /\ layout.align <= PageSize
  /\ layout # NoLayout /\ origin = "fenced" => base \in Bases /\ geom = GeometryFor(layout, mode)

LEMMA FInvInit == FInit => FInv
BY DEF FInit, FInv

LEMMA FInvNext == FInv /\ [FNext]_fenceVars => FInv'
<1> SUFFICES ASSUME FInv, [FNext]_fenceVars PROVE FInv'
  OBVIOUS
<1> USE FenceAssumption DEF FInv
<1>1. ASSUME NEW l \in Layouts, OverAligned(l) PROVE FInv'
  BY <1>1 DEF OverAligned
<1>2. ASSUME NEW l \in Layouts, Unfenced(l) PROVE FInv'
  BY <1>2 DEF Unfenced
<1>3. ASSUME NEW l \in Layouts, NEW b \in Bases, Fenced(l, b) PROVE FInv'
  BY <1>3 DEF Fenced
<1>4. ASSUME NEW o \in Reach, NEW p \in BOOLEAN, Write(o, p) PROVE FInv'
  BY <1>4 DEF Write
<1>5. ASSUME Dealloc PROVE FInv'
  BY <1>5 DEF Dealloc
<1>6. ASSUME DeallocAgain PROVE FInv'
  BY <1>6 DEF DeallocAgain
<1>7. ASSUME Evict PROVE FInv'
  BY <1>7 DEF Evict
<1>8. CASE UNCHANGED fenceVars
  BY <1>8 DEF fenceVars
<1>9. QED
  BY <1>1, <1>2, <1>3, <1>4, <1>5, <1>6, <1>7, <1>8 DEF FNext

LEMMA FInvPlacement == FInv => Placement
<1> SUFFICES ASSUME FInv, layout # NoLayout, origin = "fenced"
             PROVE  Sound(layout, mode, base, geom)
  BY DEF Placement, Sound, Size
<1>1. QED
  BY GeometryIsSound DEF FInv

(* Every fenced region is placed as README.md promises, for every page     *)
(* size, alignment, size and protection mode, in machine arithmetic.       *)
THEOREM AlignmentIsSacred == FSpec => []Placement
<1>1. FSpec => []FInv
  BY FInvInit, FInvNext, PTL DEF FSpec
<1>2. QED
  BY <1>1, FInvPlacement, PTL

(* While a fenced buffer is live, what was overwritten on the fenced side  *)
(* is padding that no longer holds POISON, and a program that has written  *)
(* nowhere else has left the padding alone.                                *)
PoisonInv ==
  origin = "fenced" /\ phase = "live" =>
    /\ smashed \subseteq PadOf(layout, geom) \ poison
    /\ ~strayed => PadOf(layout, geom) \subseteq poison

WitnessInv ==
  /\ FInv
  /\ phase = "start" => smashed = {} /\ ~strayed /\ said = {} /\ origin = "fenced"
  /\ phase = "live" => said = {}
  /\ phase = "panicked" => said = {} /\ smashed = {}
  /\ PoisonInv
  /\ NothingSilent
  /\ NoFalseAlarm

(* Where a write beyond the fenced side lands when it does not fault, and  *)
(* where a write inside the buffer lands.                                  *)
LEMMA WriteLands ==
  ASSUME FInv, layout # NoLayout, origin = "fenced", NEW o \in Reach
  PROVE  /\ ~InGuard(o) /\ Beyond(o) => o \in PadOf(layout, geom)
         /\ o \in 0..(Size - 1) => ~InGuard(o) /\ ~Beyond(o) /\ o \notin PadOf(layout, geom)
<1>1. Sound(layout, mode, base, geom) /\ mode \in {"above", "below"} /\ layout \in Layouts
  BY GeometryIsSound DEF FInv
<1>2. PageSize \in Nat \ {0} /\ Word \in Nat /\ layout.size \in Nat /\ layout.align \in Nat \ {0}
  BY <1>1, FenceAssumption
<1>3. Size = AtLeastOne(layout.size) /\ Size \in Nat \ {0}
  BY <1>2 DEF Size, AtLeastOne
<1>4. /\ geom.map_len \in Int /\ geom.guard_off \in Int /\ geom.user_off \in Int /\ geom.pad \in Nat
      /\ mode = "above" => geom.user_off + Size + geom.pad = geom.guard_off
      /\ mode = "above" => geom.map_len = geom.guard_off + PageSize
      /\ mode = "below" => geom.user_off = PageSize /\ geom.guard_off = 0 /\ geom.pad = 0
  <2>1. geom = GeometryFor(layout, mode) /\ layout # NoLayout
    BY DEF FInv
  <2>2. mode = "below" => geom.guard_off = 0 /\ geom.pad = 0
    BY <2>1 DEF GeometryFor
  <2>3. mode = "above" => geom.map_len = geom.guard_off + PageSize
    BY <2>1 DEF GeometryFor
  <2>4. QED
    BY <1>1, <1>2, <1>3, <2>2, <2>3 DEF Sound
<1>5. o \in (-geom.user_off)..(geom.map_len - geom.user_off - 1)
  BY DEF Reach
<1>6. CASE mode = "above"
  BY <1>2, <1>3, <1>4, <1>5, <1>6 DEF InGuard, Beyond, PadOf
<1>7. CASE mode = "below"
  BY <1>2, <1>3, <1>4, <1>5, <1>7 DEF InGuard, Beyond, PadOf
<1>8. QED
  BY <1>1, <1>6, <1>7

LEMMA WitnessInit == FInit => WitnessInv
BY FInvInit DEF FInit, WitnessInv, PoisonInv, NothingSilent, NoFalseAlarm

LEMMA WitnessNext == WitnessInv /\ [FNext]_fenceVars => WitnessInv'
<1> SUFFICES ASSUME WitnessInv, [FNext]_fenceVars PROVE WitnessInv'
  OBVIOUS
<1> USE DEF PoisonInv, NothingSilent, NoFalseAlarm
<1>0. FInv /\ FInv'
  BY FInvNext DEF WitnessInv
<1>1. ASSUME NEW l \in Layouts, OverAligned(l) PROVE WitnessInv'
  BY <1>0, <1>1 DEF OverAligned, WitnessInv
<1>2. ASSUME NEW l \in Layouts, Unfenced(l) PROVE WitnessInv'
  BY <1>0, <1>2 DEF Unfenced, WitnessInv
<1>3. ASSUME NEW l \in Layouts, NEW b \in Bases, Fenced(l, b) PROVE WitnessInv'
  <2>1. phase' = "live" /\ said' = {} /\ smashed' = {} /\ poison' = PadOf(layout', geom')
    BY <1>3 DEF Fenced, WitnessInv
  <2>2. QED
    BY <1>0, <2>1 DEF WitnessInv
<1>4. ASSUME NEW o \in Reach, NEW p \in BOOLEAN, Write(o, p) PROVE WitnessInv'
  <2>1. /\ phase = "live" /\ origin = "fenced" /\ layout # NoLayout /\ said = {}
        /\ smashed \subseteq PadOf(layout, geom) \ poison
        /\ ~strayed => PadOf(layout, geom) \subseteq poison
        /\ origin' = origin /\ layout' = layout /\ geom' = geom /\ said' = {}
        /\ PadOf(layout, geom)' = PadOf(layout, geom)
    BY <1>0, <1>4 DEF Write, WitnessInv, FInv, PadOf
  <2>2. /\ ~InGuard(o) /\ Beyond(o) => o \in PadOf(layout, geom)
        /\ o \in 0..(Size - 1) => ~InGuard(o) /\ ~Beyond(o) /\ o \notin PadOf(layout, geom)
    BY <1>0, <2>1, WriteLands
  <2>3. CASE InGuard(o)
    <3>1. phase' = "crashed" /\ strayed'
      BY <1>4, <2>2, <2>3 DEF Write
    <3>2. QED
      BY <1>0, <2>1, <3>1 DEF WitnessInv
  <2>4. CASE ~InGuard(o)
    <3>1. /\ phase' = "live"
          /\ poison' = IF p /\ o \in PadOf(layout, geom) THEN poison \cup {o} ELSE poison \ {o}
          /\ smashed' = IF ~p /\ Beyond(o) THEN smashed \cup {o} ELSE smashed \ {o}
          /\ strayed' = (strayed \/ o \notin 0..(Size - 1))
      BY <1>4, <2>1, <2>4 DEF Write
    <3>2. smashed' \subseteq PadOf(layout, geom) \ poison'
      BY <2>1, <2>2, <2>4, <3>1
    <3>3. ~strayed' => PadOf(layout, geom) \subseteq poison'
      BY <2>1, <2>2, <2>4, <3>1
    <3>4. QED
      BY <1>0, <2>1, <3>1, <3>2, <3>3 DEF WitnessInv
  <2>5. QED
    BY <2>3, <2>4
<1>5. ASSUME Dealloc PROVE WitnessInv'
  <2>1. phase = "live" /\ said = {} /\ PoisonInv /\ said' = IF Disturbed THEN {"padding"} ELSE {}
    BY <1>5 DEF Dealloc, WitnessInv
  <2>2. origin = "fenced" => (smashed # {} => Disturbed) /\ (~strayed => ~Disturbed)
    BY <2>1 DEF Disturbed
  <2>3. phase' \in {"freed", "gone"} /\ UNCHANGED <<origin, smashed, strayed>>
    BY <1>5 DEF Dealloc
  <2>4. QED
    BY <1>0, <2>1, <2>2, <2>3 DEF WitnessInv
<1>6. ASSUME DeallocAgain PROVE WitnessInv'
  BY <1>0, <1>6 DEF DeallocAgain, WitnessInv
<1>7. ASSUME Evict PROVE WitnessInv'
  BY <1>0, <1>7 DEF Evict, WitnessInv
<1>8. CASE UNCHANGED fenceVars
  BY <1>0, <1>8 DEF fenceVars, WitnessInv, PadOf
<1>9. QED
  BY <1>1, <1>2, <1>3, <1>4, <1>5, <1>6, <1>7, <1>8 DEF FNext

(* The padding and what has been written to it are known at any time.      *)
LEMMA FenceInvariance == FSpec => []WitnessInv
BY WitnessInit, WitnessNext, PTL DEF FSpec

(* A byte overwritten on the fenced side is never lost: the write faults,  *)
(* or the free reports it (map_region and check_padding of src/region.rs). *)
THEOREM FenceIsExact == FSpec => []NothingSilent
<1>1. WitnessInv => NothingSilent
  BY DEF WitnessInv
<1>2. QED
  BY <1>1, FenceInvariance, PTL

(* A program that stays inside its buffer and frees it once neither faults *)
(* nor is told of an overflow (check_padding of src/region.rs).            *)
THEOREM CorrectIsUndisturbed == FSpec => []NoFalseAlarm
<1>1. WitnessInv => NoFalseAlarm
  BY DEF WitnessInv
<1>2. QED
  BY <1>1, FenceInvariance, PTL
=============================================================================
