-------------------------------- MODULE Fence --------------------------------
(***************************************************************************)
(* The life of one allocation, byte by byte: where map_region puts it,     *)
(* what a stray write does to it, what check_padding says when it is freed *)
(* (src/region.rs), and what reaches check_padding (coffin_dealloc).       *)
(*                                                                         *)
(* Bytes are named by their offset from the user pointer.  The registry is *)
(* reduced to what it answers: whether it had a slot for the region, and   *)
(* whether the region is still in it.                                      *)
(***************************************************************************)
EXTENDS Geometry

CONSTANTS
  Layouts,   \* [size, align] of the allocation
  Bases,     \* addresses mmap may return
  SysRoom,   \* bytes after a buffer of the System allocator
  NoLayout   \* nothing has been allocated

(* Pages and words are powers of two, so an alignment up to a page divides *)
(* it.  Layout::from_size_align bounds the size padded to its alignment by *)
(* isize::MAX.  mmap returns page-aligned addresses.                       *)
ASSUME FenceAssumption ==
  /\ PageSize \in Nat \ {0}
  /\ Word \in Nat
  /\ 4 * PageSize <= Word
  /\ Layouts \subseteq [size : Nat, align : Nat \ {0}]
  /\ \A l \in Layouts : l.align <= PageSize => PageSize % l.align = 0
  /\ \A l \in Layouts : 2 * (l.size + l.align) <= Word
  /\ Bases \subseteq Nat
  /\ \A b \in Bases : b % PageSize = 0
  /\ NoLayout \notin Layouts

VARIABLES
  mode,      \* COFFIN_PROTECT
  layout,    \* the layout of the allocation
  base,      \* the base of its mapping
  geom,      \* its Geometry
  origin,    \* who served it: "fenced" or "system"
  phase,     \* "start", "live", "freed", "gone", "panicked", "crashed"
  poison,    \* the bytes after the buffer that hold POISON
  said,      \* the messages written to stderr
  smashed,   \* history: bytes the program overwrote on the fenced side
  strayed    \* history: the program wrote outside its buffer or freed it twice

fenceVars == <<mode, layout, base, geom, origin, phase, poison, said,
               smashed, strayed>>

Size == AtLeastOne(layout.size)

NoGeometry == [map_len |-> 0, guard_off |-> 0, user_off |-> 0, pad |-> 0]

FInit ==
  /\ mode \in {"above", "below"}
  /\ layout = NoLayout
  /\ base = 0
  /\ geom = NoGeometry
  /\ origin = "fenced"
  /\ phase = "start"
  /\ poison = {}
  /\ said = {}
  /\ smashed = {}
  /\ strayed = FALSE

(* The bytes of the padding behind a buffer of this layout. *)
PadOf(l, g) == AtLeastOne(l.size)..(AtLeastOne(l.size) + g.pad - 1)

(* The layout is refused: the assertion in geometry_for panics. *)
OverAligned(l) ==
  /\ phase = "start"
  /\ l.align > PageSize
  /\ phase' = "panicked"
  /\ UNCHANGED <<mode, layout, base, geom, origin, poison, said, smashed, strayed>>

(* Mutant: the last byte of the padding is not poisoned. *)
Fenced_ShortPoison(l, b) ==
  /\ phase = "start"
  /\ l.align <= PageSize
  /\ LET g == GeometryFor(l, mode) IN
       /\ b + g.map_len <= Word
       /\ geom' = g
       /\ poison' = AtLeastOne(l.size)..(AtLeastOne(l.size) + g.pad - 2)
  /\ layout' = l
  /\ base' = b
  /\ phase' = "live"
  /\ UNCHANGED <<mode, origin, said, smashed, strayed>>

(* map_region, and insert finds a slot. *)
Fenced(l, b) ==
  /\ phase = "start"
  /\ l.align <= PageSize
  /\ LET g == GeometryFor(l, mode) IN
       /\ b + g.map_len <= Word
       /\ geom' = g
       /\ poison' = PadOf(l, g)
  /\ layout' = l
  /\ base' = b
  /\ phase' = "live"
  /\ UNCHANGED <<mode, origin, said, smashed, strayed>>

(* The registry is full: the System allocator serves the request, and what *)
(* follows its buffer is anything.                                         *)
Unfenced(l) ==
  /\ phase = "start"
  /\ l.align <= PageSize
  /\ geom' = GeometryFor(l, mode)
  /\ layout' = l
  /\ origin' = "system"
  /\ phase' = "live"
  /\ \E after \in SUBSET (AtLeastOne(l.size)..(AtLeastOne(l.size) + SysRoom - 1)) :
       poison' = after
  /\ UNCHANGED <<mode, base, said, smashed, strayed>>

(* Byte o is in the guard page. *)
InGuard(o) == o + geom.user_off \in geom.guard_off..(geom.guard_off + PageSize - 1)

(* Byte o is on the side of the buffer that the mode fences. *)
Beyond(o) == IF mode = "above" THEN o >= Size ELSE o < 0

(* The bytes of the mapping. *)
Reach == (-geom.user_off)..(geom.map_len - geom.user_off - 1)

(* The program writes POISON or another value to a byte of the mapping, in *)
(* or out of the buffer.                                                   *)
Write(o, isPoison) ==
  /\ phase = "live"
  /\ origin = "fenced"
  /\ \/ /\ InGuard(o)
        /\ phase' = "crashed"
        /\ UNCHANGED <<poison, smashed>>
     \/ /\ ~InGuard(o)
        /\ poison' = IF isPoison /\ o \in PadOf(layout, geom) THEN poison \cup {o} ELSE poison \ {o}
        /\ smashed' = IF ~isPoison /\ Beyond(o) THEN smashed \cup {o} ELSE smashed \ {o}
        /\ UNCHANGED phase
  /\ strayed' = (strayed \/ o \notin 0..(Size - 1))
  /\ UNCHANGED <<mode, layout, base, geom, origin, said>>

(* Mutant: the last byte of the padding is not looked at. *)
Disturbed_SkipLast ==
  ~(Size..(Size + geom.pad - 2) \subseteq poison)

(* check_padding: every byte of the padding is compared with POISON.       *)
Disturbed == ~(PadOf(layout, geom) \subseteq poison)

(* coffin_dealloc of a live pointer: the padding is checked, whoever       *)
(* served the pointer, and then the region is sealed or the System         *)
(* allocator takes it back.                                                *)
Dealloc ==
  /\ phase = "live"
  /\ said' = IF Disturbed THEN said \cup {"padding"} ELSE said
  /\ phase' = IF origin = "fenced" THEN "freed" ELSE "gone"
  /\ UNCHANGED <<mode, layout, base, geom, origin, poison, smashed, strayed>>

(* coffin_dealloc of a region in quarantine: the padding is sealed, and    *)
(* reading it faults; without padding the registry finds the double free.  *)
DeallocAgain ==
  /\ phase = "freed"
  /\ \/ /\ geom.pad > 0
        /\ phase' = "crashed"
        /\ UNCHANGED said
     \/ /\ geom.pad = 0
        /\ said' = said \cup {"double free"}
        /\ UNCHANGED phase
  /\ strayed' = TRUE
  /\ UNCHANGED <<mode, layout, base, geom, origin, poison, smashed>>

(* The region leaves the quarantine. *)
Evict ==
  /\ phase = "freed"
  /\ phase' = "gone"
  /\ UNCHANGED <<mode, layout, base, geom, origin, poison, said, smashed, strayed>>

FNext ==
  \/ \E l \in Layouts : OverAligned(l) \/ Unfenced(l) \/ \E b \in Bases : Fenced(l, b)
  \/ \E o \in Reach, isPoison \in BOOLEAN : Write(o, isPoison)
  \/ Dealloc
  \/ DeallocAgain
  \/ Evict

FSpec == FInit /\ [][FNext]_fenceVars
-----------------------------------------------------------------------------
(* Properties. *)

(* Alignment is sacred (README.md), and so is the guard page: the user     *)
(* pointer of every region honours the alignment of its layout, the buffer *)
(* lies in the data pages, and between it and the guard page there is less *)
(* padding than the alignment, none when the size is a multiple of it; no  *)
(* sum of geometry_for wraps around for a layout Rust accepts.             *)
Placement ==
  layout # NoLayout /\ origin = "fenced" =>
    /\ (base + geom.user_off) % layout.align = 0
    /\ geom.guard_off % PageSize = 0
    /\ geom.guard_off + PageSize <= geom.map_len
    /\ geom.map_len < Word
    /\ mode = "above" =>
         /\ geom.user_off >= 0
         /\ geom.user_off + Size + geom.pad = geom.guard_off
         /\ geom.pad \in 0..(layout.align - 1)
         /\ Size % layout.align = 0 => geom.pad = 0
    /\ mode = "below" =>
         /\ geom.user_off = geom.guard_off + PageSize
         /\ geom.user_off + Size <= geom.map_len

(* A byte the program overwrites on the fenced side, up to the far end of  *)
(* the guard page, never goes unnoticed: the write faults, or the free of  *)
(* the buffer reports it.  (Unless it writes POISON.)                      *)
NothingSilent ==
  origin = "fenced" /\ phase \in {"freed", "gone"} /\ smashed # {} => "padding" \in said

(* A program that writes inside its buffer and frees it once is never told *)
(* of an overflow, and never faults.                                       *)
NoFalseAlarm == origin = "fenced" /\ ~strayed => phase # "crashed" /\ said = {}

(* region.rs:152: the pointer that check_padding is given "must match a     *)
(* live map_region allocation": padding is read only while it is mapped    *)
(* and Coffin's.                                                           *)
CheckedIsLive ==
  [][(Dealloc \/ DeallocAgain) /\ geom.pad > 0 => origin = "fenced" /\ phase = "live"]_fenceVars
=============================================================================
