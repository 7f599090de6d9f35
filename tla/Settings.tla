------------------------------ MODULE Settings ------------------------------
(***************************************************************************)
(* Configuration (src/config.rs): how the text of an environment variable  *)
(* becomes a number, a mode or a policy, in machine arithmetic; that each  *)
(* is resolved once and cached; the sizes Arena::new computes from two of  *)
(* them (src/registry.rs); and how numbers are printed (src/report.rs).    *)
(*                                                                         *)
(* A numeral is a sequence of characters: 0 to 9 are digits, any other     *)
(* number is a character that is not one.  The shift of next_pow2 and the  *)
(* product of q_cap wrap, as they do in a release build.                   *)
(***************************************************************************)
EXTENDS Integers, Sequences

CONSTANTS
  Bits,               \* usize::BITS
  IntMax,             \* i32::MAX
  Statuses,           \* a parent sees an exit code modulo Statuses (256)
  RegionSize,         \* size_of::<Region>()
  WordSize,           \* size_of::<usize>()
  DefaultMaxLive,     \* DEFAULT_MAX_LIVE
  DefaultQuarantine,  \* DEFAULT_QUARANTINE
  SysconfPage,        \* what sysconf(_SC_PAGESIZE) returns
  Envs,               \* the environments a process may be started in
  Unset               \* the variable is not in the environment; not cached

MaxWord == 2 ^ Bits - 1

(* The variables, and the settings, one of which is not a variable. *)
Keys == {"protect", "max_live", "quarantine", "symbolize", "on_fault", "annotate"}

Cached == Keys \cup {"page_size"}

ASSUME SettingsAssumption ==
  /\ Bits \in Nat \ {0}
  /\ IntMax \in Nat
  /\ Statuses \in Nat \ {0}
  /\ RegionSize \in Nat \ {0}
  /\ WordSize \in Nat \ {0}
  /\ DefaultMaxLive \in 1..MaxWord
  /\ DefaultQuarantine \in 1..MaxWord
  /\ SysconfPage \in Int
  /\ Unset \notin 0..MaxWord

(* The text after exit: is kept apart; a numeral has no other structure.   *)
ASSUME EnvsAssumption ==
  \A e \in Envs :
    /\ DOMAIN e = Keys
    /\ \A k \in {"max_live", "quarantine"} : e[k] = Unset \/ e[k] \in Seq(Nat)
    /\ e["on_fault"] = Unset \/ e["on_fault"] \in [exit : BOOLEAN, rest : Seq(Nat)]

(* The numbers of an exit status: a byte, much smaller than an i32, whose  *)
(* largest value it does not divide.                                       *)
ASSUME StatusAssumption ==
  /\ Statuses <= IntMax
  /\ IntMax % Statuses # 0

VARIABLES
  env,      \* the environment of the process
  cache,    \* the OnceLock of each setting
  arena     \* what Arena::new has made of two of them

settingsVars == <<env, cache, arena>>

-----------------------------------------------------------------------------
(* Numerals. *)

Digit == 0..9

AtMost(max, n) == IF n > max THEN max ELSE n

(* Mutant: the sum wraps around. *)
Accumulate_Wrap(n, d, max) == (10 * n + d) % (max + 1)

(* n.saturating_mul(10).saturating_add(d) *)
Accumulate(n, d, max) == AtMost(max, AtMost(max, 10 * n) + d)

(* The loop over the bytes: it stops at the first that is not a digit. *)
ScanDigits(text, max) ==
  LET scan[k \in 0..Len(text)] ==
        IF k = 0 THEN [n |-> 0, seen |-> FALSE, stopped |-> FALSE]
        ELSE LET acc == scan[k - 1]
             IN  IF acc.stopped \/ text[k] \notin Digit THEN [acc EXCEPT !.stopped = TRUE]
                 ELSE [n |-> Accumulate(acc.n, text[k], max), seen |-> TRUE, stopped |-> FALSE]
  IN  scan[Len(text)]

ParseUsize(text, default) ==
  IF text = Unset THEN default
  ELSE LET r == ScanDigits(text, MaxWord) IN IF r.seen /\ r.n > 0 THEN r.n ELSE default

(* usize::BITS - x.leading_zeros() *)
BitLength(x) == CHOOSE n \in 0..Bits : x < 2 ^ n /\ \A m \in 0..(n - 1) : x >= 2 ^ m

(* Mutant: powers of two are rounded up too. *)
NextPow2_Strict(x) == IF x <= 1 THEN 1 ELSE 2 ^ (BitLength(x) % Bits)

(* The shift amount wraps: 1 << BITS is 1 << 0. *)
NextPow2(x) == IF x <= 1 THEN 1 ELSE 2 ^ (BitLength(x - 1) % Bits)

Flag(text) == text \in {"1", "true", "yes"}

(* Mutant: <N> is read as a word and cut to an i32. *)
OnFault_Cut(text) ==
  IF text = Unset \/ ~text.exit THEN [exit |-> FALSE, code |-> 0]
  ELSE LET r == ScanDigits(text.rest, MaxWord)
       IN  IF r.seen THEN [exit |-> TRUE, code |-> r.n % (IntMax + 1)] ELSE [exit |-> FALSE, code |-> 0]

(* exit:<N>; anything else means abort. *)
OnFault(text) ==
  IF text = Unset \/ ~text.exit THEN [exit |-> FALSE, code |-> 0]
  ELSE LET r == ScanDigits(text.rest, IntMax)
       IN  IF r.seen THEN [exit |-> TRUE, code |-> r.n] ELSE [exit |-> FALSE, code |-> 0]

(* What the closure of each OnceLock computes. *)
Value(k) ==
  CASE k = "protect"    -> IF env[k] \in {"below", "BELOW"} THEN "below" ELSE "above"
    [] k = "max_live"   -> NextPow2(ParseUsize(env[k], DefaultMaxLive))
    [] k = "quarantine" -> LET n == ParseUsize(env[k], DefaultQuarantine) IN IF n > 1 THEN n ELSE 1
    [] k = "on_fault"   -> OnFault(env[k])
    [] k = "page_size"  -> IF SysconfPage <= 0 THEN 4096 ELSE SysconfPage
    [] OTHER            -> Flag(env[k])

-----------------------------------------------------------------------------
NoArena == [phase |-> "none", cap |-> 0, q_cap |-> 0, slots_bytes |-> 0, ring_bytes |-> 0]

SInit ==
  /\ env \in Envs
  /\ cache = [k \in Cached |-> Unset]
  /\ arena = NoArena

(* The program removes a variable. *)
RemoveVar(k) ==
  /\ env[k] # Unset
  /\ env' = [env EXCEPT ![k] = Unset]
  /\ UNCHANGED <<cache, arena>>

(* Mutant: get_or_init computes the value each time. *)
GetOrInit_Again(k) == Value(k)

GetOrInit(k) == IF cache[k] = Unset THEN Value(k) ELSE cache[k]

(* A getter is called. *)
Get(k) ==
  /\ cache' = [cache EXCEPT ![k] = GetOrInit(k)]
  /\ UNCHANGED <<env, arena>>

(* cap.checked_mul(size_of::<Region>()) *)
Checked(cap) == cap * RegionSize <= MaxWord

(* Arena::new: the size of the slots is checked, the size of the ring is   *)
(* not; mmap refuses a length of zero, and may fail.                       *)
NewArena ==
  LET cap   == GetOrInit("max_live")
      q_cap == GetOrInit("quarantine")
      ring_bytes == (q_cap * WordSize) % (MaxWord + 1)
      Made(phase) == [phase |-> phase, cap |-> cap, q_cap |-> q_cap,
                      slots_bytes |-> (cap * RegionSize) % (MaxWord + 1), ring_bytes |-> ring_bytes]
  IN  /\ arena.phase = "none"
      /\ cache' = [cache EXCEPT !["max_live"] = cap, !["quarantine"] = q_cap]
      /\ \/ ~Checked(cap) /\ arena' = Made("panicked")
         \/ Checked(cap) /\ ring_bytes # 0 /\ arena' = Made("mapped")
         \/ Checked(cap) /\ arena' = Made("aborted")
      /\ UNCHANGED env

SNext ==
  \/ \E k \in Keys : RemoveVar(k)
  \/ \E k \in Cached : Get(k)
  \/ NewArena

SSpec == SInit /\ [][SNext]_settingsVars
-----------------------------------------------------------------------------
(* Printing. *)

(* Mutant: the least significant digit comes first. *)
WriteDec_Reversed(v) ==
  LET loop[n \in 0..v] == IF n = 0 THEN <<>> ELSE <<n % 10>> \o loop[n \div 10]
  IN  IF v = 0 THEN <<0>> ELSE loop[v]

(* write_dec: the buffer is filled from its end. *)
WriteDec(v) ==
  LET loop[n \in 0..v] == IF n = 0 THEN <<>> ELSE Append(loop[n \div 10], n % 10)
  IN  IF v = 0 THEN <<0>> ELSE loop[v]

Nibbles(v) == (BitLength(v) + 3) \div 4

(* write_hex: as many digits as v has nibbles. *)
WriteHex(v) ==
  IF v = 0 THEN <<0>>
  ELSE [i \in 1..Nibbles(v) |-> (v \div 2 ^ (4 * (Nibbles(v) - i))) % 16]

-----------------------------------------------------------------------------
(* Reference definitions. *)

(* The number the first n digits spell in a base. *)
Number(base, digits, n) ==
  LET value[k \in 0..n] == IF k = 0 THEN 0 ELSE base * value[k - 1] + digits[k]
  IN  value[n]

(* How many digits a text begins with. *)
Leading(text) ==
  CHOOSE m \in 0..Len(text) :
    /\ \A i \in 1..m : text[i] \in Digit
    /\ m < Len(text) => text[m + 1] \notin Digit

(* The number the leading digits of a text spell. *)
Spelt(text) == Number(10, text, Leading(text))

Numeral(k) == k \in {"max_live", "quarantine"} /\ env[k] # Unset

Least(S) == CHOOSE n \in S : \A m \in S : n <= m

Powers == {2 ^ b : b \in 0..(Bits - 1)}

-----------------------------------------------------------------------------
(* Properties. *)

(* Whatever the text, COFFIN_QUARANTINE is the number its leading digits    *)
(* spell, or the largest word if that is larger, or the default if they    *)
(* spell none or zero: saturating digit by digit is saturating once.       *)
NumeralIsRead ==
  cache["quarantine"] # Unset /\ Numeral("quarantine") =>
    LET n == Spelt(env["quarantine"])
    IN  cache["quarantine"] = IF n = 0 THEN DefaultQuarantine ELSE AtMost(MaxWord, n)

(* Up to half the range of a word, the table has the least power of two of *)
(* slots that is not less than COFFIN_MAX_LIVE.                            *)
SlotsCover ==
  cache["max_live"] # Unset /\ Numeral("max_live") =>
    LET n == Spelt(env["max_live"])
    IN  n \in 1..(2 ^ (Bits - 1)) => cache["max_live"] = Least({p \in Powers : p >= n})

(* An arena that comes into use has mapped every slot the index mask can   *)
(* reach, and every position of its ring unless the size of the ring wraps *)
(* around; and the public getters agree with it however the environment    *)
(* has changed since.                                                      *)
ArenaIsWhole ==
  arena.phase = "mapped" =>
    /\ arena.slots_bytes = arena.cap * RegionSize
    /\ arena.q_cap * WordSize <= MaxWord => arena.ring_bytes = arena.q_cap * WordSize
    /\ cache["max_live"] = arena.cap
    /\ cache["quarantine"] = arena.q_cap

(* The status a parent sees after exit:<N> is N for every N that a status  *)
(* can hold, and a failure for every N too large for an i32.               *)
ExitIsSeen ==
  LET v == cache["on_fault"]
  IN  v # Unset /\ env["on_fault"] # Unset /\ v.exit =>
        LET n == Spelt(env["on_fault"].rest)
        IN  /\ n < Statuses => v.code % Statuses = n
            /\ n > IntMax => v.code % Statuses # 0

(* A number read from the environment is printed as a numeral without      *)
(* leading zeros that reads back as the same number, in base ten and in    *)
(* base sixteen, within the buffers of write_dec and write_hex.            *)
PrintsBack ==
  LET v == cache["quarantine"]
  IN  v # Unset =>
        /\ Spelt(WriteDec(v)) = v /\ WriteDec(v)[1] # 0
        /\ Len(WriteDec(v)) <= Len(WriteDec(MaxWord))
        /\ Number(16, WriteHex(v), Len(WriteHex(v))) = v
        /\ WriteHex(v)[1] # 0
        /\ 4 * Len(WriteHex(v)) < Bits + 4

(* The variables that are numerals, and the one with a numeral in it.      *)
EnvInv ==
  /\ DOMAIN env = Keys
  /\ \A k \in {"max_live", "quarantine"} : env[k] = Unset \/ env[k] \in Seq(Nat)
  /\ env["on_fault"] = Unset \/ env["on_fault"] \in [exit : BOOLEAN, rest : Seq(Nat)]

(* A setting keeps the value its variable had when it was first asked for. *)
CacheInv ==
  /\ DOMAIN cache = Cached
  /\ \A k \in Cached :
       cache[k] # Unset /\ (k = "page_size" \/ env[k] # Unset) => cache[k] = Value(k)
  /\ \A k \in {"max_live", "quarantine"} : cache[k] \in {Unset} \cup 1..MaxWord

(* The sizes of an arena are computed from what the settings still say.    *)
ArenaInv ==
  arena.phase = "mapped" =>
    /\ {arena.cap, arena.q_cap} \subseteq 1..MaxWord
    /\ arena.cap = cache["max_live"] /\ arena.q_cap = cache["quarantine"]
    /\ Checked(arena.cap)
    /\ arena.slots_bytes = (arena.cap * RegionSize) % (MaxWord + 1)
    /\ arena.ring_bytes = (arena.q_cap * WordSize) % (MaxWord + 1)

(* The inductive invariant of the configuration. *)
SettingsInv == EnvInv /\ CacheInv /\ ArenaInv

(* README.md: COFFIN_MAX_LIVE is the number of registry slots, "rounded up *)
(* to a power of two": the table never has fewer slots, unless no power of *)
(* two that fits in a word is as large, and then it has the largest.       *)
RoundedUp ==
  cache["max_live"] # Unset /\ Numeral("max_live") =>
    cache["max_live"] >= AtMost(MaxWord \div 2 + 1, Spelt(env["max_live"]))
=============================================================================
